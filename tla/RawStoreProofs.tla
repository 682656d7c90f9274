--------------------------- MODULE RawStoreProofs ---------------------------
(***************************************************************************)
(* The raw tables, for any set of nodes, ways, locations and reference     *)
(* lists, rounds of any size and any number of restarts.                   *)
(*                                                                         *)
(* A way is never in both tables (TablesApart): it does not matter what    *)
(* the workers put into a batch, only that every statement on a way that   *)
(* writes one table clears the other.                                      *)
(*                                                                         *)
(* What the tables hold is related to OSM through the changes that are     *)
(* Late: in a file still to be applied, or LateInTxn: in a later file or   *)
(* in what is left of the batch.  Each row is right, or the newest change  *)
(* of its object is late (NodesFollow, WaysFollow); nothing newer than a   *)
(* statement was done before it (UpToDate); and at the end of the feed     *)
(* nothing is late.  It rests on what a file and a batch are (FeedInv,     *)
(* BatchShape): the changes of an object in the order of their versions,   *)
(* which is an induction over the workers' loops.                          *)
(*                                                                         *)
(* When files are taken one by one (Steady) the conditions on the ways are *)
(* themselves invariants: a node is deleted only once the ways have left   *)
(* it (NodesKept), a row is from the import or a change (RowsFrom), and    *)
(* its nodes are stored or come before its next version (RowsBased), so    *)
(* that the next file is written as a whole (NextWritten).                 *)
(***************************************************************************)
EXTENDS RawStore, Induction

\* Both tables have a row, possibly an empty one, for every way.
Shaped(db) ==
  /\ db = [nodes |-> db.nodes, ways |-> db.ways]
  /\ db.ways = [table \in Tables |-> [w \in Ways |-> db.ways[table][w]]]

\* No way has a row in both.
Disjoint(db) ==
  \A w \in Ways : \E table \in Tables : db.ways[table][w].version = 0

\* The inductive invariant: the committed tables, and those of the running
\* transaction, which the next commit makes the committed ones.
TablesApart ==
  /\ Shaped(osm) /\ Disjoint(osm)
  /\ Shaped(txn) /\ Disjoint(txn)

-----------------------------------------------------------------------------
\* Every reference list has a table, and every table another one.
LEMMA TwoTables ==
  /\ \A refs : TableOf(refs) \in Tables
  /\ \A table \in Tables : Other(table) \in Tables /\ Other(table) # table
<1>1. \A refs : TableOf(refs) \in Tables
  BY DEF TableOf, Tables
<1>2. ASSUME NEW table \in Tables
      PROVE  Other(table) \in Tables /\ Other(table) # table
  <2>1. \E t \in Tables : t # table
    BY DEF Tables
  <2> QED
    BY <2>1 DEF Other
<1> QED
  BY <1>1, <1>2

\* One written row leaves the tables their shape.
LEMMA WriteShaped ==
  ASSUME NEW db, Shaped(db), NEW x, NEW row, NEW table \in Tables
  PROVE  Shaped([db EXCEPT !.ways[table][x] = row])
<1> DEFINE written == [db.ways EXCEPT ![table] = [@ EXCEPT ![x] = row]]
<1>1. [db EXCEPT !.ways[table][x] = row] = [nodes |-> db.nodes, ways |-> written]
  <2>1. \A n, rows : LET old == [nodes |-> n, ways |-> rows]
                  IN  [old EXCEPT !.ways[table][x] = row]
                        = [nodes |-> n, ways |-> [rows EXCEPT ![table] = [@ EXCEPT ![x] = row]]]
    OBVIOUS
  <2>2. db = [nodes |-> db.nodes, ways |-> db.ways]
    BY DEF Shaped
  <2> QED
    BY <2>1, <2>2
<1>2. DOMAIN db.ways = Tables
  BY DEF Shaped
<1>3. ASSUME NEW t \in Tables
      PROVE  written[t] = [w \in Ways |-> written[t][w]]
  <2>1. db.ways[t] = [w \in Ways |-> db.ways[t][w]]
    BY DEF Shaped
  <2>2. written[t] = IF t = table THEN [db.ways[t] EXCEPT ![x] = row] ELSE db.ways[t]
    BY <1>2
  <2> QED
    BY <2>1, <2>2
<1>4. written = [t \in Tables |-> written[t]]
  BY <1>2
<1>5. written = [t \in Tables |-> [w \in Ways |-> written[t][w]]]
  BY <1>3, <1>4
<1> QED
  BY <1>1, <1>5 DEF Shaped

\* Writing one table of a way and clearing the other keeps the tables apart,
\* whatever is written.
LEMMA WriteAndClear ==
  ASSUME NEW db, Shaped(db), Disjoint(db),
         NEW x, NEW row, NEW table \in Tables
  PROVE  LET new == [db EXCEPT !.ways[table][x] = row,
                               !.ways[Other(table)][x] = NoWay]
         IN  Shaped(new) /\ Disjoint(new)
<1> DEFINE half == [db EXCEPT !.ways[table][x] = row]
           new == [half EXCEPT !.ways[Other(table)][x] = NoWay]
<1>1. Other(table) \in Tables /\ Other(table) # table
  BY TwoTables
<1>2. Shaped(half)
  BY WriteShaped
<1>3. Shaped(new)
  <2> HIDE DEF half
  <2> QED
    BY <1>1, <1>2, WriteShaped
<1>4. ASSUME NEW w \in Ways
      PROVE  \E t \in Tables : new.ways[t][w].version = 0
  <2>1. CASE w = x
    <3>1. new.ways[Other(table)][w] = NoWay
      BY <1>1, <2>1 DEF Shaped
    <3> QED
      BY <1>1, <3>1 DEF NoWay
  <2>2. CASE w # x
    <3>1. \A t \in Tables : new.ways[t][w] = db.ways[t][w]
      BY <1>1, <2>2 DEF Shaped
    <3> QED
      BY <3>1 DEF Disjoint
  <2> QED
    BY <2>1, <2>2
<1>5. Disjoint(new)
  BY <1>4 DEF Disjoint
<1> QED
  BY <1>3, <1>5

\* Clearing one row of a way keeps the tables apart.
LEMMA ClearOne ==
  ASSUME NEW db, Shaped(db), Disjoint(db), NEW x, NEW table \in Tables
  PROVE  LET new == [db EXCEPT !.ways[table][x] = NoWay]
         IN  Shaped(new) /\ Disjoint(new)
<1> DEFINE new == [db EXCEPT !.ways[table][x] = NoWay]
<1>1. Shaped(new)
  BY WriteShaped
<1>2. \A t \in Tables, w \in Ways :
        new.ways[t][w] = db.ways[t][w] \/ new.ways[t][w] = NoWay
  BY DEF Shaped
<1>3. Disjoint(new)
  BY <1>2 DEF Disjoint, NoWay
<1> QED
  BY <1>1, <1>3

\* Nodes have nothing to do with it.
LEMMA NodesApart ==
  ASSUME NEW db, Shaped(db), Disjoint(db), NEW x, NEW row
  PROVE  LET new == [db EXCEPT !.nodes[x] = row]
         IN  Shaped(new) /\ Disjoint(new)
<1> DEFINE new == [db EXCEPT !.nodes[x] = row]
<1>1. new.ways = db.ways /\ new = [nodes |-> new.nodes, ways |-> new.ways]
  BY DEF Shaped
<1> QED
  BY <1>1 DEF Shaped, Disjoint

-----------------------------------------------------------------------------
\* Every statement keeps the tables apart.
LEMMA ApplyKeeps ==
  ASSUME NEW db, Shaped(db), Disjoint(db), NEW s
  PROVE  Shaped(Apply(db, s)) /\ Disjoint(Apply(db, s))
<1>1. Shaped(StoreNode(db, s.c)) /\ Disjoint(StoreNode(db, s.c))
  BY NodesApart DEF StoreNode
<1>2. Shaped(RemoveNode(db, s.c)) /\ Disjoint(RemoveNode(db, s.c))
  BY NodesApart DEF RemoveNode
<1>3. Shaped(RemoveWay(db, s.c)) /\ Disjoint(RemoveWay(db, s.c))
  BY ClearOne, TwoTables DEF RemoveWay
<1>4. Shaped(MoveWay(db, s.c, s.geom)) /\ Disjoint(MoveWay(db, s.c, s.geom))
  BY WriteAndClear, TwoTables DEF MoveWay
<1>5. Shaped(StoreWay(db, s.c, s.geom)) /\ Disjoint(StoreWay(db, s.c, s.geom))
  BY WriteAndClear, TwoTables DEF StoreWay
<1> QED
  BY <1>1, <1>2, <1>3, <1>4, <1>5 DEF Apply

\* An import leaves them apart: a way has one shape.
LEMMA InitApart == Init => TablesApart
<1> SUFFICES ASSUME Init PROVE TablesApart
  OBVIOUS
<1>1. osm = Imported(world) /\ txn = osm
  BY DEF Init
<1>2. Shaped(Imported(world))
  BY DEF Shaped, Imported
<1>3. ASSUME NEW w \in Ways
      PROVE  \E table \in Tables : Imported(world).ways[table][w].version = 0
  <2>1. Other(TableOf(world.ways[w].refs)) \in Tables
        /\ Other(TableOf(world.ways[w].refs)) # TableOf(world.ways[w].refs)
    BY TwoTables
  <2>2. Imported(world).ways[Other(TableOf(world.ways[w].refs))][w] = NoWay
    BY <2>1 DEF Imported
  <2> QED
    BY <2>1, <2>2 DEF NoWay
<1> QED
  BY <1>1, <1>2, <1>3 DEF TablesApart, Disjoint

LEMMA NextApart == TablesApart /\ [Next]_vars => TablesApart'
<1> SUFFICES ASSUME TablesApart, [Next]_vars PROVE TablesApart'
  OBVIOUS
<1>1. CASE Exec
  <2>1. osm' = osm /\ txn' = Apply(txn, Head(batch))
    BY <1>1 DEF Exec
  <2> QED
    BY <2>1, ApplyKeeps DEF TablesApart
<1>2. CASE Commit
  BY <1>2 DEF Commit, TablesApart
<1>3. CASE Restart
  BY <1>3 DEF Restart, TablesApart
<1>4. CASE osm' = osm /\ txn' = txn
  BY <1>4 DEF TablesApart
<1> QED
  BY <1>1, <1>2, <1>3, <1>4
  DEF Next, vars, program, Publish, BeginRound, DropNode, EditNode, DropWay, EditWay

\* No way is ever in both tables, whatever files, in whatever rounds and however
\* often, the program applies.
THEOREM ApartTheorem == Spec => []NoDuplicateWay
<1>1. TablesApart => NoDuplicateWay
  BY DEF TablesApart, Disjoint, NoDuplicateWay
<1> QED
  BY InitApart, NextApart, <1>1, PTL DEF Spec

-----------------------------------------------------------------------------
(* The files.  File number Len(feed) + 1 is the one being made, so that    *)
(* publishing it changes nothing but the number of files.                  *)

NodeChanges ==
  {c \in [kind : {"node"}, id : Nodes, action : {"create", "modify", "remove"},
          version : Nat \ {0}, loc : Locs \cup {NoLoc}] :
     c.action # "remove" => c.loc \in Locs}

WayChanges ==
  {c \in [kind : {"way"}, id : Ways, action : {"create", "modify", "remove"},
          version : Nat \ {0}, refs : Seq(Nodes)] :
     c.action # "remove" => c.refs \in Refs}

Changes == NodeChanges \cup WayChanges

Same(c, d) == c.kind = d.kind /\ c.id = d.id

Writes(c) == c.kind = "way" /\ c.action # "remove"

Places == 1 .. Len(feed) + 1

In(i) == IF i \in DOMAIN feed THEN ToSet(feed[i]) ELSE ToSet(open.nodes) \cup ToSet(open.ways)

Log == UNION {In(i) : i \in Places}

\* Versions of a node or a way rise along a file.
Rising(file) ==
  \A p, q \in DOMAIN file :
    p < q /\ Same(file[p], file[q]) => file[p].version < file[q].version

\* What OSM has of the node or way that c changes.
Thing(c) == IF c.kind = "node" THEN world.nodes[c.id] ELSE world.ways[c.id]

Matches(c) ==
  /\ c.action = "remove" <=> ~Thing(c).there
  /\ c.action # "remove" =>
       IF c.kind = "node" THEN c.loc = Thing(c).loc ELSE c.refs = Thing(c).refs
  /\ c.action = "remove" /\ c.kind = "way" => c.refs \in {<<>>, Thing(c).refs}

Worlds ==
  [ nodes : [Nodes -> [version : Nat, there : BOOLEAN, loc : Locs]],
    ways : [Ways -> [version : Nat, there : BOOLEAN, refs : Refs]] ]

FeedShape ==
  /\ world \in Worlds
  /\ \A n \in Nodes : world.nodes[n].there => world.nodes[n].version > 0
  /\ \A w \in Ways : world.ways[w].there => world.ways[w].version > 0
  /\ open \in [nodes : Seq(NodeChanges), ways : Seq(WayChanges)]
  /\ feed \in Seq(Seq(Changes))

\* The versions of a node or a way rise along the feed.
FeedRises ==
  /\ \A i, j \in Places : i < j =>
       \A c \in In(i), d \in In(j) : Same(c, d) => c.version < d.version
  /\ \A i \in DOMAIN feed : Rising(feed[i])
  /\ Rising(open.nodes) /\ Rising(open.ways)

\* Of every node or way that was changed the newest change is in the feed, and the
\* one before it when an older one is.
Newest(c) ==
  /\ \E d \in Log : Same(c, d) /\ d.version = Thing(c).version
  /\ c.version < Thing(c).version =>
       \E d \in Log : Same(c, d) /\ d.version + 1 = Thing(c).version

\* The change before the one that removed a way wrote it.
WroteLast(c) ==
  c.kind = "way" /\ c.version + 1 = Thing(c).version /\ ~Thing(c).there =>
    c.action # "remove" /\ c.refs = Thing(c).refs

FeedTells ==
  \A c \in Log :
    /\ c.version <= Thing(c).version
    /\ c.version = Thing(c).version => Matches(c)
    /\ Newest(c) /\ WroteLast(c)

FeedInv == FeedShape /\ FeedRises /\ FeedTells

\* An edit: the change c is made, and goes into the file being made.
Made(c) ==
  /\ c \in Changes
  /\ c.version = Thing(c).version + 1
  /\ UNCHANGED <<feed, program>>
  /\ open' = IF c.kind = "node" THEN [open EXCEPT !.nodes = Append(@, c)]
                                ELSE [open EXCEPT !.ways = Append(@, c)]
  /\ c.kind = "node" =>
       /\ c.action = "remove" =>
            /\ world.nodes[c.id].there
            /\ \A w \in Ways : world.ways[w].there => c.id \notin ToSet(world.ways[w].refs)
       /\ c.action # "remove" => c.action = Action(Thing(c).version)
       /\ world' = [world EXCEPT !.nodes[c.id] =
                      [ version |-> c.version, there |-> c.action # "remove",
                        loc |-> IF c.action = "remove" THEN @.loc ELSE c.loc ]]
  /\ c.kind = "way" =>
       /\ c.action = "remove" =>
            /\ world.ways[c.id].there /\ c.refs \in {<<>>, world.ways[c.id].refs}
            /\ "none" \notin RefsOnDelete => c.refs = world.ways[c.id].refs
       /\ c.action # "remove" => \A n \in ToSet(c.refs) : world.nodes[n].there
       /\ world' = [world EXCEPT !.ways[c.id] =
                      [ version |-> c.version, there |-> c.action # "remove",
                        refs |-> IF c.action = "remove" THEN @.refs ELSE c.refs ]]

Edit ==
  \/ \E n \in Nodes : DropNode(n) \/ \E loc \in Locs : EditNode(n, loc)
  \/ \E w \in Ways : DropWay(w) \/ \E r \in Refs : EditWay(w, r)

LEMMA EditMade ==
  ASSUME FeedShape, Edit
  PROVE  \E c : Made(c)
<1>1. ASSUME NEW n \in Nodes, NEW loc \in Locs, EditNode(n, loc)
      PROVE  \E c : Made(c)
  <2> DEFINE v == world.nodes[n].version
             c == NodeChange(n, Action(v), v + 1, loc)
  <2>1. v \in Nat
    BY DEF FeedShape, Worlds
  <2>2. Action(v) \in {"create", "modify"}
    BY DEF Action
  <2>3. c \in NodeChanges
    BY <2>1, <2>2 DEF NodeChanges, NodeChange
  <2>4. c.kind = "node" /\ c.id = n /\ c.action = Action(v) /\ c.version = v + 1 /\ c.loc = loc
    BY DEF NodeChange
  <2>5. world' = [world EXCEPT !.nodes[n] = [version |-> v + 1, there |-> TRUE, loc |-> loc]]
        /\ open' = [open EXCEPT !.nodes = Append(@, c)] /\ UNCHANGED <<feed, program>>
    BY <1>1 DEF EditNode
  <2>6. Thing(c) = world.nodes[n]
    BY <2>4 DEF Thing
  <2> HIDE DEF c
  <2>7. world' = [world EXCEPT !.nodes[c.id] =
                      [ version |-> c.version, there |-> c.action # "remove",
                        loc |-> IF c.action = "remove" THEN @.loc ELSE c.loc ]]
    BY <2>2, <2>4, <2>5
  <2>8. Made(c)
    BY <2>2, <2>3, <2>4, <2>5, <2>6, <2>7 DEF Made, Changes
  <2> QED BY <2>8
<1>2. ASSUME NEW n \in Nodes, DropNode(n)
      PROVE  \E c : Made(c)
  <2> DEFINE v == world.nodes[n].version
             c == NodeChange(n, "remove", v + 1, NoLoc)
  <2>1. v \in Nat /\ world.nodes[n] = [version |-> v, there |-> world.nodes[n].there, loc |-> world.nodes[n].loc]
    BY DEF FeedShape, Worlds
  <2>3. c \in NodeChanges
    BY <2>1 DEF NodeChanges, NodeChange
  <2>4. c.kind = "node" /\ c.id = n /\ c.action = "remove" /\ c.version = v + 1
    BY DEF NodeChange
  <2>5. /\ world' = [world EXCEPT !.nodes[n] = [version |-> v + 1, there |-> FALSE, loc |-> @.loc]]
        /\ open' = [open EXCEPT !.nodes = Append(@, c)] /\ UNCHANGED <<feed, program>>
        /\ world.nodes[n].there
        /\ \A w \in Ways : world.ways[w].there => n \notin ToSet(world.ways[w].refs)
    BY <1>2 DEF DropNode
  <2>6. Thing(c) = world.nodes[n]
    BY <2>4 DEF Thing
  <2> HIDE DEF c
  <2>7. world' = [world EXCEPT !.nodes[c.id] =
                      [ version |-> c.version, there |-> c.action # "remove",
                        loc |-> IF c.action = "remove" THEN @.loc ELSE c.loc ]]
    <3>1. PICK row : row = [version |-> v + 1, there |-> FALSE, loc |-> world.nodes[n].loc]
      OBVIOUS
    <3>2. world' = [world EXCEPT !.nodes[n] = row]
      BY <2>5, <3>1
    <3>3. [version |-> c.version, there |-> c.action # "remove",
           loc |-> IF c.action = "remove" THEN world.nodes[n].loc ELSE c.loc] = row
      BY <2>4, <3>1
    <3> QED BY <2>4, <3>2, <3>3
  <2>8. Made(c)
    BY <2>3, <2>4, <2>5, <2>6, <2>7 DEF Made, Changes
  <2> QED BY <2>8
<1>3. ASSUME NEW w \in Ways, NEW r \in Refs, EditWay(w, r)
      PROVE  \E c : Made(c)
  <2> DEFINE v == world.ways[w].version
             c == WayChange(w, Action(v), v + 1, r)
  <2>1. v \in Nat
    BY DEF FeedShape, Worlds
  <2>2. Action(v) \in {"create", "modify"}
    BY DEF Action
  <2>3. c \in WayChanges
    BY <2>1, <2>2, RefsAssumption DEF WayChanges, WayChange
  <2>4. c.kind = "way" /\ c.id = w /\ c.action = Action(v) /\ c.version = v + 1 /\ c.refs = r
    BY DEF WayChange
  <2>5. /\ world' = [world EXCEPT !.ways[w] = [version |-> v + 1, there |-> TRUE, refs |-> r]]
        /\ open' = [open EXCEPT !.ways = Append(@, c)] /\ UNCHANGED <<feed, program>>
        /\ \A n \in ToSet(r) : world.nodes[n].there
    BY <1>3 DEF EditWay
  <2>6. Thing(c) = world.ways[w]
    BY <2>4 DEF Thing
  <2> HIDE DEF c
  <2>7. world' = [world EXCEPT !.ways[c.id] =
                      [ version |-> c.version, there |-> c.action # "remove",
                        refs |-> IF c.action = "remove" THEN @.refs ELSE c.refs ]]
    BY <2>2, <2>4, <2>5
  <2>8. Made(c)
    BY <2>2, <2>3, <2>4, <2>5, <2>6, <2>7 DEF Made, Changes
  <2> QED BY <2>8
<1>4. ASSUME NEW w \in Ways, DropWay(w)
      PROVE  \E c : Made(c)
  <2> DEFINE v == world.ways[w].version
  <2>1. PICK listed \in RefsOnDelete :
          open' = [open EXCEPT !.ways = Append(@, WayChange(w, "remove", v + 1,
                      IF listed = "all" THEN world.ways[w].refs ELSE <<>>))]
    BY <1>4 DEF DropWay
  <2> DEFINE r == IF listed = "all" THEN world.ways[w].refs ELSE <<>>
             c == WayChange(w, "remove", v + 1, r)
  <2>2. v \in Nat /\ world.ways[w].refs \in Refs
    BY DEF FeedShape, Worlds
  <2>3. c \in WayChanges /\ r \in {<<>>, world.ways[w].refs}
    BY <2>2, RefsAssumption DEF WayChanges, WayChange
  <2>4. c.kind = "way" /\ c.id = w /\ c.action = "remove" /\ c.version = v + 1 /\ c.refs = r
    BY DEF WayChange
  <2>5. /\ world' = [world EXCEPT !.ways[w] = [version |-> v + 1, there |-> FALSE, refs |-> @.refs]]
        /\ open' = [open EXCEPT !.ways = Append(@, c)] /\ UNCHANGED <<feed, program>>
        /\ world.ways[w].there
    BY <1>4, <2>1 DEF DropWay
  <2>6. Thing(c) = world.ways[w]
    BY <2>4 DEF Thing
  <2>9. "none" \notin RefsOnDelete => r = world.ways[w].refs
    BY DeleteAssumption
  <2> HIDE DEF c
  <2>7. world' = [world EXCEPT !.ways[c.id] =
                      [ version |-> c.version, there |-> c.action # "remove",
                        refs |-> IF c.action = "remove" THEN @.refs ELSE c.refs ]]
    <3>1. PICK row : row = [version |-> v + 1, there |-> FALSE, refs |-> world.ways[w].refs]
      OBVIOUS
    <3>2. world' = [world EXCEPT !.ways[w] = row]
      BY <2>5, <3>1
    <3>3. [version |-> c.version, there |-> c.action # "remove",
           refs |-> IF c.action = "remove" THEN world.ways[w].refs ELSE c.refs] = row
      BY <2>4, <3>1
    <3> QED BY <2>4, <3>2, <3>3
  <2>8. Made(c)
    BY <2>3, <2>4, <2>5, <2>6, <2>7, <2>9 DEF Made, Changes
  <2> QED BY <2>8
<1> QED
  BY <1>1, <1>2, <1>3, <1>4 DEF Edit

\* Places and what is in them.
LEMMA PlaceFacts ==
  ASSUME FeedShape
  PROVE  /\ Len(feed) \in Nat
         /\ \A i \in Places : i \in Nat /\ i > 0 /\ i <= Len(feed) + 1
         /\ \A i \in Places : In(i) \subseteq Changes
         /\ \A i \in DOMAIN feed : i \in Places /\ In(i) = ToSet(feed[i]) /\ feed[i] \in Seq(Changes)
         /\ Len(feed) + 1 \in Places
         /\ \A c \in Changes : c.kind \in {"node", "way"}
         /\ Log \subseteq Changes
<1>1. Len(feed) \in Nat /\ DOMAIN feed = 1 .. Len(feed)
      /\ \A i \in DOMAIN feed : feed[i] \in Seq(Changes)
  BY DEF FeedShape
<1>2. open.nodes \in Seq(NodeChanges) /\ open.ways \in Seq(WayChanges)
  BY DEF FeedShape
<1>3. ASSUME NEW i \in Places PROVE In(i) \subseteq Changes
  <2>1. CASE i \in DOMAIN feed
    BY <1>1, <2>1 DEF In, ToSet
  <2>2. CASE i \notin DOMAIN feed
    BY <1>2, <2>2 DEF In, ToSet, Changes
  <2> QED BY <2>1, <2>2
<1>4. \A c \in Changes : c.kind \in {"node", "way"}
  BY DEF Changes, NodeChanges, WayChanges
<1> QED
  BY <1>1, <1>3, <1>4 DEF Places, In, Log

\* What an edit changes.
LEMMA MadeFacts ==
  ASSUME FeedShape, NEW c, Made(c)
  PROVE  /\ Places' = Places /\ feed' = feed
         /\ \A i \in Places : In(i)' = IF i = Len(feed) + 1 THEN In(i) \cup {c} ELSE In(i)
         /\ Log' = Log \cup {c}
         /\ Thing(c)'.version = c.version
         /\ Thing(c)'.there <=> c.action # "remove"
         /\ Matches(c)'
         /\ c \in Changes /\ c.version \in Nat /\ Thing(c).version \in Nat
         /\ c.version = Thing(c).version + 1
         /\ \A d \in Changes : Same(d, c) => Thing(d)' = Thing(c)' /\ Thing(d) = Thing(c)
         /\ \A d \in Changes : ~Same(d, c) => Thing(d)' = Thing(d)
         /\ c.kind = "way" /\ c.action = "remove" =>
              Thing(c)'.refs = Thing(c).refs /\ Thing(c).there
         /\ open'.nodes = IF c.kind = "node" THEN Append(open.nodes, c) ELSE open.nodes
         /\ open'.ways = IF c.kind = "way" THEN Append(open.ways, c) ELSE open.ways
         /\ FeedShape'
<1>1. c \in Changes /\ feed' = feed /\ c.version = Thing(c).version + 1
  BY DEF Made
<1>2. /\ open.nodes \in Seq(NodeChanges) /\ open.ways \in Seq(WayChanges)
      /\ open = [nodes |-> open.nodes, ways |-> open.ways]
      /\ world.nodes \in [Nodes -> [version : Nat, there : BOOLEAN, loc : Locs]]
      /\ world.ways \in [Ways -> [version : Nat, there : BOOLEAN, refs : Refs]]
      /\ world = [nodes |-> world.nodes, ways |-> world.ways]
  BY DEF FeedShape, Worlds
<1>3. c.version \in Nat \ {0}
  BY <1>1 DEF Changes, NodeChanges, WayChanges
<1>4. CASE c.kind = "node"
  <2>1. /\ c \in NodeChanges /\ c.id \in Nodes /\ (c.action # "remove" => c.loc \in Locs)
    BY <1>1, <1>4 DEF Changes, NodeChanges, WayChanges
  <2>2. PICK row : row = [ version |-> c.version, there |-> c.action # "remove",
                           loc |-> IF c.action = "remove" THEN world.nodes[c.id].loc ELSE c.loc ]
    OBVIOUS
  <2>3. row \in [version : Nat, there : BOOLEAN, loc : Locs]
    <3>1. world.nodes[c.id].loc \in Locs
      BY <1>2, <2>1
    <3> QED BY <1>3, <2>1, <2>2, <3>1
  <2>4. /\ row.version = c.version /\ (row.there <=> c.action # "remove")
        /\ c.action # "remove" => row.loc = c.loc
    BY <2>2
  <2>5. world' = [world EXCEPT !.nodes[c.id] = row]
    <3>1. world' = [world EXCEPT !.nodes[c.id] =
                      [ version |-> c.version, there |-> c.action # "remove",
                        loc |-> IF c.action = "remove" THEN @.loc ELSE c.loc ]]
      BY <1>4 DEF Made
    <3> QED BY <2>2, <3>1
  <2>6. /\ world'.nodes = [world.nodes EXCEPT ![c.id] = row] /\ world'.ways = world.ways
        /\ world' = [nodes |-> world'.nodes, ways |-> world'.ways]
    BY <1>2, <2>5
  <2>7. world'.nodes \in [Nodes -> [version : Nat, there : BOOLEAN, loc : Locs]]
    BY <1>2, <2>3, <2>6
  <2>8. world' \in Worlds
    BY <1>2, <2>6, <2>7 DEF Worlds
  <2>9. world'.nodes[c.id] = row /\ \A n \in Nodes : n # c.id => world'.nodes[n] = world.nodes[n]
    BY <1>2, <2>1, <2>6
  <2>10. /\ open' = [open EXCEPT !.nodes = Append(@, c)]
    BY <1>4 DEF Made
  <2>11. /\ open'.nodes = Append(open.nodes, c) /\ open'.ways = open.ways
         /\ open' = [nodes |-> open'.nodes, ways |-> open'.ways]
         /\ open'.nodes \in Seq(NodeChanges)
    <3>1. PICK grown : grown = Append(open.nodes, c)
      OBVIOUS
    <3>2. grown \in Seq(NodeChanges)
      BY <1>2, <2>1, <3>1, AppendProperties
    <3>3. open' = [open EXCEPT !.nodes = grown]
      BY <2>10, <3>1
    <3> QED BY <1>2, <3>1, <3>2, <3>3
  <2>12. Thing(c) = world.nodes[c.id] /\ Thing(c)' = row
    BY <1>4, <2>9 DEF Thing
  <2>13. ASSUME NEW d \in Changes, Same(d, c)
         PROVE  Thing(d)' = Thing(c)' /\ Thing(d) = Thing(c)
    BY <2>13 DEF Same, Thing
  <2>14. ASSUME NEW d \in Changes, ~Same(d, c)
         PROVE  Thing(d)' = Thing(d)
    <3>1. d.kind = "node" => d.id \in Nodes
      BY DEF Changes, NodeChanges, WayChanges
    <3> QED BY <1>4, <2>6, <2>9, <2>14, <3>1 DEF Same, Thing
  <2>15. FeedShape'
    <3>1. \A n \in Nodes : world'.nodes[n].there => world'.nodes[n].version > 0
      BY <1>3, <2>4, <2>9 DEF FeedShape
    <3>2. \A w \in Ways : world'.ways[w].there => world'.ways[w].version > 0
      BY <2>6 DEF FeedShape
    <3>3. feed' \in Seq(Seq(Changes))
      BY <1>1 DEF FeedShape
    <3>4. open' \in [nodes : Seq(NodeChanges), ways : Seq(WayChanges)]
      BY <1>2, <2>11
    <3> QED BY <2>8, <3>1, <3>2, <3>3, <3>4 DEF FeedShape
  <2>16. ToSet(open'.nodes) \cup ToSet(open'.ways)
           = (ToSet(open.nodes) \cup ToSet(open.ways)) \cup {c}
    <3>1. ToSet(Append(open.nodes, c)) = ToSet(open.nodes) \cup {c}
      BY <1>2, <2>1, ToSetAppend
    <3> QED BY <2>11, <3>1
  <2>17. Matches(c)'
    BY <1>4, <2>4, <2>12 DEF Matches
  <2>18. Thing(c).version \in Nat
    BY <1>2, <2>1, <2>12
  <2>19. Places' = Places
    BY <1>1 DEF Places
  <2>20. ASSUME NEW i \in Places
         PROVE  In(i)' = IF i = Len(feed) + 1 THEN In(i) \cup {c} ELSE In(i)
    <3>1. CASE i \in DOMAIN feed
      BY <1>1, <3>1, PlaceFacts DEF In
    <3>2. CASE i \notin DOMAIN feed
      <4>1. i = Len(feed) + 1
        BY <3>2, PlaceFacts DEF Places, FeedShape
      <4> QED BY <1>1, <2>16, <3>2, <4>1 DEF In
    <3> QED BY <3>1, <3>2
  <2>21. Log' = Log \cup {c}
    BY <2>19, <2>20, PlaceFacts DEF Log
  <2> QED
    BY <1>1, <1>3, <1>4, <2>4, <2>11, <2>12, <2>13, <2>14, <2>15, <2>17, <2>18, <2>19, <2>20,
       <2>21
<1>5. CASE c.kind = "way"
  <2>1. /\ c \in WayChanges /\ c.id \in Ways /\ (c.action # "remove" => c.refs \in Refs)
    BY <1>1, <1>5 DEF Changes, NodeChanges, WayChanges
  <2>2. PICK row : row = [ version |-> c.version, there |-> c.action # "remove",
                           refs |-> IF c.action = "remove" THEN world.ways[c.id].refs ELSE c.refs ]
    OBVIOUS
  <2>3. row \in [version : Nat, there : BOOLEAN, refs : Refs]
    <3>1. world.ways[c.id].refs \in Refs
      BY <1>2, <2>1
    <3> QED BY <1>3, <2>1, <2>2, <3>1
  <2>4. /\ row.version = c.version /\ (row.there <=> c.action # "remove")
        /\ c.action # "remove" => row.refs = c.refs
        /\ c.action = "remove" => row.refs = world.ways[c.id].refs
    BY <2>2
  <2>5. world' = [world EXCEPT !.ways[c.id] = row]
    <3>1. world' = [world EXCEPT !.ways[c.id] =
                      [ version |-> c.version, there |-> c.action # "remove",
                        refs |-> IF c.action = "remove" THEN @.refs ELSE c.refs ]]
      BY <1>5 DEF Made
    <3> QED BY <2>2, <3>1
  <2>6. /\ world'.ways = [world.ways EXCEPT ![c.id] = row] /\ world'.nodes = world.nodes
        /\ world' = [nodes |-> world'.nodes, ways |-> world'.ways]
    BY <1>2, <2>5
  <2>7. world'.ways \in [Ways -> [version : Nat, there : BOOLEAN, refs : Refs]]
    BY <1>2, <2>3, <2>6
  <2>8. world' \in Worlds
    BY <1>2, <2>6, <2>7 DEF Worlds
  <2>9. world'.ways[c.id] = row /\ \A n \in Ways : n # c.id => world'.ways[n] = world.ways[n]
    BY <1>2, <2>1, <2>6
  <2>10. /\ open' = [open EXCEPT !.ways = Append(@, c)]
         /\ c.action = "remove" =>
              world.ways[c.id].there /\ c.refs \in {<<>>, world.ways[c.id].refs}
    BY <1>5 DEF Made
  <2>11. /\ open'.ways = Append(open.ways, c) /\ open'.nodes = open.nodes
         /\ open' = [nodes |-> open'.nodes, ways |-> open'.ways]
         /\ open'.ways \in Seq(WayChanges)
    <3>1. PICK grown : grown = Append(open.ways, c)
      OBVIOUS
    <3>2. grown \in Seq(WayChanges)
      BY <1>2, <2>1, <3>1, AppendProperties
    <3>3. open' = [open EXCEPT !.ways = grown]
      BY <2>10, <3>1
    <3> QED BY <1>2, <3>1, <3>2, <3>3
  <2>12. Thing(c) = world.ways[c.id] /\ Thing(c)' = row
    BY <1>5, <2>9 DEF Thing
  <2>13. ASSUME NEW d \in Changes, Same(d, c)
         PROVE  Thing(d)' = Thing(c)' /\ Thing(d) = Thing(c)
    BY <2>13 DEF Same, Thing
  <2>14. ASSUME NEW d \in Changes, ~Same(d, c)
         PROVE  Thing(d)' = Thing(d)
    <3>1. d.kind # "node" => d.kind = "way" /\ d.id \in Ways
      BY DEF Changes, NodeChanges, WayChanges
    <3> QED BY <1>5, <2>6, <2>9, <2>14, <3>1 DEF Same, Thing
  <2>15. FeedShape'
    <3>1. \A n \in Ways : world'.ways[n].there => world'.ways[n].version > 0
      BY <1>3, <2>4, <2>9 DEF FeedShape
    <3>2. \A n \in Nodes : world'.nodes[n].there => world'.nodes[n].version > 0
      BY <2>6 DEF FeedShape
    <3>3. feed' \in Seq(Seq(Changes))
      BY <1>1 DEF FeedShape
    <3>4. open' \in [nodes : Seq(NodeChanges), ways : Seq(WayChanges)]
      BY <1>2, <2>11
    <3> QED BY <2>8, <3>1, <3>2, <3>3, <3>4 DEF FeedShape
  <2>16. ToSet(open'.nodes) \cup ToSet(open'.ways)
           = (ToSet(open.nodes) \cup ToSet(open.ways)) \cup {c}
    <3>1. ToSet(Append(open.ways, c)) = ToSet(open.ways) \cup {c}
      BY <1>2, <2>1, ToSetAppend
    <3> QED BY <2>11, <3>1
  <2>17. Matches(c)'
    BY <1>5, <2>4, <2>10, <2>12 DEF Matches
  <2>18. Thing(c).version \in Nat
    BY <1>2, <2>1, <2>12
  <2>19. Places' = Places
    BY <1>1 DEF Places
  <2>20. ASSUME NEW i \in Places
         PROVE  In(i)' = IF i = Len(feed) + 1 THEN In(i) \cup {c} ELSE In(i)
    <3>1. CASE i \in DOMAIN feed
      BY <1>1, <3>1, PlaceFacts DEF In
    <3>2. CASE i \notin DOMAIN feed
      <4>1. i = Len(feed) + 1
        BY <3>2, PlaceFacts DEF Places, FeedShape
      <4> QED BY <1>1, <2>16, <3>2, <4>1 DEF In
    <3> QED BY <3>1, <3>2
  <2>21. Log' = Log \cup {c}
    BY <2>19, <2>20, PlaceFacts DEF Log
  <2> QED
    BY <1>1, <1>3, <1>5, <2>4, <2>10, <2>11, <2>12, <2>13, <2>14, <2>15, <2>17, <2>18, <2>19,
       <2>20, <2>21
<1> QED
  BY <1>1, <1>4, <1>5, PlaceFacts

LEMMA ChangeTypes ==
  /\ \A c \in Changes : c.version \in Nat /\ c.version > 0 /\ c.kind \in {"node", "way"}
  /\ \A c \in Changes : c.action \in {"create", "modify", "remove"}
  /\ \A c \in Changes : c.kind = "node" => c \in NodeChanges /\ c.id \in Nodes
  /\ \A c \in Changes : c.kind = "way" => c \in WayChanges /\ c.id \in Ways
  /\ \A c \in NodeChanges : c.kind = "node" /\ c.id \in Nodes /\ c \in Changes
  /\ \A c \in WayChanges : c.kind = "way" /\ c.id \in Ways /\ c.refs \in Seq(Nodes) /\ c \in Changes
  /\ \A c \in Changes : c.kind = "node" /\ c.action # "remove" => c.loc \in Locs
  /\ \A c \in Changes : Writes(c) => c.refs \in Refs
BY DEF Changes, NodeChanges, WayChanges, Writes

LEMMA RisingAppend ==
  ASSUME NEW S, NEW seq \in Seq(S), NEW elt \in S, Rising(seq),
         \A x \in ToSet(seq) : Same(x, elt) => x.version < elt.version
  PROVE  Rising(Append(seq, elt))
<1> DEFINE new == Append(seq, elt)
<1>1. /\ Len(seq) \in Nat /\ DOMAIN seq = 1 .. Len(seq) /\ DOMAIN new = 1 .. Len(seq) + 1
      /\ \A i \in 1 .. Len(seq) : new[i] = seq[i]
      /\ new[Len(seq) + 1] = elt
  BY AppendProperties
<1> HIDE DEF new
<1>2. ASSUME NEW p \in DOMAIN new, NEW q \in DOMAIN new, p < q, Same(new[p], new[q])
      PROVE  new[p].version < new[q].version
  <2>1. p \in 1 .. Len(seq) /\ new[p] = seq[p] /\ seq[p] \in ToSet(seq)
    BY <1>1, <1>2 DEF ToSet
  <2>2. CASE q = Len(seq) + 1
    BY <1>1, <1>2, <2>1, <2>2
  <2>3. CASE q # Len(seq) + 1
    <3>1. q \in 1 .. Len(seq)
      BY <1>1, <2>3
    <3> QED BY <1>1, <1>2, <2>1, <3>1 DEF Rising
  <2> QED BY <2>2, <2>3
<1> QED BY <1>2 DEF Rising, new

\* The edits of a file rise when those of its nodes and those of its ways do.
LEMMA RisingFile ==
  ASSUME NEW s \in Seq(NodeChanges), NEW t \in Seq(WayChanges), Rising(s), Rising(t)
  PROVE  Rising(s \o t)
<1> DEFINE new == s \o t
<1>1. /\ Len(s) \in Nat /\ DOMAIN s = 1 .. Len(s) /\ Len(t) \in Nat /\ DOMAIN t = 1 .. Len(t)
      /\ DOMAIN new = 1 .. Len(s) + Len(t)
      /\ \A i \in 1 .. Len(s) : new[i] = s[i] /\ s[i] \in NodeChanges
      /\ \A i \in 1 .. Len(t) : new[Len(s) + i] = t[i] /\ t[i] \in WayChanges
  OBVIOUS
<1> HIDE DEF new
<1>2. ASSUME NEW p \in DOMAIN new, NEW q \in DOMAIN new, p < q, Same(new[p], new[q])
      PROVE  new[p].version < new[q].version
  <2>1. CASE p <= Len(s) /\ q <= Len(s)
    <3>1. p \in 1 .. Len(s) /\ q \in 1 .. Len(s)
      BY <1>1, <2>1
    <3> QED BY <1>1, <1>2, <3>1 DEF Rising
  <2>2. CASE p <= Len(s) /\ ~(q <= Len(s))
    <3>1. p \in 1 .. Len(s) /\ q - Len(s) \in 1 .. Len(t) /\ Len(s) + (q - Len(s)) = q
      BY <1>1, <2>2
    <3>2. new[p] \in NodeChanges /\ new[q] \in WayChanges
      BY <1>1, <3>1
    <3> QED BY <1>2, <3>2, ChangeTypes DEF Same
  <2>3. CASE ~(p <= Len(s))
    <3> DEFINE x == p - Len(s)
               y == q - Len(s)
    <3>1. x \in 1 .. Len(t) /\ y \in 1 .. Len(t) /\ x < y /\ Len(s) + x = p /\ Len(s) + y = q
      <4>1. PICK m \in Nat : m = Len(s)
        BY <1>1
      <4>2. p \in 1 .. m + Len(t) /\ q \in 1 .. m + Len(t) /\ ~(p <= m)
        BY <1>1, <2>3, <4>1
      <4>3. p - m \in 1 .. Len(t) /\ q - m \in 1 .. Len(t) /\ p - m < q - m
            /\ m + (p - m) = p /\ m + (q - m) = q
        <5>1. Len(t) \in Nat /\ p < q
          BY <1>1, <1>2
        <5> QED BY ONLY <4>2, <5>1, m \in Nat
      <4> QED BY <4>1, <4>3
    <3> HIDE DEF x, y
    <3>2. new[p] = t[x] /\ new[q] = t[y]
      BY <1>1, <3>1
    <3> QED BY <1>1, <1>2, <3>1, <3>2 DEF Rising
  <2> QED BY <2>1, <2>2, <2>3
<1> QED BY <1>2 DEF Rising, new

LEMMA MadeFeed ==
  ASSUME FeedInv, NEW c, Made(c)
  PROVE  FeedInv'
<1> USE DEF FeedInv
<1>1. /\ Places' = Places /\ feed' = feed
      /\ \A i \in Places : In(i)' = IF i = Len(feed) + 1 THEN In(i) \cup {c} ELSE In(i)
      /\ Log' = Log \cup {c}
      /\ c \in Changes /\ c.version = Thing(c).version + 1 /\ Thing(c).version \in Nat
      /\ FeedShape'
  BY MadeFacts
<1>2. \A d \in Log : d \in Changes /\ d.version \in Nat /\ d.version <= Thing(d).version
  BY PlaceFacts, ChangeTypes DEF FeedTells
<1>3. \A d \in Log : Same(d, c) => d.version < c.version
  <2>1. \A d \in Changes : Same(d, c) => Thing(d) = Thing(c)
    BY MadeFacts
  <2> QED BY <1>1, <1>2, <2>1
<1>4. FeedRises'
  <2>1. ASSUME NEW i \in Places, NEW j \in Places, i < j,
               NEW x \in In(i)', NEW d \in In(j)', Same(x, d)
        PROVE  x.version < d.version
    <3>1. i # Len(feed) + 1 /\ x \in In(i)
      BY <1>1, <2>1, PlaceFacts
    <3>2. x \in Log
      BY <3>1 DEF Log
    <3>3. d \in In(j) \/ d = c
      BY <1>1
    <3> QED BY <1>3, <2>1, <3>1, <3>2, <3>3 DEF FeedRises
  <2>2. open.nodes \in Seq(NodeChanges) /\ open.ways \in Seq(WayChanges)
    BY DEF FeedShape
  <2>3. ToSet(open.nodes) \subseteq Log /\ ToSet(open.ways) \subseteq Log
    <3>1. Len(feed) + 1 \in Places /\ Len(feed) + 1 \notin DOMAIN feed
      BY PlaceFacts DEF FeedShape
    <3>2. In(Len(feed) + 1) = ToSet(open.nodes) \cup ToSet(open.ways)
      BY <3>1 DEF In
    <3> QED BY <3>1, <3>2 DEF Log
  <2>4. /\ open'.nodes = IF c.kind = "node" THEN Append(open.nodes, c) ELSE open.nodes
        /\ open'.ways = IF c.kind = "way" THEN Append(open.ways, c) ELSE open.ways
    BY MadeFacts
  <2>5. Rising(open'.nodes)
    <3>1. CASE c.kind = "node"
      <4>1. c \in NodeChanges
        BY <1>1, <3>1, ChangeTypes
      <4>2. Rising(Append(open.nodes, c))
        BY <1>3, <2>2, <2>3, <4>1, RisingAppend DEF FeedRises
      <4> QED BY <2>4, <3>1, <4>2
    <3>2. CASE c.kind # "node"
      BY <2>4, <3>2 DEF FeedRises
    <3> QED BY <3>1, <3>2
  <2>6. Rising(open'.ways)
    <3>1. CASE c.kind = "way"
      <4>1. c \in WayChanges
        BY <1>1, <3>1, ChangeTypes
      <4>2. Rising(Append(open.ways, c))
        BY <1>3, <2>2, <2>3, <4>1, RisingAppend DEF FeedRises
      <4> QED BY <2>4, <3>1, <4>2
    <3>2. CASE c.kind # "way"
      BY <2>4, <3>2 DEF FeedRises
    <3> QED BY <3>1, <3>2
  <2>7. \A i \in DOMAIN feed' : Rising(feed'[i])
    BY <1>1 DEF FeedRises
  <2> QED BY <1>1, <2>1, <2>5, <2>6, <2>7 DEF FeedRises
<1>5. ASSUME NEW d \in Log'
      PROVE  /\ d.version <= Thing(d)'.version
             /\ d.version = Thing(d)'.version => Matches(d)'
             /\ Newest(d)' /\ WroteLast(d)'
  <2>1. CASE d = c
    <3>1. Thing(c)'.version = c.version /\ Matches(c)' /\ c.version \in Nat
      BY MadeFacts
    <3>2. Newest(c)'
      BY <1>1, <3>1 DEF Newest, Same
    <3>3. WroteLast(c)'
      BY <3>1 DEF WroteLast
    <3> QED BY <2>1, <3>1, <3>2, <3>3
  <2>2. CASE d # c /\ Same(d, c)
    <3>1. d \in Log /\ d \in Changes /\ d.version \in Nat /\ d.version < c.version
      BY <1>1, <1>2, <1>3, <2>2
    <3>2. /\ Thing(d)' = Thing(c)' /\ Thing(d) = Thing(c) /\ Thing(c)'.version = c.version
          /\ Thing(c)'.there <=> c.action # "remove"
          /\ c.kind = "way" /\ c.action = "remove" =>
               Thing(c)'.refs = Thing(c).refs /\ Thing(c).there
      BY <2>2, <3>1, MadeFacts
    <3>3. Newest(d) /\ WroteLast(d) /\ (d.version = Thing(d).version => Matches(d))
      BY <3>1 DEF FeedTells
    <3>4. Newest(d)'
      <4>1. \E x \in Log' : Same(d, x) /\ x.version = Thing(d)'.version
        BY <1>1, <2>2, <3>2
      <4>2. \E x \in Log' : Same(d, x) /\ x.version + 1 = Thing(d)'.version
        <5>1. PICK x \in Log : Same(d, x) /\ x.version = Thing(d).version
          BY <3>3 DEF Newest
        <5> QED BY <1>1, <3>2, <5>1
      <4> QED BY <4>1, <4>2 DEF Newest
    <3>5. WroteLast(d)'
      <4> SUFFICES ASSUME d.kind = "way", d.version + 1 = Thing(d)'.version, ~Thing(d)'.there
                   PROVE  d.action # "remove" /\ d.refs = Thing(d)'.refs
        BY DEF WroteLast
      <4>1. d.version = Thing(d).version
        BY <1>1, <3>1, <3>2
      <4>2. c.action = "remove" /\ c.kind = "way"
        BY <2>2, <3>2 DEF Same
      <4> QED BY <3>2, <3>3, <4>1, <4>2 DEF Matches
    <3> QED BY <1>1, <3>1, <3>2, <3>4, <3>5
  <2>3. CASE ~Same(d, c)
    <3>1. d \in Log /\ d \in Changes
      BY <1>1, <1>2, <2>3 DEF Same
    <3>2. Thing(d)' = Thing(d)
      BY <2>3, <3>1, MadeFacts
    <3>3. /\ d.version <= Thing(d).version /\ Newest(d) /\ WroteLast(d)
          /\ d.version = Thing(d).version => Matches(d)
      BY <3>1 DEF FeedTells
    <3>4. Newest(d)'
      BY <1>1, <3>2, <3>3 DEF Newest
    <3>5. WroteLast(d)'
      BY <3>2, <3>3 DEF WroteLast
    <3>6. Matches(d) => Matches(d)'
      BY <3>2 DEF Matches
    <3> QED BY <3>2, <3>3, <3>4, <3>5, <3>6
  <2> QED BY <2>1, <2>2, <2>3
<1>6. FeedTells'
  BY <1>5 DEF FeedTells
<1> QED BY <1>1, <1>4, <1>6

\* A published file has the place it had while it was being made.
LEMMA PublishFacts ==
  ASSUME FeedShape, Publish
  PROVE  /\ Len(feed') = Len(feed) + 1 /\ world' = world
         /\ Places' = Places \cup {Len(feed) + 2}
         /\ \A i \in Places : In(i)' = In(i)
         /\ \A i \in Nat : i = Len(feed) + 2 => In(i)' = {}
         /\ Log' = Log
         /\ \A i \in DOMAIN feed : i \in DOMAIN feed' /\ feed'[i] = feed[i]
         /\ DOMAIN feed' = DOMAIN feed \cup {Len(feed) + 1}
         /\ feed'[Len(feed) + 1] = open.nodes \o open.ways
         /\ open' = [nodes |-> <<>>, ways |-> <<>>]
         /\ FeedShape'
<1>1. open.nodes \in Seq(NodeChanges) /\ open.ways \in Seq(WayChanges) /\ Len(feed) \in Nat
  BY DEF FeedShape
<1>2. open.nodes \in Seq(Changes) /\ open.ways \in Seq(Changes)
  BY <1>1 DEF Changes
<1>3. PICK file : file = open.nodes \o open.ways
  OBVIOUS
<1>4. file \in Seq(Changes) /\ ToSet(file) = ToSet(open.nodes) \cup ToSet(open.ways)
  BY <1>2, <1>3, ToSetConcat
<1>5. feed' = Append(feed, file) /\ open' = [nodes |-> <<>>, ways |-> <<>>] /\ world' = world
  BY <1>3 DEF Publish
<1>6. /\ feed' \in Seq(Seq(Changes)) /\ Len(feed') = Len(feed) + 1
      /\ \A i \in 1 .. Len(feed) : feed'[i] = feed[i]
      /\ feed'[Len(feed) + 1] = file
  BY <1>4, <1>5, AppendProperties DEF FeedShape
<1>7. DOMAIN feed = 1 .. Len(feed) /\ DOMAIN feed' = 1 .. Len(feed) + 1
  BY <1>6 DEF FeedShape
<1>8. FeedShape'
  <2>1. open' \in [nodes : Seq(NodeChanges), ways : Seq(WayChanges)]
    BY <1>5
  <2> QED BY <1>5, <1>6, <2>1 DEF FeedShape
<1>9. Places' = Places \cup {Len(feed) + 2}
  BY <1>1, <1>6 DEF Places
<1>10. \A i \in Places : In(i)' = In(i)
  <2>1. ASSUME NEW i \in Places PROVE In(i)' = In(i)
    <3>1. CASE i \in DOMAIN feed
      BY <1>6, <1>7, <3>1 DEF In
    <3>2. CASE i \notin DOMAIN feed
      <4>1. i = Len(feed) + 1 /\ i \in DOMAIN feed'
        BY <1>1, <1>7, <3>2 DEF Places
      <4> QED BY <1>4, <1>6, <3>2, <4>1 DEF In
    <3> QED BY <3>1, <3>2
  <2> QED BY <2>1
<1>11. ASSUME NEW i \in Nat, i = Len(feed) + 2 PROVE In(i)' = {}
  <2>1. i \notin DOMAIN feed'
    BY <1>1, <1>7, <1>11
  <2>2. ToSet(open'.nodes) = {} /\ ToSet(open'.ways) = {}
    BY <1>5 DEF ToSet
  <2> QED BY <2>1, <2>2 DEF In
<1>12. Log' = Log
  <2>1. Len(feed) + 2 \in Nat
    BY <1>1
  <2>2. ASSUME NEW c PROVE c \in Log' <=> c \in Log
    BY <1>9, <1>10, <1>11, <2>1 DEF Log
  <2> QED BY <2>2
<1> QED
  BY <1>3, <1>5, <1>6, <1>7, <1>8, <1>9, <1>10, <1>11, <1>12

LEMMA PublishFeed ==
  ASSUME FeedInv, Publish
  PROVE  FeedInv'
<1> USE DEF FeedInv
<1>1. /\ Len(feed') = Len(feed) + 1 /\ world' = world
      /\ Places' = Places \cup {Len(feed) + 2}
      /\ \A i \in Places : In(i)' = In(i)
      /\ \A i \in Nat : i = Len(feed) + 2 => In(i)' = {}
      /\ Log' = Log
      /\ \A i \in DOMAIN feed : i \in DOMAIN feed' /\ feed'[i] = feed[i]
      /\ DOMAIN feed' = DOMAIN feed \cup {Len(feed) + 1}
      /\ feed'[Len(feed) + 1] = open.nodes \o open.ways
      /\ open' = [nodes |-> <<>>, ways |-> <<>>]
      /\ FeedShape'
  BY PublishFacts
<1>2. open.nodes \in Seq(NodeChanges) /\ open.ways \in Seq(WayChanges) /\ Len(feed) \in Nat
  BY DEF FeedShape
<1>3. FeedRises'
  <2>1. ASSUME NEW i \in Places', NEW j \in Places', i < j, NEW c \in In(i)', NEW d \in In(j)',
               Same(c, d)
        PROVE  c.version < d.version
    <3>1. i \in Places /\ j \in Places
      <4>1. j # Len(feed) + 2 /\ i # Len(feed) + 2
        BY <1>1, <1>2, <2>1
      <4> QED BY <1>1, <4>1
    <3> QED BY <1>1, <2>1, <3>1 DEF FeedRises
  <2>2. ASSUME NEW i \in DOMAIN feed' PROVE Rising(feed'[i])
    <3>1. Rising(open.nodes \o open.ways)
      BY <1>2, RisingFile DEF FeedRises
    <3> QED BY <1>1, <2>2, <3>1 DEF FeedRises
  <2>3. Rising(open'.nodes) /\ Rising(open'.ways)
    BY <1>1 DEF Rising
  <2> QED BY <2>1, <2>2, <2>3 DEF FeedRises
<1>4. FeedTells'
  BY <1>1 DEF FeedTells, Newest, WroteLast, Matches, Thing
<1> QED BY <1>1, <1>3, <1>4

LEMMA InitFeed ==
  ASSUME Init
  PROVE  FeedInv /\ Log = {}
<1>1. PICK loc \in Locs, made \in BOOLEAN, mapped \in BOOLEAN, r \in Refs :
        world = [ nodes |-> [n \in Nodes |-> FirstNode(made, loc)],
                  ways |-> [w \in Ways |-> FirstWay(mapped, r)] ]
  BY DEF Init
<1>2. open = [nodes |-> <<>>, ways |-> <<>>] /\ feed = <<>>
  BY DEF Init
<1>3. FirstNode(made, loc) \in [version : Nat, there : BOOLEAN, loc : Locs]
      /\ FirstNode(made, loc).there = made
      /\ FirstNode(made, loc).version = IF made THEN 1 ELSE 0
  BY DEF FirstNode
<1>4. FirstWay(mapped, r) \in [version : Nat, there : BOOLEAN, refs : Refs]
      /\ FirstWay(mapped, r).there = mapped
      /\ FirstWay(mapped, r).version = IF mapped THEN 1 ELSE 0
  BY DEF FirstWay
<1>5. FeedShape
  <2>1. world \in Worlds
    BY <1>1, <1>3, <1>4 DEF Worlds
  <2>2. \A n \in Nodes : world.nodes[n].there => world.nodes[n].version > 0
    BY <1>1, <1>3
  <2>3. \A w \in Ways : world.ways[w].there => world.ways[w].version > 0
    BY <1>1, <1>4
  <2> QED BY <1>2, <2>1, <2>2, <2>3 DEF FeedShape
<1>6. Places = {1} /\ In(1) = {}
  BY <1>2 DEF Places, In, ToSet
<1>7. Log = {}
  BY <1>6 DEF Log
<1>8. FeedRises
  BY <1>2, <1>6 DEF FeedRises, Rising
<1> QED BY <1>5, <1>7, <1>8 DEF FeedInv, FeedTells

\* The steps of the program.
Works == (\E k \in 1 .. FilesAtOnce : BeginRound(k)) \/ Exec \/ Commit \/ Restart

LEMMA StepCases ==
  ASSUME [Next]_vars
  PROVE  Edit \/ Publish \/ Works \/ UNCHANGED vars
BY DEF Next, Edit, Works

LEMMA WorkFacts ==
  ASSUME Works \/ UNCHANGED vars
  PROVE  UNCHANGED <<world, open, feed>>
BY DEF Works, BeginRound, Exec, Commit, Restart, vars

LEMMA SameFeed ==
  ASSUME UNCHANGED <<world, open, feed>>
  PROVE  /\ Places' = Places /\ Log' = Log
         /\ \A i : In(i)' = In(i)
         /\ \A c : Thing(c)' = Thing(c)
         /\ FeedInv => FeedInv'
<1>1. Places' = Places /\ Log' = Log /\ (\A i : In(i)' = In(i)) /\ \A c : Thing(c)' = Thing(c)
  BY DEF Places, Log, In, Thing
<1>2. FeedShape => FeedShape'
  BY DEF FeedShape
<1>3. FeedRises => FeedRises'
  BY <1>1 DEF FeedRises
<1>4. FeedTells => FeedTells'
  BY <1>1 DEF FeedTells, Newest, WroteLast, Matches
<1> QED BY <1>1, <1>2, <1>3, <1>4 DEF FeedInv

LEMMA StepFeed == FeedInv /\ [Next]_vars => FeedInv'
<1> SUFFICES ASSUME FeedInv, [Next]_vars PROVE FeedInv'
  OBVIOUS
<1>1. CASE Edit
  BY <1>1, EditMade, MadeFeed DEF FeedInv
<1>2. CASE Publish
  BY <1>2, PublishFeed
<1>3. CASE Works \/ UNCHANGED vars
  BY <1>3, WorkFacts, SameFeed
<1> QED BY <1>1, <1>2, <1>3, StepCases

-----------------------------------------------------------------------------
(* What the workers make of the files.                                     *)

TablesTyped(db) ==
  /\ db \in Databases
  /\ \A n \in Nodes : db.nodes[n].version > 0 => db.nodes[n].loc \in Locs
  /\ \A table \in Tables, w \in Ways :
       db.ways[table][w].version > 0 => TableOf(db.ways[table][w].refs) = table

\* The changes of geometry that a moved node leads to.
Moves ==
  [kind : {"way"}, id : Ways, action : {"modify_geom"}, version : Nat, refs : Seq(Nodes)]

StatementSet == [c : Changes \cup Moves, geom : Seq(Locs)]

Plain(c) == c.action # "modify_geom"

\* Versions of a node or a way rise along a batch; changes of geometry have none of
\* their own.
RisingBatch(b) ==
  \A p, q \in DOMAIN b :
    p < q /\ Same(b[p].c, b[q].c) /\ Plain(b[p].c) /\ Plain(b[q].c) =>
      b[p].c.version < b[q].c.version

LEMMA SetToSeqFacts ==
  ASSUME NEW S, IsFiniteSet(S)
  PROVE  SetToSeq(S) \in Seq(S) /\ ToSet(SetToSeq(S)) \subseteq S
<1>1. Cardinality(S) \in Nat /\ ExistsBijection(1 .. Cardinality(S), S)
  BY FS_CardinalityType
<1>2. \E f \in [1 .. Cardinality(S) -> S] : IsInjective(f)
  <2>1. PICK f : f \in Bijection(1 .. Cardinality(S), S)
    BY <1>1 DEF ExistsBijection
  <2>2. f \in [1 .. Cardinality(S) -> S]
    BY <2>1 DEF Bijection, Injection
  <2>3. IsInjective(f)
    BY <2>1 DEF Bijection, Injection, IsInjective
  <2> QED BY <2>2, <2>3
<1>3. SetToSeq(S) \in [1 .. Cardinality(S) -> S]
  BY <1>2 DEF SetToSeq
<1>4. SetToSeq(S) \in Seq(S)
  BY <1>1, <1>3, SeqDef
<1> QED BY <1>3, <1>4 DEF ToSet

LEMMA TablesFinite == IsFiniteSet(Tables)
<1>1. Tables = {"ways_poly"} \cup {"ways_line"}
  BY DEF Tables
<1> QED BY <1>1, FS_Singleton, FS_AddElement

\* The ways that moved nodes move, with the references their rows have.
LEMMA FoundFacts ==
  ASSUME NEW db, TablesTyped(db), NEW nodes
  PROVE  /\ IsFiniteSet(WaysByNodesRefs(db, nodes))
         /\ \A c \in WaysByNodesRefs(db, nodes) :
              /\ c \in Moves
              /\ \E table \in Tables :
                   /\ c.version = db.ways[table][c.id].version /\ c.version > 0
                   /\ c.refs = db.ways[table][c.id].refs
<1> DEFINE found(table) == {w \in Ways : /\ db.ways[table][w].version > 0
                                         /\ nodes \subseteq ToSet(db.ways[table][w].refs)}
           change(table, w) == WayChange(w, "modify_geom", db.ways[table][w].version,
                                         db.ways[table][w].refs)
           All == UNION {{change(table, w) : w \in found(table)} : table \in Tables}
           f == [x \in Tables \X Ways |-> change(x[1], x[2])]
           T == {f[x] : x \in Tables \X Ways}
<1>1. WaysByNodesRefs(db, nodes) \subseteq All
  BY DEF WaysByNodesRefs
<1>2. IsFiniteSet(T)
  <2>1. IsFiniteSet(Tables \X Ways)
    BY TablesFinite, EntitiesAssumption, FS_Product
  <2>2. f \in Surjection(Tables \X Ways, T)
    BY DEF Surjection
  <2> QED BY <2>1, <2>2, FS_Surjection
<1>3. All \subseteq T
  <2>1. ASSUME NEW table \in Tables, NEW w \in Ways PROVE change(table, w) \in T
    <3>1. <<table, w>> \in Tables \X Ways /\ f[<<table, w>>] = change(table, w)
      OBVIOUS
    <3> QED BY <3>1
  <2> QED BY <2>1
<1>4. IsFiniteSet(WaysByNodesRefs(db, nodes))
  BY <1>1, <1>2, <1>3, FS_Subset
<1>5. ASSUME NEW table \in Tables, NEW w \in found(table)
      PROVE  LET c == change(table, w)
             IN  /\ c \in Moves /\ c.id = w
                 /\ c.version = db.ways[table][w].version /\ c.version > 0
                 /\ c.refs = db.ways[table][w].refs
  <2>1. db.ways[table][w] \in WayRows
    BY DEF TablesTyped, Databases
  <2>2. db.ways[table][w].version \in Nat /\ db.ways[table][w].refs \in Seq(Nodes)
    BY <2>1 DEF WayRows
  <2> QED BY <2>2 DEF WayChange, Moves
<1>6. \A c \in All : /\ c \in Moves
                     /\ \E table \in Tables :
                          /\ c.version = db.ways[table][c.id].version /\ c.version > 0
                          /\ c.refs = db.ways[table][c.id].refs
  BY <1>5
<1> HIDE DEF All
<1> QED BY <1>1, <1>4, <1>6

LEMMA ToSetFinite ==
  ASSUME NEW S, NEW seq \in Seq(S)
  PROVE  IsFiniteSet(ToSet(seq)) /\ ToSet(seq) \subseteq S
<1>1. Len(seq) \in Nat /\ DOMAIN seq = 1 .. Len(seq)
  OBVIOUS
<1>2. seq \in Surjection(1 .. Len(seq), ToSet(seq))
  BY <1>1 DEF Surjection, ToSet
<1>3. IsFiniteSet(1 .. Len(seq))
  BY <1>1, FS_Interval
<1>4. ToSet(seq) \subseteq S
  BY <1>1 DEF ToSet
<1> QED BY <1>2, <1>3, <1>4, FS_Surjection

\* The cache of a file has a location of every node the file writes.
LEMMA CacheFacts ==
  ASSUME NEW file \in Seq(Changes)
  PROVE  /\ DOMAIN NodeCache(file) = {c.id : c \in Of(file, "node", {"create", "modify"})}
         /\ \A n \in DOMAIN NodeCache(file) : NodeCache(file)[n] \in Locs
<1> DEFINE given == Of(file, "node", {"create", "modify"})
           last(n) == CHOOSE c \in given :
                        c.id = n /\ \A d \in given : d.id = n => d.version <= c.version
<1>1. NodeCache(file) = [n \in {c.id : c \in given} |-> last(n).loc]
  BY DEF NodeCache
<1>2. IsFiniteSet(ToSet(file)) /\ ToSet(file) \subseteq Changes
  BY ToSetFinite
<1>3. given \subseteq ToSet(file) /\ \A c \in given : c.loc \in Locs /\ c.version \in Nat
  BY <1>2, ChangeTypes DEF Of
<1>4. ASSUME NEW n \in {c.id : c \in given}
      PROVE  last(n).loc \in Locs
  <2> DEFINE Mine == {c \in given : c.id = n}
             Versions == {c.version : c \in Mine}
             f == [c \in Mine |-> c.version]
  <2>1. IsFiniteSet(Mine)
    BY <1>2, <1>3, FS_Subset
  <2>2. f \in Surjection(Mine, Versions)
    BY DEF Surjection
  <2>3. IsFiniteSet(Versions) /\ Versions \subseteq Int /\ Versions # {}
    BY <1>3, <1>4, <2>1, <2>2, FS_Surjection
  <2> HIDE DEF Versions
  <2>4. PICK v \in Versions : \A y \in Versions : y <= v
    BY <2>3, GreatestOf
  <2>5. \E c \in given : c.id = n /\ \A d \in given : d.id = n => d.version <= c.version
    BY <2>4 DEF Versions
  <2>6. last(n) \in given
    BY <2>5
  <2> QED BY <1>3, <2>6
<1> HIDE DEF given, last
<1> QED BY <1>1, <1>4 DEF given

LEMMA IndirectFacts ==
  ASSUME NEW db, TablesTyped(db), NEW file
  PROVE  /\ Indirect(file, db) \in Seq(Moves)
         /\ \A c \in ToSet(Indirect(file, db)) :
              \E table \in Tables :
                /\ c.version = db.ways[table][c.id].version /\ c.version > 0
                /\ c.refs = db.ways[table][c.id].refs
         /\ (~\E c \in ToSet(file) : c.kind = "node" /\ c.action = "modify") =>
              Indirect(file, db) = <<>>
<1> DEFINE modified == {c.id : c \in Of(file, "node", {"modify"})}
           removed == {c.id : c \in Of(file, "way", {"remove"})}
           S == {c \in WaysByNodesRefs(db, modified) : c.id \notin removed}
<1>1. Indirect(file, db) = IF modified = {} THEN <<>> ELSE SetToSeq(S)
  BY DEF Indirect
<1>2. /\ IsFiniteSet(WaysByNodesRefs(db, modified))
      /\ \A c \in WaysByNodesRefs(db, modified) :
           /\ c \in Moves
           /\ \E table \in Tables :
                /\ c.version = db.ways[table][c.id].version /\ c.version > 0
                /\ c.refs = db.ways[table][c.id].refs
  <2> HIDE DEF modified
  <2> QED BY FoundFacts
<1>3. IsFiniteSet(S) /\ S \subseteq WaysByNodesRefs(db, modified)
  BY <1>2, FS_Subset
<1>4. (~\E c \in ToSet(file) : c.kind = "node" /\ c.action = "modify") => modified = {}
  BY DEF Of
<1> HIDE DEF S, modified
<1>5. SetToSeq(S) \in Seq(S) /\ ToSet(SetToSeq(S)) \subseteq S
  BY <1>3, SetToSeqFacts
<1>6. S \subseteq Moves
  BY <1>2, <1>3
<1>7. SetToSeq(S) \in Seq(Moves)
  BY <1>5, <1>6
<1>8. <<>> \in Seq(Moves) /\ ToSet(<<>>) = {}
  BY DEF ToSet
<1> QED
  <2>1. CASE modified = {}
    BY <1>1, <1>4, <1>8, <2>1
  <2>2. CASE modified # {}
    BY <1>1, <1>2, <1>3, <1>4, <1>5, <1>7, <2>2
  <2> QED BY <2>1, <2>2

\* Every node that is known has a location.
LEMMA KnownFacts ==
  ASSUME NEW db, TablesTyped(db), NEW file \in Seq(Changes)
  PROVE  /\ DOMAIN KnownNodes(file, db) = DOMAIN NodeCache(file) \cup Found(file, db)
         /\ \A n \in DOMAIN KnownNodes(file, db) : KnownNodes(file, db)[n] \in Locs
<1>1. KnownNodes(file, db) =
        [n \in DOMAIN NodeCache(file) \cup Found(file, db) |->
           IF n \in DOMAIN NodeCache(file) THEN NodeCache(file)[n] ELSE db.nodes[n].loc]
  BY DEF KnownNodes
<1>2. Referenced(file, db) \subseteq Nodes
  <2>1. \A c \in Of(file, "way", {"create", "modify"}) : c.refs \in Seq(Nodes)
    BY ToSetFinite, ChangeTypes DEF Of
  <2>2. \A c \in ToSet(Indirect(file, db)) : c.refs \in Seq(Nodes)
    <3>1. Indirect(file, db) \in Seq(Moves)
      BY IndirectFacts
    <3>2. ToSet(Indirect(file, db)) \subseteq Moves
      BY <3>1, ToSetFinite
    <3> QED BY <3>2 DEF Moves
  <2>3. \A s \in Seq(Nodes) : ToSet(s) \subseteq Nodes
    BY ToSetFinite
  <2> QED BY <2>1, <2>2, <2>3 DEF Referenced
<1>3. \A n \in Found(file, db) : db.nodes[n].loc \in Locs
  BY <1>2 DEF Found, TablesTyped
<1>4. PICK cache : cache = NodeCache(file)
  OBVIOUS
<1>5. \A n \in DOMAIN cache : cache[n] \in Locs
  BY <1>4, CacheFacts
<1>6. PICK known : known = KnownNodes(file, db)
  OBVIOUS
<1>7. known = [n \in DOMAIN cache \cup Found(file, db) |->
                 IF n \in DOMAIN cache THEN cache[n] ELSE db.nodes[n].loc]
  BY <1>1, <1>4, <1>6
<1>8. /\ DOMAIN known = DOMAIN cache \cup Found(file, db)
      /\ \A n \in DOMAIN known : known[n] \in Locs
  BY <1>3, <1>5, <1>7
<1> QED BY <1>4, <1>6, <1>8

\* What the first i changes have become.
Passed(all, known, gaveUp) ==
  CHOOSE sofar : sofar = [i \in 0 .. Len(all) |->
    IF i = 0 THEN <<>>
    ELSE IF IsWritten(all[i], known, gaveUp)
      THEN Append(sofar[i - 1], Statement(all[i], known))
      ELSE sofar[i - 1]]

LEMMA PassedTurn ==
  ASSUME NEW X, NEW all \in Seq(X), NEW known, NEW gaveUp
  PROVE  LET sofar == Passed(all, known, gaveUp)
         IN  /\ sofar[0] = <<>>
             /\ \A i \in 1 .. Len(all) :
                  sofar[i] = IF IsWritten(all[i], known, gaveUp)
                             THEN Append(sofar[i - 1], Statement(all[i], known))
                             ELSE sofar[i - 1]
<1> DEFINE N == Len(all)
           T == {Statement(all[j], known) : j \in 1 .. N}
           G == [p \in (1 .. N) \X Seq(T) |->
                   IF IsWritten(all[p[1]], known, gaveUp)
                   THEN Append(p[2], Statement(all[p[1]], known)) ELSE p[2]]
           Def(sofar) == [i \in 0 .. N |->
             IF i = 0 THEN <<>>
             ELSE IF IsWritten(all[i], known, gaveUp)
               THEN Append(sofar[i - 1], Statement(all[i], known))
               ELSE sofar[i - 1]]
<1>1. N \in Nat /\ <<>> \in Seq(T) /\ \A i \in 1 .. N : Statement(all[i], known) \in T
  OBVIOUS
<1> HIDE DEF T
<1>2. G \in [(1 .. N) \X Seq(T) -> Seq(T)]
  BY <1>1
<1>3. \A i \in 1 .. N, s \in Seq(T) :
        G[<<i, s>>] = IF IsWritten(all[i], known, gaveUp)
                      THEN Append(s, Statement(all[i], known)) ELSE s
  OBVIOUS
<1> HIDE DEF N, G
<1>4. PICK h \in [0 .. N -> Seq(T)] :
        h[0] = <<>> /\ \A i \in 1 .. N : h[i] = G[<<i, h[i - 1]>>]
  <2> DEFINE Y == Seq(T)
             base == <<>>
  <2>1. N \in Nat /\ base \in Y /\ G \in [(1 .. N) \X Y -> Y]
    BY <1>1, <1>2
  <2> HIDE DEF Y, base
  <2>2. HasRecursion(N, Y, base, G)
    BY <2>1, RecursiveFunction
  <2> QED BY <2>2 DEF Y, base, HasRecursion
<1>5. ASSUME NEW i \in 1 .. N
      PROVE  h[i] = IF IsWritten(all[i], known, gaveUp)
                    THEN Append(h[i - 1], Statement(all[i], known)) ELSE h[i - 1]
  <2>1. i - 1 \in 0 .. N
    BY <1>1
  <2>2. h[i - 1] \in Seq(T)
    BY <2>1
  <2> QED BY <1>3, <1>4, <2>2
<1>6. h = Def(h)
  <2> SUFFICES ASSUME NEW i \in 0 .. N
               PROVE  h[i] = IF i = 0 THEN <<>>
                             ELSE IF IsWritten(all[i], known, gaveUp)
                               THEN Append(h[i - 1], Statement(all[i], known)) ELSE h[i - 1]
    OBVIOUS
  <2>1. CASE i = 0
    BY <1>4, <2>1
  <2>2. CASE i # 0
    <3>1. i \in 1 .. N
      BY <1>1, <2>2
    <3> QED BY <1>5, <2>2, <3>1
  <2> QED BY <2>1, <2>2
<1>7. PICK K : K = Passed(all, known, gaveUp)
  OBVIOUS
<1>8. K = Def(K)
  BY <1>6, <1>7 DEF Passed, N
<1>9. K[0] = <<>>
  <2>1. 0 \in 0 .. N
    BY <1>1
  <2> QED BY <1>8, <2>1
<1>10. ASSUME NEW i \in 1 .. N
       PROVE  K[i] = IF IsWritten(all[i], known, gaveUp)
                     THEN Append(K[i - 1], Statement(all[i], known)) ELSE K[i - 1]
  <2>1. i \in 0 .. N /\ i # 0
    BY <1>1
  <2> QED BY <1>8, <2>1
<1> QED BY <1>7, <1>9, <1>10 DEF N

\* The statements made of the first i changes: in their order, one of each change that
\* is written.
Passes(s, i, all, known, gaveUp) ==
  /\ s \in Seq({Statement(all[j], known) : j \in 1 .. i})
  /\ \A x \in ToSet(s) : \E j \in 1 .. i :
       x = Statement(all[j], known) /\ IsWritten(all[j], known, gaveUp)
  /\ \A j \in 1 .. i :
       IsWritten(all[j], known, gaveUp) => Statement(all[j], known) \in ToSet(s)
  /\ RisingBatch(s)

RisingChanges(all) ==
  \A p, q \in DOMAIN all :
    p < q /\ Same(all[p], all[q]) /\ Plain(all[p]) /\ Plain(all[q]) =>
      all[p].version < all[q].version

LEMMA RisingBatchAppend ==
  ASSUME NEW S, NEW seq \in Seq(S), NEW elt \in S, RisingBatch(seq),
         \A x \in ToSet(seq) :
           Same(x.c, elt.c) /\ Plain(x.c) /\ Plain(elt.c) => x.c.version < elt.c.version
  PROVE  RisingBatch(Append(seq, elt))
<1> DEFINE new == Append(seq, elt)
<1>1. /\ Len(seq) \in Nat /\ DOMAIN seq = 1 .. Len(seq) /\ DOMAIN new = 1 .. Len(seq) + 1
      /\ \A i \in 1 .. Len(seq) : new[i] = seq[i]
      /\ new[Len(seq) + 1] = elt
  BY AppendProperties
<1> HIDE DEF new
<1>2. ASSUME NEW p \in DOMAIN new, NEW q \in DOMAIN new, p < q, Same(new[p].c, new[q].c),
             Plain(new[p].c), Plain(new[q].c)
      PROVE  new[p].c.version < new[q].c.version
  <2>1. p \in 1 .. Len(seq) /\ new[p] = seq[p] /\ seq[p] \in ToSet(seq)
    BY <1>1, <1>2 DEF ToSet
  <2>2. CASE q = Len(seq) + 1
    BY <1>1, <1>2, <2>1, <2>2
  <2>3. CASE q # Len(seq) + 1
    <3>1. q \in 1 .. Len(seq)
      BY <1>1, <2>3
    <3> QED BY <1>1, <1>2, <2>1, <3>1 DEF RisingBatch
  <2> QED BY <2>2, <2>3
<1> QED BY <1>2 DEF RisingBatch, new

LEMMA PassedStep ==
  ASSUME NEW X, NEW all \in Seq(X), NEW known, NEW gaveUp, RisingChanges(all),
         NEW i \in Nat, i + 1 <= Len(all), NEW s, Passes(s, i, all, known, gaveUp),
         NEW t, t = IF IsWritten(all[i + 1], known, gaveUp)
                    THEN Append(s, Statement(all[i + 1], known)) ELSE s
  PROVE  Passes(t, i + 1, all, known, gaveUp)
<1> DEFINE T(k) == {Statement(all[j], known) : j \in 1 .. k}
           new == Statement(all[i + 1], known)
<1>1. \A j \in 1 .. i + 1 : j \in 1 .. i \/ j = i + 1
  OBVIOUS
<1>2. 1 .. i \subseteq 1 .. i + 1 /\ i + 1 \in 1 .. i + 1 /\ 1 .. i + 1 \subseteq DOMAIN all
  OBVIOUS
<1>3. T(i) \subseteq T(i + 1) /\ new \in T(i + 1)
  BY <1>2
<1>4. s \in Seq(T(i))
  BY DEF Passes
<1>5. s \in Seq(T(i + 1))
  <2> HIDE DEF T
  <2> QED BY <1>3, <1>4
<1>6. CASE ~IsWritten(all[i + 1], known, gaveUp)
  <2>1. t = s
    BY <1>6
  <2> QED BY <1>1, <1>2, <1>5, <1>6, <2>1 DEF Passes
<1>7. CASE IsWritten(all[i + 1], known, gaveUp)
  <2>1. t = Append(s, new)
    BY <1>7
  <2>2. t \in Seq(T(i + 1)) /\ ToSet(t) = ToSet(s) \cup {new}
    <3>1. PICK U : U = T(i + 1)
      OBVIOUS
    <3>2. s \in Seq(U) /\ new \in U
      BY <1>3, <1>5, <3>1
    <3> HIDE DEF T, new
    <3>3. Append(s, new) \in Seq(U) /\ ToSet(Append(s, new)) = ToSet(s) \cup {new}
      BY ONLY <3>2, AppendProperties, ToSetAppend
    <3> QED BY ONLY <2>1, <3>1, <3>3
  <2>3. new.c = all[i + 1] /\ \A j \in 1 .. i : Statement(all[j], known).c = all[j]
    BY DEF Statement
  <2>4. ASSUME NEW x \in ToSet(s), Same(x.c, new.c), Plain(x.c), Plain(new.c)
        PROVE  x.c.version < new.c.version
    <3>1. PICK j \in 1 .. i : x = Statement(all[j], known)
      BY DEF Passes
    <3>2. x.c = all[j] /\ j < i + 1 /\ j \in DOMAIN all /\ i + 1 \in DOMAIN all
      BY <1>2, <2>3, <3>1
    <3> QED BY <2>3, <2>4, <3>2 DEF RisingChanges
  <2>5. RisingBatch(t)
    <3>1. RisingBatch(s)
      BY DEF Passes
    <3> HIDE DEF T, new
    <3> QED BY <1>3, <1>5, <2>1, <2>4, <3>1, RisingBatchAppend
  <2>6. \A x \in ToSet(t) : \E j \in 1 .. i + 1 :
          x = Statement(all[j], known) /\ IsWritten(all[j], known, gaveUp)
    BY <1>2, <1>7, <2>2 DEF Passes
  <2>7. \A j \in 1 .. i + 1 :
          IsWritten(all[j], known, gaveUp) => Statement(all[j], known) \in ToSet(t)
    BY <1>1, <2>2 DEF Passes
  <2> QED BY <2>2, <2>5, <2>6, <2>7 DEF Passes
<1> QED BY <1>6, <1>7

LEMMA PassedFacts ==
  ASSUME NEW X, NEW all \in Seq(X), NEW known, NEW gaveUp, RisingChanges(all)
  PROVE  Passes(Passed(all, known, gaveUp)[Len(all)], Len(all), all, known, gaveUp)
<1>1. PICK sofar : sofar = Passed(all, known, gaveUp)
  OBVIOUS
<1>2. /\ sofar[0] = <<>>
      /\ \A i \in 1 .. Len(all) :
           sofar[i] = IF IsWritten(all[i], known, gaveUp)
                      THEN Append(sofar[i - 1], Statement(all[i], known))
                      ELSE sofar[i - 1]
  BY <1>1, PassedTurn
<1> DEFINE S == {i \in 0 .. Len(all) : Passes(sofar[i], i, all, known, gaveUp)}
<1>3. Len(all) \in Nat
  OBVIOUS
<1>4. 0 \in S
  <2>1. ToSet(<<>>) = {} /\ \A T : <<>> \in Seq(T)
    BY DEF ToSet
  <2>2. Passes(<<>>, 0, all, known, gaveUp)
    BY <2>1 DEF Passes, RisingBatch
  <2> QED BY <1>2, <1>3, <2>2
<1>5. ASSUME NEW i \in 0 .. Len(all) - 1, i \in S PROVE i + 1 \in S
  <2>1. i \in Nat /\ i + 1 <= Len(all) /\ i + 1 \in 1 .. Len(all) /\ (i + 1) - 1 = i
    BY <1>3
  <2>2. Passes(sofar[i], i, all, known, gaveUp)
    BY <1>5
  <2>3. sofar[i + 1] = IF IsWritten(all[i + 1], known, gaveUp)
                       THEN Append(sofar[i], Statement(all[i + 1], known)) ELSE sofar[i]
    BY <1>2, <2>1
  <2>4. Passes(sofar[i + 1], i + 1, all, known, gaveUp)
    BY <2>1, <2>2, <2>3, PassedStep
  <2> QED BY <1>3, <2>1, <2>4
<1> HIDE DEF S
<1>6. \A i \in 0 .. Len(all) : i \in S
  BY <1>3, <1>4, <1>5, InductiveUpTo
<1>7. Len(all) \in S
  BY <1>3, <1>6
<1> QED BY <1>1, <1>7 DEF S

LEMMA SeqIntoRange ==
  ASSUME NEW T, NEW seq \in Seq(T), NEW U, ToSet(seq) \subseteq U
  PROVE  seq \in Seq(U)
<1>1. \A i \in 1 .. Len(seq) : seq[i] \in U
  BY LenProperties DEF ToSet
<1> QED
  BY <1>1, LenProperties

LEMMA StatementTyped ==
  ASSUME NEW c \in Changes \cup Moves, NEW known, NEW gaveUp,
         \A n \in DOMAIN known : known[n] \in Locs,
         IsWritten(c, known, gaveUp)
  PROVE  Statement(c, known) \in StatementSet /\ Statement(c, known).c = c
<1>1. Statement(c, known) =
        [ c |-> c,
          geom |-> IF c.kind = "way" /\ c.action # "remove" THEN Geometry(c.refs, known) ELSE <<>> ]
  BY DEF Statement
<1>2. CASE c.kind = "way" /\ c.action # "remove"
  <2>1. Complete(c.refs, known)
    BY <1>2 DEF IsWritten
  <2>2. c.refs \in Seq(Nodes)
    BY <1>2, ChangeTypes DEF Moves
  <2>3. /\ Len(c.refs) \in Nat /\ DOMAIN c.refs = 1 .. Len(c.refs)
        /\ \A i \in DOMAIN c.refs : known[c.refs[i]] \in Locs
    BY <2>1, <2>2 DEF Complete, ToSet
  <2>4. Geometry(c.refs, known) \in [1 .. Len(c.refs) -> Locs]
    BY <2>3 DEF Geometry
  <2>5. Geometry(c.refs, known) \in Seq(Locs)
    BY <2>3, <2>4, SeqDef
  <2> QED BY <1>1, <1>2, <2>5 DEF StatementSet
<1>3. CASE ~(c.kind = "way" /\ c.action # "remove")
  <2>1. Statement(c, known) = [c |-> c, geom |-> <<>>] /\ <<>> \in Seq(Locs)
    BY <1>1, <1>3
  <2> QED BY <2>1 DEF StatementSet
<1> QED BY <1>2, <1>3

LEMMA StatementsFacts ==
  ASSUME NEW db, TablesTyped(db), NEW file \in Seq(Changes), Rising(file)
  PROVE  LET S == Statements(file, db)
         IN  /\ S \in Seq(StatementSet)
             /\ \A s \in ToSet(S) : s.c \in ToSet(file) \/ s.c \in ToSet(Indirect(file, db))
             /\ \A c \in ToSet(file) :
                  IsWritten(c, KnownNodes(file, db), GaveUp(file, db)) =>
                    \E s \in ToSet(S) : s.c = c
             /\ RisingBatch(S)
<1>1. PICK moved : moved = Indirect(file, db)
  OBVIOUS
<1>2. PICK known : known = KnownNodes(file, db)
  OBVIOUS
<1>3. PICK gaveUp : gaveUp = GaveUp(file, db)
  OBVIOUS
<1>4. moved \in Seq(Moves) /\ \A n \in DOMAIN known : known[n] \in Locs
  BY <1>1, <1>2, IndirectFacts, KnownFacts
<1>5. PICK all : all = file \o moved
  OBVIOUS
<1>6. /\ Len(file) \in Nat /\ Len(moved) \in Nat
      /\ DOMAIN file = 1 .. Len(file) /\ DOMAIN moved = 1 .. Len(moved)
      /\ \A i \in 1 .. Len(file) : file[i] \in Changes
      /\ \A i \in 1 .. Len(moved) : moved[i] \in Moves
  BY <1>4
<1>7. /\ all \in Seq(Changes \cup Moves)
      /\ Len(all) = Len(file) + Len(moved) /\ DOMAIN all = 1 .. Len(all)
      /\ \A i \in 1 .. Len(file) : all[i] = file[i]
      /\ \A i \in DOMAIN all : i \notin 1 .. Len(file) =>
           i - Len(file) \in 1 .. Len(moved) /\ all[i] = moved[i - Len(file)]
  <2>1. file \in Seq(Changes \cup Moves) /\ moved \in Seq(Changes \cup Moves)
    BY <1>4
  <2> HIDE DEF Moves, Changes
  <2> QED BY <1>5, <2>1
<1>8. RisingChanges(all)
  <2> SUFFICES ASSUME NEW p \in DOMAIN all, NEW q \in DOMAIN all, p < q, Same(all[p], all[q]),
                      Plain(all[p]), Plain(all[q])
               PROVE  all[p].version < all[q].version
    BY DEF RisingChanges
  <2>1. \A i \in DOMAIN all : Plain(all[i]) => i \in 1 .. Len(file)
    BY <1>6, <1>7 DEF Plain, Moves
  <2>2. p \in DOMAIN file /\ q \in DOMAIN file /\ all[p] = file[p] /\ all[q] = file[q]
    BY <1>6, <1>7, <2>1
  <2> QED BY <2>2 DEF Rising
<1>9. PICK S : S = Statements(file, db)
  OBVIOUS
<1>10. S = Passed(all, known, gaveUp)[Len(all)]
  BY <1>1, <1>2, <1>3, <1>5, <1>9 DEF Statements, Passed
<1>11. Passes(S, Len(all), all, known, gaveUp)
  BY <1>7, <1>8, <1>10, PassedFacts
<1>12. ASSUME NEW s \in ToSet(S)
       PROVE  /\ s \in StatementSet
              /\ s.c \in ToSet(file) \/ s.c \in ToSet(moved)
  <2>1. PICK j \in 1 .. Len(all) :
          s = Statement(all[j], known) /\ IsWritten(all[j], known, gaveUp)
    BY <1>11 DEF Passes
  <2>2. all[j] \in Changes \cup Moves
    BY <1>7
  <2>3. s \in StatementSet /\ s.c = all[j]
    BY <1>4, <2>1, <2>2, StatementTyped
  <2>4. all[j] \in ToSet(file) \/ all[j] \in ToSet(moved)
    BY <1>6, <1>7 DEF ToSet
  <2> QED BY <2>3, <2>4
<1>13. S \in Seq(StatementSet)
  <2>1. PICK T : T = {Statement(all[j], known) : j \in 1 .. Len(all)}
    OBVIOUS
  <2>2. S \in Seq(T)
    BY <1>11, <2>1 DEF Passes
  <2>3. ToSet(S) \subseteq StatementSet
    BY <1>12
  <2> HIDE DEF StatementSet
  <2> QED BY ONLY <2>2, <2>3, SeqIntoRange
<1>14. ASSUME NEW c \in ToSet(file), IsWritten(c, known, gaveUp)
       PROVE  \E s \in ToSet(S) : s.c = c
  <2>1. PICK j \in 1 .. Len(file) : c = file[j]
    BY <1>6 DEF ToSet
  <2>2. j \in 1 .. Len(all) /\ all[j] = c
    BY <1>6, <1>7, <2>1
  <2>3. Statement(c, known) \in ToSet(S)
    BY <1>11, <1>14, <2>2 DEF Passes
  <2> QED BY <2>3 DEF Statement
<1>15. RisingBatch(S)
  BY <1>11 DEF Passes
<1> QED BY <1>1, <1>2, <1>3, <1>9, <1>12, <1>13, <1>14, <1>15

\* Statements of an earlier sequence are older than those of a later one.
Staggered(seqs) ==
  /\ \A i \in DOMAIN seqs : RisingBatch(seqs[i])
  /\ \A i, j \in DOMAIN seqs : i < j =>
       \A x \in ToSet(seqs[i]), y \in ToSet(seqs[j]) :
         Same(x.c, y.c) /\ Plain(x.c) /\ Plain(y.c) => x.c.version < y.c.version

LEMMA RisingBatchConcat ==
  ASSUME NEW S, NEW s \in Seq(S), NEW t \in Seq(S), RisingBatch(s), RisingBatch(t),
         \A x \in ToSet(s), y \in ToSet(t) :
           Same(x.c, y.c) /\ Plain(x.c) /\ Plain(y.c) => x.c.version < y.c.version
  PROVE  RisingBatch(s \o t)
<1> DEFINE new == s \o t
<1>1. /\ Len(s) \in Nat /\ DOMAIN s = 1 .. Len(s) /\ Len(t) \in Nat /\ DOMAIN t = 1 .. Len(t)
      /\ DOMAIN new = 1 .. Len(s) + Len(t)
      /\ \A i \in 1 .. Len(s) : new[i] = s[i]
      /\ \A i \in 1 .. Len(t) : new[Len(s) + i] = t[i]
  OBVIOUS
<1> HIDE DEF new
<1>2. PICK m \in Nat : m = Len(s)
  BY <1>1
<1>3. ASSUME NEW p \in DOMAIN new, ~(p <= m)
      PROVE  \E x \in 1 .. Len(t) : p = m + x /\ new[p] = t[x]
  <2>1. p - m \in 1 .. Len(t) /\ p = m + (p - m)
    <3>1. p \in 1 .. m + Len(t) /\ Len(t) \in Nat
      BY <1>1, <1>2
    <3> QED BY ONLY <1>3, <3>1, m \in Nat
  <2> QED BY <1>1, <1>2, <2>1
<1>4. ASSUME NEW p \in DOMAIN new, p <= m
      PROVE  p \in 1 .. Len(s) /\ new[p] = s[p]
  BY <1>1, <1>2, <1>4
<1>5. ASSUME NEW p \in DOMAIN new, NEW q \in DOMAIN new, p < q, Same(new[p].c, new[q].c),
             Plain(new[p].c), Plain(new[q].c)
      PROVE  new[p].c.version < new[q].c.version
  <2>1. CASE p <= m /\ q <= m
    BY <1>1, <1>4, <1>5, <2>1 DEF RisingBatch
  <2>2. CASE p <= m /\ ~(q <= m)
    <3>1. new[p] \in ToSet(s)
      BY <1>1, <1>4, <2>2 DEF ToSet
    <3>2. new[q] \in ToSet(t)
      BY <1>1, <1>3, <2>2 DEF ToSet
    <3> QED BY <1>5, <3>1, <3>2
  <2>3. CASE ~(p <= m)
    <3>1. p \in Int /\ q \in Int
      BY <1>1
    <3>2. ~(q <= m)
      BY <1>5, <2>3, <3>1
    <3>3. PICK x \in 1 .. Len(t) : p = m + x /\ new[p] = t[x]
      BY <1>3, <2>3
    <3>4. PICK y \in 1 .. Len(t) : q = m + y /\ new[q] = t[y]
      BY <1>3, <3>2
    <3>5. x < y
      BY <1>5, <3>3, <3>4
    <3> QED BY <1>1, <1>5, <3>3, <3>4, <3>5 DEF RisingBatch
  <2> QED BY <2>1, <2>2, <2>3
<1> QED BY <1>5 DEF RisingBatch, new

LEMMA FlattenFacts ==
  ASSUME NEW S, NEW seqs \in Seq(Seq(S)), Len(seqs) > 0, Staggered(seqs)
  PROVE  LET f == FlattenSeq(seqs)
         IN  /\ f \in Seq(S)
             /\ \A x : x \in ToSet(f) <=> \E i \in DOMAIN seqs : x \in ToSet(seqs[i])
             /\ RisingBatch(f)
<1>1. PICK N \in Nat : N = Len(seqs) /\ N > 0 /\ DOMAIN seqs = 1 .. N
  OBVIOUS
<1>2. \A i \in 1 .. N : seqs[i] \in Seq(S)
  BY <1>1
<1>3. PICK K : K = Flat(seqs)
  OBVIOUS
<1>4. /\ FlattenSeq(seqs) = K[N] /\ K[1] = seqs[1]
      /\ \A i \in 2 .. N : K[i] = K[i - 1] \o seqs[i]
  BY <1>1, <1>3, FlatTurn
<1> DEFINE Good(i) ==
             /\ K[i] \in Seq(S)
             /\ \A x : x \in ToSet(K[i]) <=> \E j \in 1 .. i : x \in ToSet(seqs[j])
             /\ RisingBatch(K[i])
           T == {i \in 0 .. N : i = 0 \/ Good(i)}
<1>5. 0 \in T
  BY <1>1
<1>6. ASSUME NEW i \in 0 .. N - 1, i \in T PROVE i + 1 \in T
  <2>1. CASE i = 0
    <3>1. 1 \in 1 .. N /\ i + 1 = 1 /\ i + 1 \in 0 .. N
      BY <1>1, <2>1
    <3>2. \A j \in 1 .. 1 : j = 1
      OBVIOUS
    <3>3. Good(1)
      BY <1>1, <1>2, <1>4, <3>1, <3>2 DEF Staggered
    <3> QED BY <3>1, <3>3
  <2>2. CASE i # 0
    <3>1. i \in 1 .. N /\ i + 1 \in 2 .. N /\ (i + 1) - 1 = i /\ i + 1 \in 1 .. N /\ i + 1 \in 0 .. N
      BY <1>1, <2>2
    <3>2. Good(i)
      BY <1>6, <2>2
    <3>3. K[i + 1] = K[i] \o seqs[i + 1] /\ K[i] \in Seq(S) /\ seqs[i + 1] \in Seq(S)
      BY <1>2, <1>4, <3>1, <3>2
    <3>4. K[i + 1] \in Seq(S) /\ ToSet(K[i + 1]) = ToSet(K[i]) \cup ToSet(seqs[i + 1])
      BY <3>3, ToSetConcat, ConcatProperties
    <3>5. \A j : j \in 1 .. i + 1 <=> j \in 1 .. i \/ j = i + 1
      BY <3>1
    <3>6. \A x : x \in ToSet(K[i + 1]) <=> \E j \in 1 .. i + 1 : x \in ToSet(seqs[j])
      BY <3>2, <3>4, <3>5
    <3>7. \A x \in ToSet(K[i]), y \in ToSet(seqs[i + 1]) :
            Same(x.c, y.c) /\ Plain(x.c) /\ Plain(y.c) => x.c.version < y.c.version
      <4> TAKE x \in ToSet(K[i]), y \in ToSet(seqs[i + 1])
      <4>1. PICK j \in 1 .. i : x \in ToSet(seqs[j])
        BY <3>2
      <4>2. j \in DOMAIN seqs /\ i + 1 \in DOMAIN seqs /\ j < i + 1
        BY <1>1, <3>1, <4>1
      <4> QED BY <4>1, <4>2 DEF Staggered
    <3>8. RisingBatch(seqs[i + 1]) /\ RisingBatch(K[i])
      BY <1>1, <3>1, <3>2 DEF Staggered
    <3>9. RisingBatch(K[i + 1])
      BY <3>3, <3>7, <3>8, RisingBatchConcat
    <3> QED BY <3>1, <3>4, <3>6, <3>9
  <2> QED BY <2>1, <2>2
<1> HIDE DEF T
<1>7. \A i \in 0 .. N : i \in T
  BY <1>1, <1>5, <1>6, InductiveUpTo
<1>8. Good(N)
  <2>1. N \in T /\ N # 0
    BY <1>1, <1>7
  <2> QED BY <2>1 DEF T
<1> QED BY <1>1, <1>4, <1>8

\* The batch of a round: one statement of each change of its files that is written, in
\* an order in which versions rise, and changes of geometry.
LEMMA WorkersFacts ==
  ASSUME FeedInv, TablesTyped(osm), position \in Nat,
         NEW k \in Nat, k > 0, position + k <= Len(feed)
  PROVE  LET W == Workers(k)
         IN  /\ W \in Seq(StatementSet) /\ RisingBatch(W)
             /\ \A s \in ToSet(W) : \E i \in position + 1 .. position + k :
                  /\ i \in DOMAIN feed
                  /\ Plain(s.c) => s.c \in In(i)
                  /\ ~Plain(s.c) => s.c \in ToSet(Indirect(feed[i], osm))
             /\ \A i \in position + 1 .. position + k : \A c \in In(i) :
                  IsWritten(c, KnownNodes(feed[i], osm), GaveUp(feed[i], osm)) =>
                    \E s \in ToSet(W) : s.c = c
<1>1. PICK seqs : seqs = [i \in 1 .. k |-> Statements(feed[position + i], osm)]
  OBVIOUS
<1>2. \A i \in position + 1 .. position + k :
        /\ i \in DOMAIN feed /\ In(i) = ToSet(feed[i]) /\ i \in Places
        /\ feed[i] \in Seq(Changes) /\ Rising(feed[i])
  <2>1. Len(feed) \in Nat /\ DOMAIN feed = 1 .. Len(feed)
    BY DEF FeedInv, FeedShape
  <2>2. \A i \in position + 1 .. position + k : i \in DOMAIN feed
    BY <2>1
  <2> QED BY <2>2, PlaceFacts DEF FeedInv, FeedRises
<1>3. \A i \in 1 .. k : position + i \in position + 1 .. position + k
  OBVIOUS
<1>4. ASSUME NEW i \in position + 1 .. position + k
      PROVE  LET S == Statements(feed[i], osm)
             IN  /\ S \in Seq(StatementSet) /\ RisingBatch(S)
                 /\ \A s \in ToSet(S) :
                      /\ Plain(s.c) => s.c \in In(i)
                      /\ ~Plain(s.c) => s.c \in ToSet(Indirect(feed[i], osm))
                 /\ \A c \in In(i) :
                      IsWritten(c, KnownNodes(feed[i], osm), GaveUp(feed[i], osm)) =>
                        \E s \in ToSet(S) : s.c = c
  <2>1. PICK file \in Seq(Changes) : file = feed[i] /\ Rising(file) /\ In(i) = ToSet(file)
    BY <1>2
  <2>2. LET S == Statements(file, osm)
        IN  /\ S \in Seq(StatementSet)
            /\ \A s \in ToSet(S) : s.c \in ToSet(file) \/ s.c \in ToSet(Indirect(file, osm))
            /\ \A c \in ToSet(file) :
                 IsWritten(c, KnownNodes(file, osm), GaveUp(file, osm)) =>
                   \E s \in ToSet(S) : s.c = c
            /\ RisingBatch(S)
    BY <2>1, StatementsFacts
  <2>3. \A c \in ToSet(file) : Plain(c)
    <3>1. ToSet(file) \subseteq Changes
      BY ToSetFinite
    <3> QED BY <3>1, ChangeTypes DEF Plain
  <2>4. \A c \in ToSet(Indirect(file, osm)) : ~Plain(c)
    <3>1. Indirect(file, osm) \in Seq(Moves)
      BY IndirectFacts
    <3>2. ToSet(Indirect(file, osm)) \subseteq Moves
      BY <3>1, ToSetFinite
    <3> QED BY <3>2 DEF Moves, Plain
  <2> QED BY <2>1, <2>2, <2>3, <2>4
<1>5. seqs \in Seq(Seq(StatementSet)) /\ Len(seqs) = k /\ DOMAIN seqs = 1 .. k
  <2>1. seqs \in [1 .. k -> Seq(StatementSet)]
    BY <1>1, <1>3, <1>4
  <2> QED BY <2>1, IsASeq
<1>6. \A i \in 1 .. k : seqs[i] = Statements(feed[position + i], osm)
  BY <1>1
<1>7. Staggered(seqs)
  <2>1. \A i \in DOMAIN seqs : RisingBatch(seqs[i])
    BY <1>3, <1>4, <1>5, <1>6
  <2>2. ASSUME NEW i \in DOMAIN seqs, NEW j \in DOMAIN seqs, i < j,
               NEW x \in ToSet(seqs[i]), NEW y \in ToSet(seqs[j]),
               Same(x.c, y.c), Plain(x.c), Plain(y.c)
        PROVE  x.c.version < y.c.version
    <3>1. x.c \in In(position + i) /\ y.c \in In(position + j)
      BY <1>3, <1>4, <1>5, <1>6, <2>2
    <3>2. position + i \in Places /\ position + j \in Places /\ position + i < position + j
      BY <1>2, <1>3, <1>5, <2>2
    <3> QED BY <2>2, <3>1, <3>2 DEF FeedInv, FeedRises
  <2> QED BY <2>1, <2>2 DEF Staggered
<1>8. PICK W : W = Workers(k)
  OBVIOUS
<1>9. /\ W \in Seq(StatementSet) /\ RisingBatch(W)
      /\ \A x : x \in ToSet(W) <=> \E i \in 1 .. k : x \in ToSet(seqs[i])
  <2>1. W = FlattenSeq(seqs)
    BY <1>1, <1>8 DEF Workers
  <2> QED BY <1>5, <1>7, <2>1, FlattenFacts
<1>10. ASSUME NEW s \in ToSet(W)
       PROVE  \E i \in position + 1 .. position + k :
                /\ i \in DOMAIN feed
                /\ Plain(s.c) => s.c \in In(i)
                /\ ~Plain(s.c) => s.c \in ToSet(Indirect(feed[i], osm))
  <2>1. PICK j \in 1 .. k : s \in ToSet(seqs[j])
    BY <1>9
  <2>2. PICK i \in position + 1 .. position + k : i = position + j
    BY <1>3
  <2>3. s \in ToSet(Statements(feed[i], osm))
    BY <1>6, <2>1, <2>2
  <2> QED BY <1>2, <1>4, <2>3
<1>11. ASSUME NEW i \in position + 1 .. position + k, NEW c \in In(i),
              IsWritten(c, KnownNodes(feed[i], osm), GaveUp(feed[i], osm))
       PROVE  \E s \in ToSet(W) : s.c = c
  <2>1. PICK s \in ToSet(Statements(feed[i], osm)) : s.c = c
    BY <1>4, <1>11
  <2>2. i - position \in 1 .. k /\ position + (i - position) = i
    OBVIOUS
  <2>3. s \in ToSet(seqs[i - position])
    BY <1>6, <2>1, <2>2
  <2> QED BY <1>9, <2>1, <2>2, <2>3
<1> QED BY <1>8, <1>9, <1>10, <1>11

-----------------------------------------------------------------------------
(* What the statements do to the tables.                                   *)

LEMMA NodeRow ==
  ASSUME NEW db, TablesTyped(db), NEW n \in Nodes, NEW row \in NodeRows,
         row.version > 0 => row.loc \in Locs
  PROVE  LET new == [db EXCEPT !.nodes[n] = row]
         IN  /\ TablesTyped(new) /\ new.ways = db.ways
             /\ \A x \in Nodes : new.nodes[x] = IF x = n THEN row ELSE db.nodes[x]
<1> DEFINE new == [db EXCEPT !.nodes[n] = row]
<1>1. PICK nodes \in [Nodes -> NodeRows], ways \in [Tables -> [Ways -> WayRows]] :
        db = [nodes |-> nodes, ways |-> ways]
  BY DEF TablesTyped, Databases
<1>2. PICK rows : rows = [nodes EXCEPT ![n] = row]
  OBVIOUS
<1>3. new = [nodes |-> rows, ways |-> ways]
  BY <1>1, <1>2
<1>4. rows \in [Nodes -> NodeRows] /\ \A x \in Nodes : rows[x] = IF x = n THEN row ELSE nodes[x]
  BY <1>2
<1>5. new \in Databases
  BY <1>1, <1>3, <1>4 DEF Databases
<1> HIDE DEF new
<1>6. new.nodes = rows /\ new.ways = ways /\ db.nodes = nodes /\ db.ways = ways
  BY <1>1, <1>3
<1>7. TablesTyped(new)
  BY <1>4, <1>5, <1>6 DEF TablesTyped
<1> QED BY <1>4, <1>6, <1>7 DEF new

LEMMA WayRow ==
  ASSUME NEW db, TablesTyped(db), NEW table \in Tables, NEW w \in Ways, NEW row \in WayRows,
         row.version > 0 => TableOf(row.refs) = table
  PROVE  LET new == [db EXCEPT !.ways[table][w] = row]
         IN  /\ TablesTyped(new) /\ new.nodes = db.nodes
             /\ \A t \in Tables, x \in Ways :
                  new.ways[t][x] = IF t = table /\ x = w THEN row ELSE db.ways[t][x]
<1> DEFINE new == [db EXCEPT !.ways[table][w] = row]
<1>1. PICK nodes \in [Nodes -> NodeRows], ways \in [Tables -> [Ways -> WayRows]] :
        db = [nodes |-> nodes, ways |-> ways]
  BY DEF TablesTyped, Databases
<1>2. PICK rows : rows = [ways EXCEPT ![table] = [@ EXCEPT ![w] = row]]
  OBVIOUS
<1>3. new = [nodes |-> nodes, ways |-> rows]
  <2>1. \A n, r : LET old == [nodes |-> n, ways |-> r]
               IN  [old EXCEPT !.ways[table][w] = row]
                     = [nodes |-> n, ways |-> [r EXCEPT ![table] = [@ EXCEPT ![w] = row]]]
    OBVIOUS
  <2> QED BY <1>1, <1>2, <2>1
<1>4. /\ rows \in [Tables -> [Ways -> WayRows]]
      /\ \A t \in Tables, x \in Ways :
           rows[t][x] = IF t = table /\ x = w THEN row ELSE ways[t][x]
  BY <1>2
<1>5. new \in Databases
  BY <1>1, <1>3, <1>4 DEF Databases
<1> HIDE DEF new
<1>6. new.nodes = nodes /\ new.ways = rows /\ db.nodes = nodes /\ db.ways = ways
  BY <1>1, <1>3
<1>7. TablesTyped(new)
  BY <1>4, <1>5, <1>6 DEF TablesTyped
<1> QED BY <1>4, <1>6, <1>7 DEF new

\* Writing a way's row and clearing its row in the other table.
OneRow(db, table, w, row) ==
  [db EXCEPT !.ways[table][w] = row, !.ways[Other(table)][w] = NoWay]

LEMMA OneRowFacts ==
  ASSUME NEW db, TablesTyped(db), NEW table \in Tables, NEW w \in Ways, NEW row \in WayRows,
         row.version > 0 => TableOf(row.refs) = table
  PROVE  LET new == OneRow(db, table, w, row)
         IN  /\ TablesTyped(new) /\ new.nodes = db.nodes
             /\ \A t \in Tables, x \in Ways :
                  new.ways[t][x] = IF x # w THEN db.ways[t][x]
                                   ELSE IF t = table THEN row ELSE NoWay
<1> DEFINE half == [db EXCEPT !.ways[table][w] = row]
           new == [half EXCEPT !.ways[Other(table)][w] = NoWay]
<1>1. Other(table) \in Tables /\ Other(table) # table /\ \A t \in Tables : t = table \/ t = Other(table)
  BY TwoTables DEF Tables
<1>2. /\ TablesTyped(half) /\ half.nodes = db.nodes
      /\ \A t \in Tables, x \in Ways :
           half.ways[t][x] = IF t = table /\ x = w THEN row ELSE db.ways[t][x]
  BY WayRow
<1>3. NoWay \in WayRows /\ NoWay.version = 0
  BY DEF NoWay, WayRows
<1>4. /\ TablesTyped(new) /\ new.nodes = half.nodes
      /\ \A t \in Tables, x \in Ways :
           new.ways[t][x] = IF t = Other(table) /\ x = w THEN NoWay ELSE half.ways[t][x]
  <2> HIDE DEF half
  <2>1. NoWay.version > 0 => TableOf(NoWay.refs) = Other(table)
    BY <1>3
  <2>2. PICK h : h = half
    OBVIOUS
  <2>3. PICK o \in Tables : o = Other(table)
    BY <1>1
  <2>4. TablesTyped(h)
    BY <1>2, <2>2
  <2>5. LET next == [h EXCEPT !.ways[o][w] = NoWay]
        IN  /\ TablesTyped(next) /\ next.nodes = h.nodes
            /\ \A t \in Tables, x \in Ways :
                 next.ways[t][x] = IF t = o /\ x = w THEN NoWay ELSE h.ways[t][x]
    <3>1. PICK none \in WayRows : none = NoWay /\ (none.version > 0 => TableOf(none.refs) = o)
      BY <1>3, <2>1, <2>3
    <3>2. LET next == [h EXCEPT !.ways[o][w] = none]
          IN  /\ TablesTyped(next) /\ next.nodes = h.nodes
              /\ \A t \in Tables, x \in Ways :
                   next.ways[t][x] = IF t = o /\ x = w THEN none ELSE h.ways[t][x]
      BY <2>4, <3>1, WayRow
    <3> QED BY <3>1, <3>2
  <2> QED BY <2>2, <2>3, <2>5
<1>5. /\ TablesTyped(new) /\ new.nodes = db.nodes
      /\ \A t \in Tables, x \in Ways :
           new.ways[t][x] = IF x # w THEN db.ways[t][x] ELSE IF t = table THEN row ELSE NoWay
  <2> HIDE DEF half, new
  <2> QED BY <1>1, <1>2, <1>4
<1> QED BY <1>5 DEF OneRow

LEMMA ApplyNode ==
  ASSUME NEW db, TablesTyped(db), NEW s \in StatementSet, s.c.kind = "node"
  PROVE  /\ TablesTyped(Apply(db, s)) /\ Apply(db, s).ways = db.ways
         /\ \A n \in Nodes :
              Apply(db, s).nodes[n] =
                IF n # s.c.id THEN db.nodes[n]
                ELSE IF s.c.action = "remove" THEN NoNode
                ELSE IF db.nodes[n].version < s.c.version
                  THEN [version |-> s.c.version, loc |-> s.c.loc]
                ELSE db.nodes[n]
<1>1. s.c \in Changes
  BY DEF StatementSet, Moves
<1>2. PICK c \in NodeChanges : c = s.c
  BY <1>1, ChangeTypes
<1>3. c.id \in Nodes /\ c.version \in Nat /\ (c.action # "remove" => c.loc \in Locs)
  BY <1>2 DEF NodeChanges
<1>4. CASE c.action = "remove"
  <2>1. PICK none \in NodeRows : none = NoNode /\ none.version = 0
    <3>1. NoNode \in NodeRows /\ NoNode.version = 0
      BY DEF NoNode, NodeRows
    <3> QED BY <3>1
  <2>2. Apply(db, s) = [db EXCEPT !.nodes[c.id] = none]
    BY <1>2, <1>4, <2>1 DEF Apply, RemoveNode
  <2> QED BY <1>2, <1>3, <1>4, <2>1, <2>2, NodeRow
<1>5. CASE c.action # "remove"
  <2>1. Apply(db, s) = StoreNode(db, c)
    BY <1>2, <1>5 DEF Apply
  <2>2. PICK row \in NodeRows : row = [version |-> c.version, loc |-> c.loc] /\ row.loc \in Locs
    <3>1. [version |-> c.version, loc |-> c.loc] \in NodeRows
      BY <1>3, <1>5 DEF NodeRows
    <3> QED BY <1>3, <1>5, <3>1
  <2>3. CASE db.nodes[c.id].version < c.version
    <3>1. Apply(db, s) = [db EXCEPT !.nodes[c.id] = row]
      BY <2>1, <2>2, <2>3 DEF StoreNode
    <3> QED BY <1>2, <1>3, <1>5, <2>2, <2>3, <3>1, NodeRow
  <2>4. CASE ~(db.nodes[c.id].version < c.version)
    <3>1. Apply(db, s) = db
      BY <2>1, <2>4 DEF StoreNode
    <3> QED BY <1>2, <1>3, <1>5, <2>4, <3>1
  <2> QED BY <2>3, <2>4
<1> QED BY <1>4, <1>5

\* What a statement makes of the row of its way in the table of its references: the
\* row in the other table is left alone by a delete, and gone after all others.
WayRowAfter(row, s) ==
  IF s.c.action = "remove" THEN NoWay
  ELSE IF s.c.action = "modify_geom"
    THEN IF row.version > 0 THEN [row EXCEPT !.geom = s.geom] ELSE row
  ELSE IF row.version <= s.c.version
    THEN [version |-> s.c.version, refs |-> s.c.refs, geom |-> s.geom]
  ELSE row

LEMMA ApplyWay ==
  ASSUME NEW db, TablesTyped(db), NEW s \in StatementSet, s.c.kind = "way"
  PROVE  /\ TablesTyped(Apply(db, s)) /\ Apply(db, s).nodes = db.nodes
         /\ \A t \in Tables, w \in Ways :
              Apply(db, s).ways[t][w] =
                IF w # s.c.id THEN db.ways[t][w]
                ELSE IF t = TableOf(s.c.refs) THEN WayRowAfter(db.ways[t][w], s)
                ELSE IF s.c.action = "remove" THEN db.ways[t][w]
                ELSE NoWay
<1>1. /\ s.c.id \in Ways /\ s.c.version \in Nat /\ s.c.refs \in Seq(Nodes) /\ s.geom \in Seq(Locs)
      /\ s.c.action \in {"create", "modify", "remove", "modify_geom"}
  BY ChangeTypes DEF StatementSet, Moves
<1>2. PICK table \in Tables : table = TableOf(s.c.refs)
  BY TwoTables
<1>3. PICK old \in WayRows : old = db.ways[table][s.c.id] /\ (old.version > 0 => TableOf(old.refs) = table)
  BY <1>1 DEF TablesTyped, Databases
<1>4. PICK row : row = WayRowAfter(old, s)
  OBVIOUS
<1>5. row \in WayRows /\ (row.version > 0 => TableOf(row.refs) = table)
  <2>1. CASE s.c.action = "remove"
    BY <1>4, <2>1 DEF WayRowAfter, NoWay, WayRows
  <2>2. CASE s.c.action = "modify_geom"
    <3>1. row = old \/ row = [old EXCEPT !.geom = s.geom]
      BY <1>4, <2>2 DEF WayRowAfter
    <3> QED BY <1>1, <1>3, <3>1 DEF WayRows
  <2>3. CASE s.c.action \notin {"remove", "modify_geom"}
    <3>1. row = old \/ row = [version |-> s.c.version, refs |-> s.c.refs, geom |-> s.geom]
      BY <1>4, <2>3 DEF WayRowAfter
    <3> QED BY <1>1, <1>2, <1>3, <3>1 DEF WayRows
  <2> QED BY <2>1, <2>2, <2>3
<1>6. CASE s.c.action = "remove"
  <2>1. Apply(db, s) = [db EXCEPT !.ways[table][s.c.id] = row]
    BY <1>2, <1>4, <1>6 DEF Apply, RemoveWay, WayRowAfter
  <2>2. /\ TablesTyped(Apply(db, s)) /\ Apply(db, s).nodes = db.nodes
        /\ \A t \in Tables, x \in Ways :
             Apply(db, s).ways[t][x] = IF t = table /\ x = s.c.id THEN row ELSE db.ways[t][x]
    <3>1. PICK w \in Ways : w = s.c.id
      BY <1>1
    <3>2. Apply(db, s) = [db EXCEPT !.ways[table][w] = row]
      BY <2>1, <3>1
    <3> QED BY <1>5, <3>1, <3>2, WayRow
  <2> QED BY <1>2, <1>3, <1>4, <1>6, <2>2
<1>7. CASE s.c.action # "remove"
  <2>1. Apply(db, s) = [db EXCEPT !.ways[table][s.c.id] = row, !.ways[Other(table)][s.c.id] = NoWay]
    <3>1. CASE s.c.action = "modify_geom"
      BY <1>2, <1>3, <1>4, <3>1 DEF Apply, MoveWay, WayRowAfter
    <3>2. CASE s.c.action # "modify_geom"
      BY <1>2, <1>3, <1>4, <1>7, <3>2 DEF Apply, StoreWay, WayRowAfter
    <3> QED BY <3>1, <3>2
  <2>2. /\ TablesTyped(Apply(db, s)) /\ Apply(db, s).nodes = db.nodes
        /\ \A t \in Tables, x \in Ways :
             Apply(db, s).ways[t][x] = IF x # s.c.id THEN db.ways[t][x]
                                       ELSE IF t = table THEN row ELSE NoWay
    <3>1. PICK w \in Ways : w = s.c.id
      BY <1>1
    <3>2. Apply(db, s) = OneRow(db, table, w, row)
      BY <2>1, <3>1 DEF OneRow
    <3> QED BY <1>5, <3>1, <3>2, OneRowFacts
  <2> QED BY <1>2, <1>3, <1>4, <1>7, <2>2
<1> QED BY <1>6, <1>7

-----------------------------------------------------------------------------
(* The program, and what its state always is.                              *)

ProgramTyped ==
  /\ TablesTyped(osm) /\ TablesTyped(txn)
  /\ batch \in Seq(StatementSet)
  /\ position \in Nat /\ taken \in Nat /\ restarts \in Nat
  /\ position + taken <= Len(feed)

LEMMA RefsAreSeqs == \A r \in Refs : r \in Seq(Nodes)
BY RefsAssumption

LEMMA ImportedTyped ==
  ASSUME world \in Worlds
  PROVE  TablesTyped(Imported(world))
<1> DEFINE nodes == [n \in Nodes |-> IF world.nodes[n].there
                 THEN [version |-> world.nodes[n].version, loc |-> world.nodes[n].loc]
                 ELSE NoNode]
           row(way) == [ version |-> way.version, refs |-> way.refs,
                         geom |-> [i \in DOMAIN way.refs |-> world.nodes[way.refs[i]].loc] ]
           ways == [table \in Tables |-> [x \in Ways |->
                      IF world.ways[x].there /\ TableOf(world.ways[x].refs) = table
                        THEN row(world.ways[x]) ELSE NoWay]]
<1>1. Imported(world) = [nodes |-> nodes, ways |-> ways]
  BY DEF Imported
<1>2. \A n \in Nodes : world.nodes[n].version \in Nat /\ world.nodes[n].loc \in Locs
  BY DEF Worlds
<1>3. \A x \in Ways : world.ways[x].version \in Nat /\ world.ways[x].refs \in Seq(Nodes)
  BY RefsAreSeqs DEF Worlds
<1>4. \A n \in Nodes : nodes[n] \in NodeRows /\ (nodes[n].version > 0 => nodes[n].loc \in Locs)
  <2>1. NoNode \in NodeRows /\ NoNode.version = 0
    BY DEF NoNode, NodeRows
  <2>2. ASSUME NEW n \in Nodes
        PROVE  LET r == [version |-> world.nodes[n].version, loc |-> world.nodes[n].loc]
               IN  r \in NodeRows /\ r.loc \in Locs
    BY <1>2 DEF NodeRows
  <2> QED BY <2>1, <2>2
<1>5. NoWay \in WayRows /\ NoWay.version = 0
  BY DEF NoWay, WayRows
<1>6. ASSUME NEW x \in Ways
      PROVE  row(world.ways[x]) \in WayRows /\ row(world.ways[x]).refs = world.ways[x].refs
  <2>1. PICK refs \in Seq(Nodes) : refs = world.ways[x].refs
    BY <1>3
  <2>2. [i \in DOMAIN refs |-> world.nodes[refs[i]].loc] \in Seq(Locs)
    <3>1. Len(refs) \in Nat /\ DOMAIN refs = 1 .. Len(refs) /\ \A i \in DOMAIN refs : refs[i] \in Nodes
      OBVIOUS
    <3>2. [i \in DOMAIN refs |-> world.nodes[refs[i]].loc] \in [1 .. Len(refs) -> Locs]
      BY <1>2, <3>1
    <3> QED BY <3>1, <3>2, SeqDef
  <2> QED BY <1>3, <2>1, <2>2 DEF WayRows
<1>7. ASSUME NEW table \in Tables, NEW x \in Ways
      PROVE  /\ ways[table][x] \in WayRows
             /\ ways[table][x].version > 0 => TableOf(ways[table][x].refs) = table
  <2> HIDE DEF row
  <2> QED BY <1>5, <1>6
<1> HIDE DEF nodes, ways
<1>8. nodes \in [Nodes -> NodeRows] /\ ways \in [Tables -> [Ways -> WayRows]]
  BY <1>4, <1>7 DEF nodes, ways
<1>9. Imported(world).nodes = nodes /\ Imported(world).ways = ways /\ Imported(world) \in Databases
  BY <1>1, <1>8 DEF Databases
<1> QED BY <1>4, <1>7, <1>9 DEF TablesTyped

LEMMA BatchFacts ==
  ASSUME batch \in Seq(StatementSet), batch # <<>>
  PROVE  /\ Head(batch) \in StatementSet /\ Head(batch) \in ToSet(batch)
         /\ Tail(batch) \in Seq(StatementSet) /\ ToSet(Tail(batch)) \subseteq ToSet(batch)
         /\ ToSet(batch) = {Head(batch)} \cup ToSet(Tail(batch))
         /\ RisingBatch(batch) =>
              /\ RisingBatch(Tail(batch))
              /\ \A s \in ToSet(Tail(batch)) :
                   Same(s.c, Head(batch).c) /\ Plain(s.c) /\ Plain(Head(batch).c) =>
                     Head(batch).c.version < s.c.version
<1>1. PICK m \in Nat : m = Len(batch) /\ m > 0 /\ DOMAIN batch = 1 .. m
  BY EmptySeq, LenProperties
<1>2. PICK rest : rest = Tail(batch)
  OBVIOUS
<1>3. /\ rest \in Seq(StatementSet) /\ DOMAIN rest = 1 .. m - 1
      /\ \A i \in 1 .. m - 1 : rest[i] = batch[i + 1]
      /\ Head(batch) = batch[1]
  BY <1>1, <1>2, HeadTailProperties
<1>4. \A i \in DOMAIN rest : i + 1 \in DOMAIN batch /\ rest[i] = batch[i + 1] /\ 1 < i + 1
  BY <1>1, <1>3
<1>5. 1 \in DOMAIN batch /\ batch[1] \in StatementSet
  BY <1>1
<1>6. \A i \in DOMAIN batch : i = 1 \/ (i - 1 \in DOMAIN rest /\ batch[i] = rest[i - 1])
  <2>1. ASSUME NEW i \in DOMAIN batch, i # 1
        PROVE  i - 1 \in 1 .. m - 1 /\ (i - 1) + 1 = i
    BY <1>1, <2>1
  <2> QED BY <1>3, <2>1
<1>7. ToSet(rest) \subseteq ToSet(batch)
  BY <1>4 DEF ToSet
<1>8. ToSet(batch) = {Head(batch)} \cup ToSet(rest)
  <2>1. ToSet(batch) \subseteq {Head(batch)} \cup ToSet(rest)
    BY <1>3, <1>6 DEF ToSet
  <2>2. Head(batch) \in ToSet(batch)
    BY <1>3, <1>5 DEF ToSet
  <2> QED BY <1>7, <2>1, <2>2
<1>9. ASSUME RisingBatch(batch)
      PROVE  /\ RisingBatch(rest)
             /\ \A s \in ToSet(rest) :
                  Same(s.c, Head(batch).c) /\ Plain(s.c) /\ Plain(Head(batch).c) =>
                    Head(batch).c.version < s.c.version
  <2>1. \A p, q \in DOMAIN rest : p < q => p + 1 < q + 1
    BY <1>3
  <2>2. RisingBatch(rest)
    BY <1>4, <1>9, <2>1 DEF RisingBatch
  <2>3. ASSUME NEW s \in ToSet(rest), Same(s.c, Head(batch).c), Plain(s.c), Plain(Head(batch).c)
        PROVE  Head(batch).c.version < s.c.version
    <3>1. PICK i \in DOMAIN rest : s = rest[i]
      BY DEF ToSet
    <3>2. Same(batch[1].c, batch[i + 1].c)
      BY <1>3, <1>4, <2>3, <3>1 DEF Same
    <3> QED BY <1>3, <1>4, <1>5, <1>9, <2>3, <3>1, <3>2 DEF RisingBatch
  <2> QED BY <2>2, <2>3
<1> QED BY <1>2, <1>3, <1>5, <1>7, <1>8, <1>9

LEMMA ApplyTyped ==
  ASSUME NEW db, TablesTyped(db), NEW s \in StatementSet
  PROVE  TablesTyped(Apply(db, s))
<1>1. s.c.kind \in {"node", "way"}
  BY ChangeTypes DEF StatementSet, Moves
<1> QED BY <1>1, ApplyNode, ApplyWay

\* The steps of the program as the tables see them: rounds have files.
LEMMA RoundFacts ==
  ASSUME NEW k \in 1 .. FilesAtOnce
  PROVE  k \in Nat /\ k > 0
BY RoundAssumption

LEMMA InitTyped == Init => FeedInv /\ ProgramTyped
<1> SUFFICES ASSUME Init PROVE FeedInv /\ ProgramTyped
  OBVIOUS
<1>1. FeedInv
  BY InitFeed
<1>2. TablesTyped(osm) /\ TablesTyped(txn)
  BY <1>1, ImportedTyped DEF Init, FeedInv, FeedShape
<1>3. /\ batch \in Seq(StatementSet) /\ position \in Nat /\ taken \in Nat /\ restarts \in Nat
      /\ position + taken <= Len(feed)
  BY DEF Init
<1> QED BY <1>1, <1>2, <1>3 DEF ProgramTyped

LEMMA StepTyped ==
  ASSUME FeedInv, ProgramTyped, [Next]_vars
  PROVE  ProgramTyped'
<1>1. Len(feed) \in Nat /\ Len(feed') >= Len(feed)
  <2>1. Len(feed) \in Nat
    BY DEF FeedInv, FeedShape
  <2>2. CASE Edit
    <3>1. PICK c : Made(c)
      BY <2>2, EditMade DEF FeedInv
    <3>2. feed' = feed
      BY <3>1, MadeFacts DEF FeedInv
    <3> QED BY <2>1, <3>2
  <2>3. CASE Publish
    BY <2>1, <2>3, PublishFacts DEF FeedInv
  <2>4. CASE Works \/ UNCHANGED vars
    BY <2>1, <2>4, WorkFacts
  <2> QED BY <2>1, <2>2, <2>3, <2>4, StepCases
<1>2. CASE UNCHANGED program
  BY <1>1, <1>2 DEF ProgramTyped, program, TablesTyped
<1>3. ASSUME NEW k \in 1 .. FilesAtOnce, BeginRound(k) PROVE ProgramTyped'
  <2>1. k \in Nat /\ k > 0 /\ position + k <= Len(feed)
    BY <1>3, RoundFacts DEF BeginRound
  <2>2. Workers(k) \in Seq(StatementSet)
    BY <2>1, WorkersFacts DEF ProgramTyped
  <2> QED BY <1>1, <1>3, <2>1, <2>2 DEF ProgramTyped, BeginRound, TablesTyped
<1>4. CASE Exec
  <2>1. /\ Head(batch) \in StatementSet /\ Tail(batch) \in Seq(StatementSet)
    BY <1>4, BatchFacts DEF Exec, ProgramTyped
  <2>2. TablesTyped(Apply(txn, Head(batch)))
    BY <2>1, ApplyTyped DEF ProgramTyped
  <2>3. TablesTyped(osm)' /\ TablesTyped(txn)'
    BY <1>4, <2>2 DEF ProgramTyped, Exec, TablesTyped
  <2> QED BY <1>1, <1>4, <2>1, <2>3 DEF ProgramTyped, Exec
<1>5. CASE Commit
  <2>1. TablesTyped(osm)' /\ TablesTyped(txn)'
    BY <1>5 DEF ProgramTyped, Commit, TablesTyped
  <2> QED BY <1>1, <1>5, <2>1 DEF ProgramTyped, Commit
<1>6. CASE Restart
  <2>1. PICK p \in 0 .. position : position' = p
    BY <1>6 DEF Restart
  <2>2. /\ restarts' = restarts + 1 /\ taken' = 0 /\ batch' = <<>>
        /\ txn' = osm /\ osm' = osm /\ feed' = feed
    BY <1>6 DEF Restart
  <2>3. TablesTyped(osm)' /\ TablesTyped(txn)'
    BY <2>2 DEF ProgramTyped, TablesTyped
  <2> QED BY <1>1, <2>1, <2>2, <2>3 DEF ProgramTyped
<1>7. \/ UNCHANGED program \/ (\E k \in 1 .. FilesAtOnce : BeginRound(k))
      \/ Exec \/ Commit \/ Restart
  BY DEF Next, vars, program, Publish, DropNode, EditNode, DropWay, EditWay
<1> QED BY <1>2, <1>3, <1>4, <1>5, <1>6, <1>7

\* The tables always hold rows of nodes and ways, a stored node has a location, and a
\* stored way is in the table its references belong to.
THEOREM Typed == Spec => []TypeOK
<1>1. FeedInv /\ ProgramTyped => TypeOK
  <2> SUFFICES ASSUME FeedInv, ProgramTyped PROVE TypeOK
    OBVIOUS
  <2>1. position + taken \in 0 .. Len(feed)
    BY DEF ProgramTyped, FeedInv, FeedShape
  <2> QED BY <2>1 DEF ProgramTyped, TablesTyped, TypeOK
<1> QED
  BY InitTyped, StepFeed, StepTyped, <1>1, PTL DEF Spec

-----------------------------------------------------------------------------
(* The nodes.  What is late: the changes the tables, and the running       *)
(* transaction, have still to see.                                         *)

Late(c) == \E i \in Places : i > position /\ c \in In(i)

LateInTxn(c) ==
  \/ \E i \in Places : i > position + taken /\ c \in In(i)
  \/ \E s \in ToSet(batch) : s.c = c

\* A change of the batch is one of the files of the round, in the order of the versions;
\* a change of geometry is there because one of them moves a node.
BatchShape ==
  /\ RisingBatch(batch)
  /\ \A s \in ToSet(batch) :
       IF Plain(s.c) THEN \E i \in DOMAIN feed : i > position /\ i <= position + taken /\ s.c \in In(i)
       ELSE \E c \in Edits : c.kind = "node" /\ c.action = "modify"

\* Nothing newer than a change of the batch, of this kind, was done already.
UpToDate(kind) ==
  \A s \in ToSet(batch), d \in Log :
    s.c.kind = kind /\ Plain(s.c) /\ Same(s.c, d) /\ d.version > s.c.version => LateInTxn(d)

\* What the tables are to have of a node.
Target(n) ==
  IF world.nodes[n].there THEN [version |-> world.nodes[n].version, loc |-> world.nodes[n].loc]
  ELSE NoNode

NewestOf(c, n) == c.kind = "node" /\ c.id = n /\ c.version = world.nodes[n].version

\* A row is never newer than OSM, and right if it is as new.
NodesNotNewer ==
  \A n \in Nodes : \A row \in {osm.nodes[n], txn.nodes[n]} :
    /\ row.version <= world.nodes[n].version
    /\ row.version = world.nodes[n].version /\ row.version > 0 => row = Target(n)

\* A row is right, or the change that makes it so is still to come.
NodesFollow ==
  \A n \in Nodes :
    /\ osm.nodes[n] = Target(n) \/ \E c \in Log : NewestOf(c, n) /\ Late(c)
    /\ txn.nodes[n] = Target(n) \/ \E c \in Log : NewestOf(c, n) /\ LateInTxn(c)

NodeInv == BatchShape /\ UpToDate("node") /\ NodesNotNewer /\ NodesFollow

\* An edit is late, and makes nothing else less so.
LEMMA LateMade ==
  ASSUME FeedInv, ProgramTyped, NEW c, Made(c)
  PROVE  /\ \A d : Late(d) => Late(d)'
         /\ \A d : LateInTxn(d) => LateInTxn(d)'
         /\ Late(c)' /\ LateInTxn(c)'
<1>1. /\ Places' = Places /\ feed' = feed
      /\ \A i \in Places : In(i)' = IF i = Len(feed) + 1 THEN In(i) \cup {c} ELSE In(i)
  BY MadeFacts DEF FeedInv
<1>2. UNCHANGED <<position, taken, batch>>
  BY DEF Made, program
<1>3. Len(feed) + 1 \in Places /\ Len(feed) + 1 > position /\ Len(feed) + 1 > position + taken
  BY PlaceFacts DEF FeedInv, ProgramTyped
<1>4. c \in In(Len(feed) + 1)'
  BY <1>1, <1>3
<1>5. PICK m \in Places : m = Len(feed) + 1
  BY <1>3
<1>6. c \in In(m)'
  BY <1>1, <1>5
<1> QED BY <1>1, <1>2, <1>3, <1>5, <1>6 DEF Late, LateInTxn

LEMMA LatePublish ==
  ASSUME FeedInv, ProgramTyped, Publish
  PROVE  /\ \A d : Late(d) => Late(d)'
         /\ \A d : LateInTxn(d) => LateInTxn(d)'
<1>1. /\ Places' = Places \cup {Len(feed) + 2}
      /\ \A i \in Places : In(i)' = In(i)
  BY PublishFacts DEF FeedInv
<1>2. UNCHANGED <<position, taken, batch>>
  BY DEF Publish, program
<1> QED BY <1>1, <1>2 DEF Late, LateInTxn

\* Once everything is taken nothing is late.
LEMMA LateInStep ==
  ASSUME FeedInv, ProgramTyped, InStep
  PROVE  \A c : ~Late(c)
<1>1. open \in [nodes : Seq(NodeChanges), ways : Seq(WayChanges)]
  BY DEF FeedInv, FeedShape
<1>2. open.nodes = <<>> /\ open.ways = <<>>
  BY <1>1 DEF InStep, NothingOpen
<1>3. ASSUME NEW i \in Places, i > position
      PROVE  In(i) = {}
  <2>1. i \notin DOMAIN feed
    BY <1>3, PlaceFacts DEF InStep, FeedInv, FeedShape
  <2> QED BY <1>2, <2>1 DEF In, ToSet
<1> QED BY <1>3 DEF Late

LEMMA EditsInLog ==
  ASSUME FeedInv
  PROVE  Edits \subseteq Log /\ \A i \in DOMAIN feed : In(i) \subseteq Edits
BY PlaceFacts DEF FeedInv, Edits, Log

LEMMA BeginFacts ==
  ASSUME FeedInv, ProgramTyped, BatchShape, NEW k \in 1 .. FilesAtOnce, BeginRound(k)
  PROVE  /\ BatchShape'
         /\ \A c : Late(c)' <=> Late(c)
         /\ \A c \in Log : LateInTxn(c) => Late(c)
         /\ \A i \in DOMAIN feed : \A c \in In(i) :
              /\ i > position
              /\ IsWritten(c, KnownNodes(feed[i], osm), GaveUp(feed[i], osm))
              => LateInTxn(c)'
         /\ \A i \in Places : \A c \in In(i) :
              i > position /\ i \notin DOMAIN feed => LateInTxn(c)'
         /\ \A s \in ToSet(batch') : s \in StatementSet
<1>1. /\ k \in Nat /\ k > 0 /\ position + k <= Len(feed) /\ taken = 0
      /\ taken' = k /\ batch' = Workers(k) /\ UNCHANGED <<world, open, feed, osm, position, txn>>
  BY RoundFacts DEF BeginRound, Idle
<1>2. Places' = Places /\ \A i : In(i)' = In(i)
  BY <1>1, SameFeed
<1>3. position \in Nat /\ Len(feed) \in Nat /\ DOMAIN feed = 1 .. Len(feed)
  BY DEF ProgramTyped, FeedInv, FeedShape
<1>4. PICK W : W = Workers(k)
  OBVIOUS
<1>5. /\ W \in Seq(StatementSet) /\ RisingBatch(W)
      /\ \A s \in ToSet(W) : \E i \in position + 1 .. position + k :
           /\ i \in DOMAIN feed
           /\ Plain(s.c) => s.c \in In(i)
           /\ ~Plain(s.c) => s.c \in ToSet(Indirect(feed[i], osm))
      /\ \A i \in position + 1 .. position + k : \A c \in In(i) :
           IsWritten(c, KnownNodes(feed[i], osm), GaveUp(feed[i], osm)) =>
             \E s \in ToSet(W) : s.c = c
  BY <1>1, <1>3, <1>4, WorkersFacts DEF ProgramTyped
<1>6. batch' = W
  BY <1>1, <1>4
<1>7. BatchShape'
  <2>1. ASSUME NEW s \in ToSet(W), Plain(s.c)
        PROVE  \E i \in DOMAIN feed : i > position /\ i <= position + k /\ s.c \in In(i)
    BY <1>3, <1>5, <2>1
  <2>2. ASSUME NEW s \in ToSet(W), ~Plain(s.c)
        PROVE  \E c \in Edits : c.kind = "node" /\ c.action = "modify"
    <3>1. PICK i \in DOMAIN feed : s.c \in ToSet(Indirect(feed[i], osm))
      BY <1>5, <2>2
    <3>2. Indirect(feed[i], osm) # <<>>
      BY <3>1 DEF ToSet
    <3>3. \E c \in ToSet(feed[i]) : c.kind = "node" /\ c.action = "modify"
      BY <3>2, IndirectFacts DEF ProgramTyped
    <3> QED BY <3>3 DEF Edits
  <2>3. Edits' = Edits
    BY <1>1 DEF Edits
  <2> QED BY <1>1, <1>2, <1>5, <1>6, <2>1, <2>2, <2>3 DEF BatchShape
<1>8. \A c : Late(c)' <=> Late(c)
  BY <1>1, <1>2 DEF Late
<1>9. ASSUME NEW c \in Log, LateInTxn(c)
      PROVE  Late(c)
  <2>1. CASE \E i \in Places : i > position + taken /\ c \in In(i)
    BY <1>1, <1>3, <2>1 DEF Late
  <2>2. CASE \E s \in ToSet(batch) : s.c = c
    <3>1. PICK s \in ToSet(batch) : s.c = c
      BY <2>2
    <3>2. Plain(c)
      BY PlaceFacts, ChangeTypes DEF FeedInv, Plain
    <3>3. PICK i \in DOMAIN feed : i > position /\ i <= position + taken
      BY <3>1, <3>2 DEF BatchShape
    <3> QED BY <1>1, <1>3, <3>3
  <2> QED BY <1>9, <2>1, <2>2 DEF LateInTxn
<1>10. ASSUME NEW i \in DOMAIN feed, NEW c \in In(i), i > position,
              IsWritten(c, KnownNodes(feed[i], osm), GaveUp(feed[i], osm))
       PROVE  LateInTxn(c)'
  <2>1. i \in Places
    BY PlaceFacts DEF FeedInv
  <2>2. CASE i <= position + k
    <3>1. i \in position + 1 .. position + k
      BY <1>1, <1>3, <1>10, <2>2
    <3> QED BY <1>5, <1>6, <1>10, <3>1 DEF LateInTxn
  <2>3. CASE ~(i <= position + k)
    <3>1. i > position' + taken'
      BY <1>1, <1>3, <2>3
    <3> QED BY <1>2, <2>1, <3>1 DEF LateInTxn
  <2> QED BY <2>2, <2>3
<1>11. ASSUME NEW i \in Places, NEW c \in In(i), i \notin DOMAIN feed
       PROVE  LateInTxn(c)'
  <2>1. i > position' + taken'
    BY <1>1, <1>3, <1>11, PlaceFacts DEF FeedInv
  <2> QED BY <1>2, <2>1 DEF LateInTxn
<1>12. \A s \in ToSet(W) : s \in StatementSet
  BY <1>5, ToSetFinite
<1> QED BY <1>6, <1>7, <1>8, <1>9, <1>10, <1>11, <1>12

\* A statement run is one less that is late.
LEMMA ExecFacts ==
  ASSUME FeedInv, ProgramTyped, BatchShape, Exec
  PROVE  /\ BatchShape'
         /\ UNCHANGED <<world, open, feed, osm, position, taken, restarts>>
         /\ txn' = Apply(txn, Head(batch))
         /\ Head(batch) \in StatementSet /\ Head(batch) \in ToSet(batch)
         /\ ToSet(batch') \subseteq ToSet(batch)
         /\ ToSet(batch) = {Head(batch)} \cup ToSet(batch')
         /\ \A c : Late(c)' <=> Late(c)
         /\ \A c : LateInTxn(c) => LateInTxn(c)' \/ c = Head(batch).c
         /\ \A s \in ToSet(batch') :
              Same(s.c, Head(batch).c) /\ Plain(s.c) /\ Plain(Head(batch).c) =>
                Head(batch).c.version < s.c.version
<1>1. /\ batch # <<>> /\ txn' = Apply(txn, Head(batch)) /\ batch' = Tail(batch)
      /\ UNCHANGED <<world, open, feed, osm, position, taken, restarts>>
  BY DEF Exec
<1>2. Places' = Places /\ \A i : In(i)' = In(i)
  BY <1>1, SameFeed
<1>3. PICK rest : rest = Tail(batch)
  OBVIOUS
<1>4. /\ Head(batch) \in StatementSet /\ Head(batch) \in ToSet(batch)
      /\ ToSet(rest) \subseteq ToSet(batch)
      /\ ToSet(batch) = {Head(batch)} \cup ToSet(rest)
      /\ RisingBatch(rest)
      /\ \A s \in ToSet(rest) :
           Same(s.c, Head(batch).c) /\ Plain(s.c) /\ Plain(Head(batch).c) =>
             Head(batch).c.version < s.c.version
  BY <1>1, <1>3, BatchFacts DEF ProgramTyped, BatchShape
<1>5. batch' = rest
  BY <1>1, <1>3
<1>6. Edits' = Edits
  BY <1>1 DEF Edits
<1>7. BatchShape'
  BY <1>1, <1>2, <1>4, <1>5, <1>6 DEF BatchShape
<1>8. \A c : LateInTxn(c) => LateInTxn(c)' \/ c = Head(batch).c
  BY <1>1, <1>2, <1>4, <1>5 DEF LateInTxn
<1> QED BY <1>1, <1>2, <1>4, <1>5, <1>7, <1>8 DEF Late

LEMMA CommitFacts ==
  ASSUME FeedInv, ProgramTyped, Commit
  PROVE  /\ BatchShape'
         /\ UNCHANGED <<world, open, feed, txn, restarts>>
         /\ batch' = <<>> /\ osm' = txn
         /\ \A c : Late(c)' <=> LateInTxn(c)
         /\ \A c : LateInTxn(c)' <=> LateInTxn(c)
<1>1. /\ batch = <<>> /\ batch' = <<>> /\ osm' = txn /\ position' = position + taken /\ taken' = 0
      /\ UNCHANGED <<world, open, feed, txn, restarts>>
  BY DEF Commit
<1>2. Places' = Places /\ \A i : In(i)' = In(i)
  BY <1>1, SameFeed
<1>3. ToSet(<<>>) = {} /\ RisingBatch(<<>>)
  BY DEF ToSet, RisingBatch
<1>4. position' + taken' = position + taken
  BY <1>1 DEF ProgramTyped
<1>5. BatchShape'
  BY <1>1, <1>3 DEF BatchShape
<1> QED BY <1>1, <1>2, <1>3, <1>4, <1>5 DEF Late, LateInTxn

LEMMA RestartFacts ==
  ASSUME FeedInv, ProgramTyped, Restart
  PROVE  /\ BatchShape'
         /\ UNCHANGED <<world, open, feed, osm>>
         /\ batch' = <<>> /\ txn' = osm /\ restarts' = restarts + 1 /\ taken' = 0
         /\ position' \in Nat /\ position' <= position
         /\ \A c : Late(c) => Late(c)' /\ LateInTxn(c)'
<1>1. PICK p \in 0 .. position : position' = p
  BY DEF Restart
<1>2. /\ batch' = <<>> /\ txn' = osm /\ restarts' = restarts + 1 /\ taken' = 0
      /\ UNCHANGED <<world, open, feed, osm>>
  BY DEF Restart
<1>3. Places' = Places /\ \A i : In(i)' = In(i)
  BY <1>2, SameFeed
<1>4. ToSet(<<>>) = {} /\ RisingBatch(<<>>)
  BY DEF ToSet, RisingBatch
<1>5. position' \in Nat /\ position' <= position /\ position' + taken' = position'
      /\ position \in Nat
  BY <1>1, <1>2 DEF ProgramTyped
<1>6. BatchShape'
  BY <1>2, <1>4 DEF BatchShape
<1>7. \A i \in Places : i \in Nat
  BY PlaceFacts DEF FeedInv
<1> QED BY <1>2, <1>3, <1>5, <1>6, <1>7 DEF Late, LateInTxn

LEMMA StepBatch ==
  ASSUME FeedInv, ProgramTyped, BatchShape, [Next]_vars
  PROVE  BatchShape'
<1>1. ASSUME UNCHANGED <<position, taken, batch>>,
             \A i \in DOMAIN feed : i \in DOMAIN feed' /\ In(i)' = In(i) /\ feed'[i] = feed[i]
      PROVE  BatchShape'
  <2>1. Edits \subseteq Edits'
    BY <1>1 DEF Edits
  <2> QED BY <1>1, <2>1 DEF BatchShape
<1>2. CASE Edit
  <2>1. PICK c : Made(c)
    BY <1>2, EditMade DEF FeedInv
  <2>2. UNCHANGED <<position, taken, batch>>
    BY <2>1 DEF Made, program
  <2>3. \A i \in DOMAIN feed : i \in Places /\ i # Len(feed) + 1
    BY PlaceFacts DEF FeedInv, FeedShape
  <2>4. feed' = feed /\ \A i \in Places : In(i)' = IF i = Len(feed) + 1 THEN In(i) \cup {c} ELSE In(i)
    BY <2>1, MadeFacts DEF FeedInv
  <2> QED BY <1>1, <2>2, <2>3, <2>4
<1>3. CASE Publish
  <2>1. UNCHANGED <<position, taken, batch>>
    BY <1>3 DEF Publish, program
  <2> QED BY <1>1, <1>3, <2>1, PublishFacts, PlaceFacts DEF FeedInv
<1>4. CASE Works
  BY <1>4, BeginFacts, ExecFacts, CommitFacts, RestartFacts DEF Works
<1>5. CASE UNCHANGED vars
  <2>1. UNCHANGED <<feed, open>> /\ UNCHANGED <<position, taken, batch>>
    BY <1>5 DEF vars
  <2> QED BY <1>1, <2>1 DEF In
<1> QED BY <1>2, <1>3, <1>4, <1>5, StepCases

\* A step that begins a round makes statements of all changes of a kind in its files.
AllWritten(kind) ==
  (\E k \in 1 .. FilesAtOnce : BeginRound(k)) =>
    \A c \in Log : c.kind = kind /\ Late(c) => LateInTxn(c)'

LEMMA WrittenRound ==
  ASSUME FeedInv, ProgramTyped, BatchShape, NEW kind,
         \A i \in DOMAIN feed : \A c \in In(i) :
           i > position /\ c.kind = kind =>
             IsWritten(c, KnownNodes(feed[i], osm), GaveUp(feed[i], osm))
  PROVE  AllWritten(kind)
<1> SUFFICES ASSUME NEW k \in 1 .. FilesAtOnce, BeginRound(k),
                    NEW c \in Log, c.kind = kind, Late(c)
             PROVE  LateInTxn(c)'
  BY DEF AllWritten
<1>1. PICK i \in Places : i > position /\ c \in In(i)
  BY DEF Late
<1> QED BY <1>1, BeginFacts

\* It is kept as long as rounds write all changes of the kind.
LEMMA UpToDateStep ==
  ASSUME FeedInv, ProgramTyped, BatchShape, [Next]_vars, NEW kind, UpToDate(kind), AllWritten(kind)
  PROVE  UpToDate(kind)'
<1> SUFFICES ASSUME NEW s \in ToSet(batch'), NEW d \in Log',
                    s.c.kind = kind, Plain(s.c), Same(s.c, d), d.version > s.c.version
             PROVE  LateInTxn(d)'
  BY DEF UpToDate
<1>1. CASE Edit
  <2>1. PICK c : Made(c)
    BY <1>1, EditMade DEF FeedInv
  <2>2. batch' = batch
    BY <2>1 DEF Made, program
  <2>3. d \in Log \/ d = c
    BY <2>1, MadeFacts DEF FeedInv
  <2> QED BY <2>1, <2>2, <2>3, LateMade DEF UpToDate
<1>2. CASE Publish
  <2>1. batch' = batch
    BY <1>2 DEF Publish, program
  <2>2. Log' = Log
    BY <1>2, PublishFacts DEF FeedInv
  <2> QED BY <1>2, <2>1, <2>2, LatePublish DEF UpToDate
<1>3. ASSUME NEW k \in 1 .. FilesAtOnce, BeginRound(k) PROVE LateInTxn(d)'
  <2>1. UNCHANGED <<world, open, feed, osm, position>>
    BY <1>3 DEF BeginRound
  <2>2. BatchShape' /\ s \in StatementSet
    BY <1>3, BeginFacts
  <2>4. PICK i \in DOMAIN feed : i > position /\ s.c \in In(i)
    BY <2>1, <2>2, SameFeed DEF BatchShape
  <2>5. d \in Log
    BY <2>1, SameFeed
  <2>6. PICK j \in Places : d \in In(j)
    BY <2>5 DEF Log
  <2>7. i \in Places /\ i \in Nat /\ j \in Nat /\ d.kind = kind
        /\ s.c \in Changes /\ d \in Changes
    BY <2>4, <2>5, <2>6, PlaceFacts DEF FeedInv, Same
  <2>8. ~(j < i)
    <3>1. j < i => d.version < s.c.version
      BY <2>4, <2>6, <2>7 DEF FeedInv, FeedRises, Same
    <3>2. d.version \in Nat /\ s.c.version \in Nat
      BY <2>7, ChangeTypes
    <3> QED BY <3>1, <3>2
  <2>9. j > position
    BY <2>4, <2>7, <2>8 DEF ProgramTyped
  <2>10. Late(d)
    BY <2>6, <2>9 DEF Late
  <2> QED BY <1>3, <2>5, <2>7, <2>10 DEF AllWritten
<1>4. CASE Exec
  <2>1. /\ UNCHANGED <<world, open, feed>>
        /\ ToSet(batch') \subseteq ToSet(batch) /\ Head(batch) \in StatementSet
        /\ LateInTxn(d) => LateInTxn(d)' \/ d = Head(batch).c
        /\ Same(s.c, Head(batch).c) /\ Plain(s.c) /\ Plain(Head(batch).c) =>
             Head(batch).c.version < s.c.version
    BY <1>4, ExecFacts
  <2>2. d \in Log /\ s \in ToSet(batch)
    BY <2>1, SameFeed
  <2>3. s \in StatementSet
    BY <2>2, ToSetFinite DEF ProgramTyped
  <2>4. d # Head(batch).c
    <3>1. SUFFICES ASSUME d = Head(batch).c PROVE FALSE
      OBVIOUS
    <3>2. d \in Changes /\ s.c \in Changes
      BY <2>2, <2>3, PlaceFacts DEF FeedInv, StatementSet, Moves, Plain
    <3>3. Plain(s.c) /\ Plain(d) /\ d.version \in Nat /\ s.c.version \in Nat
      BY <3>2, ChangeTypes DEF Plain
    <3>4. d.version < s.c.version
      BY <2>1, <3>1, <3>3
    <3> QED BY <3>3, <3>4
  <2> QED BY <2>1, <2>2, <2>4 DEF UpToDate
<1>5. CASE Commit \/ Restart
  <2>1. batch' = <<>>
    BY <1>5 DEF Commit, Restart
  <2> QED BY <2>1 DEF ToSet
<1>6. CASE UNCHANGED vars
  <2>1. UNCHANGED <<world, open, feed>> /\ UNCHANGED <<position, taken, batch>>
    BY <1>6 DEF vars
  <2>2. Log' = Log /\ (LateInTxn(d)' <=> LateInTxn(d))
    BY <2>1, SameFeed DEF LateInTxn
  <2> QED BY <2>1, <2>2 DEF UpToDate
<1> QED BY <1>1, <1>2, <1>3, <1>4, <1>5, <1>6, StepCases DEF Works

\* What an edit does to the nodes and ways of OSM.
LEMMA MadeWorld ==
  ASSUME FeedInv, NEW c, Made(c)
  PROVE  /\ \A n \in Nodes :
              IF c.kind = "node" /\ c.id = n
              THEN world.nodes[n]'.version = c.version /\ c.version = world.nodes[n].version + 1
              ELSE world.nodes[n]' = world.nodes[n]
         /\ \A w \in Ways :
              IF c.kind = "way" /\ c.id = w
              THEN world.ways[w]'.version = c.version /\ c.version = world.ways[w].version + 1
              ELSE world.ways[w]' = world.ways[w]
<1>1. /\ Thing(c)'.version = c.version /\ c.version = Thing(c).version + 1
      /\ \A d \in Changes : Same(d, c) => Thing(d)' = Thing(c)' /\ Thing(d) = Thing(c)
      /\ \A d \in Changes : ~Same(d, c) => Thing(d)' = Thing(d)
  BY MadeFacts DEF FeedInv
<1>2. ASSUME NEW n \in Nodes
      PROVE  IF c.kind = "node" /\ c.id = n
             THEN world.nodes[n]'.version = c.version /\ c.version = world.nodes[n].version + 1
             ELSE world.nodes[n]' = world.nodes[n]
  <2>1. PICK d : d = NodeChange(n, "remove", 1, NoLoc)
    OBVIOUS
  <2>2. d \in Changes /\ d.kind = "node" /\ d.id = n
    BY <2>1 DEF NodeChange, Changes, NodeChanges
  <2>3. Thing(d) = world.nodes[n] /\ Thing(d)' = world.nodes[n]'
    BY <2>2 DEF Thing
  <2> QED BY <1>1, <2>2, <2>3 DEF Same
<1>3. ASSUME NEW w \in Ways
      PROVE  IF c.kind = "way" /\ c.id = w
             THEN world.ways[w]'.version = c.version /\ c.version = world.ways[w].version + 1
             ELSE world.ways[w]' = world.ways[w]
  <2>1. PICK d : d = WayChange(w, "remove", 1, <<>>)
    OBVIOUS
  <2>2. d \in Changes /\ d.kind = "way" /\ d.id = w
    BY <2>1 DEF WayChange, Changes, WayChanges
  <2>3. Thing(d) = world.ways[w] /\ Thing(d)' = world.ways[w]'
    BY <2>2 DEF Thing
  <2> QED BY <1>1, <2>2, <2>3 DEF Same
<1> QED BY <1>2, <1>3

LEMMA RowFacts ==
  ASSUME FeedInv, ProgramTyped, NEW n \in Nodes
  PROVE  /\ world.nodes[n].version \in Nat
         /\ osm.nodes[n] \in NodeRows /\ txn.nodes[n] \in NodeRows
         /\ osm.nodes[n].version \in Nat /\ txn.nodes[n].version \in Nat
BY DEF FeedInv, FeedShape, Worlds, ProgramTyped, TablesTyped, Databases, NodeRows

\* A statement on a node: the row it leaves is not newer than OSM, and right if it was
\* made of the newest change.
LEMMA ExecNode ==
  ASSUME FeedInv, ProgramTyped, BatchShape, NodesNotNewer, Exec, NEW n \in Nodes,
         Head(batch).c.kind = "node", Head(batch).c.id = n
  PROVE  /\ txn'.nodes[n].version <= world.nodes[n].version
         /\ txn'.nodes[n].version = world.nodes[n].version /\ txn'.nodes[n].version > 0 =>
              txn'.nodes[n] = Target(n)
         /\ Head(batch).c \in Log
         /\ NewestOf(Head(batch).c, n) => txn'.nodes[n] = Target(n)
<1>1. PICK s : s = Head(batch)
  OBVIOUS
<1>2. s \in StatementSet /\ s \in ToSet(batch) /\ txn' = Apply(txn, s)
  BY <1>1, ExecFacts
<1>3. PICK c \in Changes : c = s.c
  BY <1>1, <1>2 DEF StatementSet, Moves
<1>4. c.version \in Nat /\ c.version > 0 /\ Plain(c) /\ c.kind = "node" /\ c.id = n
  BY <1>1, <1>3, ChangeTypes DEF Plain
<1>5. c \in Log
  <2>1. PICK i \in DOMAIN feed : c \in In(i)
    BY <1>2, <1>3, <1>4 DEF BatchShape
  <2> QED BY <2>1, PlaceFacts DEF FeedInv, Log
<1>6. /\ c.version <= world.nodes[n].version
      /\ c.version = world.nodes[n].version =>
           /\ c.action = "remove" <=> ~world.nodes[n].there
           /\ c.action # "remove" => c.loc = world.nodes[n].loc
  BY <1>4, <1>5 DEF FeedInv, FeedTells, Matches, Thing
<1>7. txn'.nodes[n] = IF c.action = "remove" THEN NoNode
                      ELSE IF txn.nodes[n].version < c.version
                        THEN [version |-> c.version, loc |-> c.loc]
                      ELSE txn.nodes[n]
  BY <1>1, <1>2, <1>3, <1>4, ApplyNode DEF ProgramTyped
<1>8. /\ world.nodes[n].version \in Nat /\ txn.nodes[n].version \in Nat
      /\ txn.nodes[n].version <= world.nodes[n].version
      /\ txn.nodes[n].version = world.nodes[n].version /\ txn.nodes[n].version > 0 =>
           txn.nodes[n] = Target(n)
  BY RowFacts DEF NodesNotNewer
<1>9. CASE c.action = "remove"
  <2>1. txn'.nodes[n] = NoNode /\ txn'.nodes[n].version = 0
    BY <1>7, <1>9 DEF NoNode
  <2> QED BY <1>1, <1>3, <1>4, <1>5, <1>6, <1>8, <1>9, <2>1 DEF Target, NewestOf
<1>10. CASE c.action # "remove" /\ txn.nodes[n].version < c.version
  <2>1. /\ txn'.nodes[n] = [version |-> c.version, loc |-> c.loc]
        /\ txn'.nodes[n].version = c.version
    BY <1>7, <1>10
  <2>2. c.version = world.nodes[n].version => txn'.nodes[n] = Target(n)
    BY <1>6, <1>10, <2>1 DEF Target
  <2> QED BY <1>1, <1>3, <1>5, <1>6, <2>1, <2>2 DEF NewestOf
<1>11. CASE c.action # "remove" /\ ~(txn.nodes[n].version < c.version)
  <2>1. txn'.nodes[n] = txn.nodes[n]
    BY <1>7, <1>11
  <2>2. c.version = world.nodes[n].version => txn.nodes[n].version = world.nodes[n].version
                                              /\ txn.nodes[n].version > 0
    BY <1>4, <1>6, <1>8, <1>11
  <2> QED BY <1>1, <1>3, <1>5, <1>8, <2>1, <2>2 DEF NewestOf
<1> QED BY <1>9, <1>10, <1>11

\* A statement on something else leaves the row of a node alone.
LEMMA ExecElse ==
  ASSUME FeedInv, ProgramTyped, BatchShape, Exec, NEW n \in Nodes,
         ~(Head(batch).c.kind = "node" /\ Head(batch).c.id = n)
  PROVE  txn'.nodes[n] = txn.nodes[n]
<1>1. Head(batch) \in StatementSet /\ txn' = Apply(txn, Head(batch)) /\ TablesTyped(txn)
  BY ExecFacts DEF ProgramTyped
<1>2. Head(batch).c.kind \in {"node", "way"}
  BY <1>1, ChangeTypes DEF StatementSet, Moves
<1> QED BY <1>1, <1>2, ApplyNode, ApplyWay

LEMMA NodesNotNewerStep ==
  ASSUME FeedInv, ProgramTyped, BatchShape, NodesNotNewer, [Next]_vars
  PROVE  NodesNotNewer'
<1>1. CASE Edit
  <2>1. PICK c : Made(c)
    BY <1>1, EditMade DEF FeedInv
  <2>2. UNCHANGED <<osm, txn>>
    BY <2>1 DEF Made, program
  <2>3. ASSUME NEW n \in Nodes, NEW row \in {osm.nodes[n], txn.nodes[n]}
        PROVE  /\ row.version <= world.nodes[n]'.version
               /\ row.version = world.nodes[n]'.version /\ row.version > 0 => row = Target(n)'
    <3>1. row.version \in Nat /\ world.nodes[n].version \in Nat
          /\ row.version <= world.nodes[n].version
          /\ (row.version = world.nodes[n].version /\ row.version > 0 => row = Target(n))
      BY RowFacts DEF NodesNotNewer
    <3>2. CASE c.kind = "node" /\ c.id = n
      <4>1. world.nodes[n]'.version = world.nodes[n].version + 1
        BY <2>1, <3>2, MadeWorld
      <4>2. row.version < world.nodes[n]'.version
        BY <3>1, <4>1
      <4> QED BY <3>1, <4>1, <4>2
    <3>3. CASE ~(c.kind = "node" /\ c.id = n)
      <4>1. world.nodes[n]' = world.nodes[n]
        BY <2>1, <3>3, MadeWorld
      <4> QED BY <3>1, <4>1 DEF Target
    <3> QED BY <3>2, <3>3
  <2> QED BY <2>2, <2>3 DEF NodesNotNewer
<1>2. CASE Exec
  <2>1. UNCHANGED <<world, osm>>
    BY <1>2, ExecFacts
  <2>2. ASSUME NEW n \in Nodes
        PROVE  /\ txn'.nodes[n].version <= world.nodes[n].version
               /\ txn'.nodes[n].version = world.nodes[n].version /\ txn'.nodes[n].version > 0 =>
                    txn'.nodes[n] = Target(n)
    <3>1. CASE Head(batch).c.kind = "node" /\ Head(batch).c.id = n
      BY <1>2, <3>1, ExecNode
    <3>2. CASE ~(Head(batch).c.kind = "node" /\ Head(batch).c.id = n)
      BY <1>2, <3>2, ExecElse DEF NodesNotNewer
    <3> QED BY <3>1, <3>2
  <2> QED BY <2>1, <2>2 DEF NodesNotNewer, Target
<1>3. CASE UNCHANGED world /\ osm' \in {osm, txn} /\ txn' \in {osm, txn}
  BY <1>3 DEF NodesNotNewer, Target
<1>4. Publish \/ (\E k \in 1 .. FilesAtOnce : BeginRound(k)) \/ Commit \/ Restart \/ UNCHANGED vars
      => UNCHANGED world /\ osm' \in {osm, txn} /\ txn' \in {osm, txn}
  BY DEF Publish, BeginRound, Commit, Restart, vars, program
<1> QED BY <1>1, <1>2, <1>3, <1>4, StepCases DEF Works

LEMMA NodesFollowStep ==
  ASSUME FeedInv, ProgramTyped, BatchShape, UpToDate("node"), NodesNotNewer, NodesFollow, [Next]_vars
  PROVE  NodesFollow'
<1>1. CASE Edit
  <2>1. PICK c : Made(c)
    BY <1>1, EditMade DEF FeedInv
  <2>2. UNCHANGED <<osm, txn>> /\ Log' = Log \cup {c}
    BY <2>1, MadeFacts DEF Made, program, FeedInv
  <2>3. Late(c)' /\ LateInTxn(c)' /\ (\A d : Late(d) => Late(d)') /\ \A d : LateInTxn(d) => LateInTxn(d)'
    BY <2>1, LateMade
  <2>4. ASSUME NEW n \in Nodes
        PROVE  /\ osm.nodes[n] = Target(n)' \/ \E d \in Log' : NewestOf(d, n)' /\ Late(d)'
               /\ txn.nodes[n] = Target(n)' \/ \E d \in Log' : NewestOf(d, n)' /\ LateInTxn(d)'
    <3>1. CASE c.kind = "node" /\ c.id = n
      <4>1. NewestOf(c, n)'
        BY <2>1, <3>1, MadeWorld DEF NewestOf
      <4> QED BY <2>2, <2>3, <4>1
    <3>2. CASE ~(c.kind = "node" /\ c.id = n)
      <4>1. world.nodes[n]' = world.nodes[n]
        BY <2>1, <3>2, MadeWorld
      <4>2. Target(n)' = Target(n) /\ \A d : NewestOf(d, n)' <=> NewestOf(d, n)
        BY <4>1 DEF Target, NewestOf
      <4> QED BY <2>2, <2>3, <4>2 DEF NodesFollow
    <3> QED BY <3>1, <3>2
  <2> QED BY <2>2, <2>4 DEF NodesFollow
<1>2. ASSUME UNCHANGED world
      PROVE  \A n \in Nodes : Target(n)' = Target(n) /\ \A d : NewestOf(d, n)' <=> NewestOf(d, n)
  BY <1>2 DEF Target, NewestOf
<1>3. CASE Publish
  <2>1. UNCHANGED <<world, osm, txn>> /\ Log' = Log
    BY <1>3, PublishFacts DEF Publish, program, FeedInv
  <2> QED BY <1>2, <1>3, <2>1, LatePublish DEF NodesFollow
<1>4. ASSUME NEW k \in 1 .. FilesAtOnce, BeginRound(k) PROVE NodesFollow'
  <2>1. UNCHANGED <<world, open, feed, osm, txn>>
    BY <1>4 DEF BeginRound
  <2>2. /\ \A c : Late(c)' <=> Late(c)
        /\ \A c \in Log : LateInTxn(c) => Late(c)
        /\ \A i \in DOMAIN feed : \A c \in In(i) :
             /\ i > position
             /\ IsWritten(c, KnownNodes(feed[i], osm), GaveUp(feed[i], osm))
             => LateInTxn(c)'
        /\ \A i \in Places : \A c \in In(i) :
             i > position /\ i \notin DOMAIN feed => LateInTxn(c)'
    BY <1>4, BeginFacts
  <2>3. ASSUME NEW c \in Log, NEW n \in Nodes, NewestOf(c, n), Late(c)
        PROVE  LateInTxn(c)'
    <3>1. c.kind = "node"
      BY <2>3 DEF NewestOf
    <3>2. \A i : IsWritten(c, KnownNodes(feed[i], osm), GaveUp(feed[i], osm))
      BY <3>1 DEF IsWritten
    <3> QED BY <2>2, <2>3, <3>2 DEF Late
  <2>4. Log' = Log
    BY <2>1, SameFeed
  <2> QED BY <1>2, <2>1, <2>2, <2>3, <2>4 DEF NodesFollow
<1>5. CASE Exec
  <2>1. /\ UNCHANGED <<world, open, feed, osm>>
        /\ ToSet(batch) = {Head(batch)} \cup ToSet(batch')
        /\ \A c : Late(c)' <=> Late(c)
        /\ \A c : LateInTxn(c) => LateInTxn(c)' \/ c = Head(batch).c
        /\ Head(batch) \in ToSet(batch)
    BY <1>5, ExecFacts
  <2>2. Log' = Log
    BY <2>1, SameFeed
  <2>3. ASSUME NEW n \in Nodes
        PROVE  txn'.nodes[n] = Target(n) \/ \E c \in Log : NewestOf(c, n) /\ LateInTxn(c)'
    <3>1. CASE ~(Head(batch).c.kind = "node" /\ Head(batch).c.id = n)
      <4>1. txn'.nodes[n] = txn.nodes[n]
        BY <1>5, <3>1, ExecElse
      <4>2. \A c : NewestOf(c, n) => c # Head(batch).c
        BY <3>1 DEF NewestOf
      <4> QED BY <2>1, <4>1, <4>2 DEF NodesFollow
    <3>2. CASE Head(batch).c.kind = "node" /\ Head(batch).c.id = n
      <4>1. Head(batch).c \in Log /\ (NewestOf(Head(batch).c, n) => txn'.nodes[n] = Target(n))
        BY <1>5, <3>2, ExecNode
      <4>2. CASE NewestOf(Head(batch).c, n)
        BY <4>1, <4>2
      <4>3. CASE ~NewestOf(Head(batch).c, n)
        <5>1. PICK c : c = Head(batch).c
          OBVIOUS
        <5>2. c \in Log /\ c \in Changes /\ c.version \in Nat /\ c.kind = "node" /\ c.id = n
          BY <3>2, <4>1, <5>1, PlaceFacts, ChangeTypes DEF FeedInv
        <5>3. Thing(c) = world.nodes[n]
          BY <5>2 DEF Thing
        <5>4. c.version <= Thing(c).version /\ \E d \in Log : Same(c, d) /\ d.version = Thing(c).version
          BY <5>2 DEF FeedInv, FeedTells, Newest
        <5>5. PICK d \in Log : Same(c, d) /\ d.version = world.nodes[n].version
          BY <5>3, <5>4
        <5>6. NewestOf(d, n)
          BY <5>2, <5>5 DEF Same, NewestOf
        <5>7. c.version < d.version /\ d # c
          <6>1. c.version # world.nodes[n].version
            BY <4>3, <5>1, <5>2 DEF NewestOf
          <6>2. world.nodes[n].version \in Nat
            BY RowFacts
          <6> QED BY <5>2, <5>3, <5>4, <5>5, <6>1, <6>2
        <5>8. LateInTxn(d)
          <6>1. Plain(c)
            BY <5>2, ChangeTypes DEF Plain
          <6> QED BY <2>1, <5>1, <5>2, <5>5, <5>7, <6>1 DEF UpToDate
        <5> QED BY <2>1, <5>1, <5>6, <5>7, <5>8
      <4> QED BY <4>2, <4>3
    <3> QED BY <3>1, <3>2
  <2> QED BY <1>2, <2>1, <2>2, <2>3 DEF NodesFollow
<1>6. CASE Commit
  <2>1. /\ UNCHANGED <<world, open, feed, txn>> /\ osm' = txn
        /\ \A c : Late(c)' <=> LateInTxn(c)
        /\ \A c : LateInTxn(c)' <=> LateInTxn(c)
    BY <1>6, CommitFacts
  <2>2. Log' = Log
    BY <2>1, SameFeed
  <2> QED BY <1>2, <2>1, <2>2 DEF NodesFollow
<1>7. CASE Restart
  <2>1. /\ UNCHANGED <<world, open, feed, osm>> /\ txn' = osm
        /\ \A c : Late(c) => Late(c)' /\ LateInTxn(c)'
    BY <1>7, RestartFacts
  <2>2. Log' = Log
    BY <2>1, SameFeed
  <2> QED BY <1>2, <2>1, <2>2 DEF NodesFollow
<1>8. CASE UNCHANGED vars
  <2>1. UNCHANGED <<world, open, feed, osm, txn>> /\ UNCHANGED <<position, taken, batch>>
    BY <1>8 DEF vars
  <2>2. Log' = Log /\ (\A c : Late(c)' <=> Late(c)) /\ \A c : LateInTxn(c)' <=> LateInTxn(c)
    BY <2>1, SameFeed DEF Late, LateInTxn
  <2> QED BY <1>2, <2>1, <2>2 DEF NodesFollow
<1> QED BY <1>1, <1>3, <1>4, <1>5, <1>6, <1>7, <1>8, StepCases DEF Works

LEMMA InitNodes == Init => NodeInv
<1> SUFFICES ASSUME Init PROVE NodeInv
  OBVIOUS
<1>1. batch = <<>> /\ osm = Imported(world) /\ txn = osm /\ FeedShape
  BY InitFeed DEF Init, FeedInv
<1>2. BatchShape /\ UpToDate("node")
  BY <1>1 DEF BatchShape, UpToDate, RisingBatch, ToSet
<1>3. \A n \in Nodes : osm.nodes[n] = Target(n)
  BY <1>1 DEF Imported, Target
<1>4. ASSUME NEW n \in Nodes PROVE Target(n).version <= world.nodes[n].version
  BY <1>1 DEF Target, NoNode, FeedShape, Worlds
<1> QED BY <1>1, <1>2, <1>3, <1>4 DEF NodeInv, NodesNotNewer, NodesFollow

LEMMA StepNodes ==
  ASSUME FeedInv, ProgramTyped, NodeInv, [Next]_vars
  PROVE  NodeInv'
<1>1. BatchShape' /\ NodesNotNewer' /\ NodesFollow'
  BY StepBatch, NodesNotNewerStep, NodesFollowStep DEF NodeInv
<1>2. UpToDate("node")'
  <2>1. \A c : c.kind = "node" => \A known, gaveUp : IsWritten(c, known, gaveUp)
    BY DEF IsWritten
  <2>2. AllWritten("node")
    BY <2>1, WrittenRound DEF NodeInv
  <2> QED BY <2>2, UpToDateStep DEF NodeInv
<1> QED BY <1>1, <1>2 DEF NodeInv

\* Whenever the program has taken every file, the nodes it stores are those of OSM:
\* each of them, at its version and place, and no other; in rounds of any size, and
\* however often it was started again on files applied before.
THEOREM NodesTheorem == Spec => []NodesInStep
<1>1. FeedInv /\ ProgramTyped /\ NodeInv => NodesInStep
  <2> SUFFICES ASSUME FeedInv, ProgramTyped, NodeInv, InStep, NEW n \in Nodes
               PROVE  osm.nodes[n] = Target(n)
    BY DEF NodesInStep, Target
  <2> QED BY LateInStep DEF NodeInv, NodesFollow
<1> QED
  BY InitTyped, InitNodes, StepFeed, StepTyped, StepNodes, <1>1, PTL DEF Spec

-----------------------------------------------------------------------------
(* The ways, and the causes for which one is lost.                         *)

NoCause == ~MovedWhileWritten /\ ~OnNewNodes /\ ~BareDelete /\ ~OnGoneNodes /\ ~ShortRing

IsNode(c, n, action) == c.kind = "node" /\ c.id = n /\ c.action = action

WritesOn(c, n) == Writes(c) /\ n \in ToSet(c.refs)

\* A way is written on nodes that were there: whatever made them is not in a later file,
\* and a node that had been deleted was made again.
NodesFirst ==
  /\ \A n \in Nodes, i, j \in Places : \A c \in In(i), d \in In(j) :
       IsNode(c, n, "create") /\ WritesOn(d, n) => i <= j
  /\ \A n \in Nodes : world.nodes[n].version = 0 => \A d \in Log : ~WritesOn(d, n)
  /\ \A n \in Nodes, i, j \in Places : \A c \in In(i), d \in In(j) :
       i < j /\ IsNode(c, n, "remove") /\ WritesOn(d, n) =>
         \E k \in Places : k <= j /\ \E e \in In(k) : IsNode(e, n, "modify")
  /\ \A n \in Nodes :
       world.nodes[n].there /\ (\E c \in Log : IsNode(c, n, "remove")) =>
         \E c \in Log : IsNode(c, n, "modify")

\* Why a node has no row: OSM never had it, or the program was started again after a file
\* that deletes it.
Excused(n) ==
  \/ world.nodes[n].version = 0
  \/ restarts > 0 /\ \E c \in Edits : IsNode(c, n, "remove")

\* The tables have seen it deleted, and have still to see whatever was done to it since.
SeenGone(n) ==
  \E i \in Places : i <= position /\ \E r \in In(i) :
    IsNode(r, n, "remove") /\ \A c \in Log : Same(c, r) /\ c.version > r.version => Late(c)

SeenGoneInTxn(n) ==
  \E i \in Places : i <= position + taken /\ \E r \in In(i) :
    IsNode(r, n, "remove") /\ \A c \in Log : Same(c, r) /\ c.version > r.version => LateInTxn(c)

\* A node that has no row is excused, is still to be made, or was seen deleted.
NodesMissing ==
  \A n \in Nodes :
    /\ \/ osm.nodes[n].version > 0 \/ Excused(n) \/ SeenGone(n)
       \/ \E c \in Log : IsNode(c, n, "create") /\ Late(c)
    /\ \/ txn.nodes[n].version > 0 \/ Excused(n) \/ SeenGoneInTxn(n)
       \/ \E c \in Log : IsNode(c, n, "create") /\ LateInTxn(c)

\* Between rounds there is no transaction.
RoundShape == Idle => batch = <<>> /\ txn = osm

\* The feed only grows, and restarts are not taken back.
LEMMA EditsStay ==
  ASSUME FeedInv, ProgramTyped, [Next]_vars
  PROVE  /\ DOMAIN feed \subseteq DOMAIN feed' /\ \A i \in DOMAIN feed : feed'[i] = feed[i]
         /\ Edits \subseteq Edits'
         /\ restarts' \in Nat /\ restarts' >= restarts
         /\ OnGoneNodes => OnGoneNodes'
<1>1. /\ DOMAIN feed \subseteq DOMAIN feed' /\ \A i \in DOMAIN feed : feed'[i] = feed[i]
  <2>1. CASE Edit
    <3>1. PICK c : Made(c)
      BY <2>1, EditMade DEF FeedInv
    <3> QED BY <3>1, MadeFacts DEF FeedInv
  <2>2. CASE Publish
    BY <2>2, PublishFacts DEF FeedInv
  <2>3. CASE Works \/ UNCHANGED vars
    BY <2>3, WorkFacts
  <2> QED BY <2>1, <2>2, <2>3, StepCases
<1>2. restarts' = restarts \/ restarts' = restarts + 1
  BY DEF Next, vars, program, Publish, DropNode, EditNode, DropWay, EditWay, BeginRound, Exec,
         Commit, Restart
<1>3. restarts \in Nat /\ restarts' \in Nat /\ restarts' >= restarts
  BY <1>2 DEF ProgramTyped
<1>4. Edits \subseteq Edits'
  BY <1>1 DEF Edits
<1>5. OnGoneNodes => OnGoneNodes'
  BY <1>3, <1>4 DEF OnGoneNodes
<1> QED BY <1>1, <1>3, <1>4, <1>5

LEMMA CausesStay ==
  ASSUME FeedInv, ProgramTyped, [Next]_vars, NoCause'
  PROVE  NoCause
<1>1. /\ DOMAIN feed \subseteq DOMAIN feed' /\ \A i \in DOMAIN feed : feed'[i] = feed[i]
      /\ Edits \subseteq Edits' /\ (OnGoneNodes => OnGoneNodes')
  BY EditsStay
<1>2. MovedWhileWritten => MovedWhileWritten'
  BY <1>1 DEF MovedWhileWritten
<1>3. OnNewNodes => OnNewNodes'
  <2> SUFFICES ASSUME OnNewNodes PROVE OnNewNodes'
    OBVIOUS
  <2>1. PICK i \in DOMAIN feed, j \in DOMAIN feed :
          i < j /\ \E made \in ToSet(feed[i]), c \in ToSet(feed[j]) :
            /\ made.kind = "node" /\ made.action = "create"
            /\ c.kind = "way" /\ made.id \in ToSet(c.refs)
    BY DEF OnNewNodes
  <2>2. feed'[i] = feed[i] /\ feed'[j] = feed[j] /\ i \in DOMAIN feed' /\ j \in DOMAIN feed'
    BY <1>1
  <2> QED BY <2>1, <2>2 DEF OnNewNodes
<1>4. BareDelete => BareDelete'
  BY <1>1 DEF BareDelete
<1>5. ShortRing => ShortRing'
  BY <1>1 DEF ShortRing
<1> QED BY <1>1, <1>2, <1>3, <1>4, <1>5 DEF NoCause

LEMMA InitFirst == Init => NodesFirst /\ NodesMissing /\ RoundShape
<1> SUFFICES ASSUME Init PROVE NodesFirst /\ NodesMissing /\ RoundShape
  OBVIOUS
<1>1. Log = {} /\ FeedShape
  BY InitFeed DEF FeedInv
<1>2. \A i \in Places : In(i) = {}
  BY <1>1 DEF Log
<1>3. NodesFirst
  BY <1>1, <1>2 DEF NodesFirst
<1>4. PICK loc \in Locs, made \in BOOLEAN, mapped \in BOOLEAN, r \in Refs :
        world = [ nodes |-> [n \in Nodes |-> FirstNode(made, loc)],
                  ways |-> [w \in Ways |-> FirstWay(mapped, r)] ]
  BY DEF Init
<1>5. osm = Imported(world) /\ txn = osm
  BY DEF Init
<1>6. ASSUME NEW n \in Nodes PROVE osm.nodes[n].version > 0 \/ world.nodes[n].version = 0
  <2>1. osm.nodes[n] = IF world.nodes[n].there
          THEN [version |-> world.nodes[n].version, loc |-> world.nodes[n].loc] ELSE NoNode
    BY <1>5 DEF Imported
  <2>2. world.nodes[n] = FirstNode(made, loc)
    BY <1>4
  <2> QED BY <2>1, <2>2 DEF FirstNode
<1>7. NodesMissing
  BY <1>5, <1>6 DEF NodesMissing, Excused
<1> QED BY <1>3, <1>7 DEF Init, RoundShape

LEMMA NodesFirstMade ==
  ASSUME FeedInv, NodesFirst, NEW e, Made(e)
  PROVE  NodesFirst'
<1> DEFINE last == Len(feed) + 1
<1>1. /\ Places' = Places /\ last \in Places
      /\ \A i \in Places : In(i)' = IF i = last THEN In(i) \cup {e} ELSE In(i)
      /\ Log' = Log \cup {e} /\ e \in Changes /\ Log \subseteq Changes
      /\ \A i \in Places : i \in Nat /\ i <= last
  BY MadeFacts, PlaceFacts DEF FeedInv
<1>2. \A n \in Nodes :
        IF e.kind = "node" /\ e.id = n
        THEN world.nodes[n]'.version = e.version /\ e.version = world.nodes[n].version + 1
        ELSE world.nodes[n]' = world.nodes[n]
  BY MadeWorld
<1>3. \A n \in Nodes : /\ world.nodes[n].version \in Nat
                       /\ world.nodes[n].there => world.nodes[n].version > 0
  BY DEF FeedInv, FeedShape, Worlds
<1>4. ASSUME NEW n \in Nodes, e.kind = "node", e.id = n, e.action # "remove"
      PROVE  IF world.nodes[n].version = 0 THEN IsNode(e, n, "create") ELSE IsNode(e, n, "modify")
  <2>1. e.action = Action(Thing(e).version) /\ Thing(e) = world.nodes[n]
    BY <1>4 DEF Made, Thing
  <2> QED BY <1>4, <2>1 DEF Action, IsNode
<1>5. ASSUME NEW n, WritesOn(e, n)
      PROVE  n \in Nodes /\ world.nodes[n].there
  <2>1. e.kind = "way" /\ e.action # "remove" /\ n \in ToSet(e.refs)
    BY <1>5 DEF WritesOn, Writes
  <2>2. world.nodes[n].there
    BY <2>1 DEF Made
  <2>3. e.refs \in Seq(Nodes)
    BY <1>1, <2>1, ChangeTypes
  <2> QED BY <2>1, <2>2, <2>3, ToSetFinite
<1>6. ASSUME NEW n \in Nodes, NEW c, IsNode(c, n, "create") \/ IsNode(c, n, "remove"),
             NEW d, WritesOn(d, n)
      PROVE  c # d
  BY <1>6 DEF IsNode, WritesOn, Writes
<1> HIDE DEF last
<1>7. ASSUME NEW n \in Nodes, NEW i \in Places, NEW j \in Places,
             NEW c \in In(i)', NEW d \in In(j)', IsNode(c, n, "create"), WritesOn(d, n)
      PROVE  i <= j
  <2>1. CASE j = last
    BY <1>1, <2>1
  <2>2. CASE j # last
    <3>1. d \in In(j) /\ d \in Log
      BY <1>1, <2>2 DEF Log
    <3>2. CASE c \in In(i)
      BY <1>7, <3>1, <3>2 DEF NodesFirst
    <3>3. CASE c = e
      <4>1. world.nodes[n].version = 0
        BY <1>4, <1>7, <3>3 DEF IsNode
      <4> QED BY <1>7, <3>1, <4>1 DEF NodesFirst
    <3> QED BY <1>1, <3>2, <3>3
  <2> QED BY <2>1, <2>2
<1>8. ASSUME NEW n \in Nodes, world.nodes[n]'.version = 0, NEW d \in Log'
      PROVE  ~WritesOn(d, n)
  <2>1. world.nodes[n]' = world.nodes[n]
    <3>1. world.nodes[n].version + 1 # 0
      BY <1>3
    <3> QED BY <1>2, <1>8, <3>1
  <2>2. CASE d \in Log
    BY <1>8, <2>1, <2>2 DEF NodesFirst
  <2>3. CASE d = e
    BY <1>3, <1>5, <1>8, <2>1, <2>3
  <2> QED BY <1>1, <2>2, <2>3
<1>9. ASSUME NEW n \in Nodes, NEW i \in Places, NEW j \in Places, i < j,
             NEW c \in In(i)', NEW d \in In(j)', IsNode(c, n, "remove"), WritesOn(d, n)
      PROVE  \E k \in Places : k <= j /\ \E x \in In(k)' : IsNode(x, n, "modify")
  <2>1. i # last /\ c \in In(i) /\ c \in Log
    BY <1>1, <1>9 DEF Log
  <2>2. CASE d \in In(j)
    <3>1. PICK k \in Places : k <= j /\ \E x \in In(k) : IsNode(x, n, "modify")
      BY <1>9, <2>1, <2>2 DEF NodesFirst
    <3> QED BY <1>1, <3>1
  <2>3. CASE d = e /\ j = last
    <3>1. world.nodes[n].there
      BY <1>5, <1>9, <2>3
    <3>2. PICK x \in Log : IsNode(x, n, "modify")
      BY <1>9, <2>1, <3>1 DEF NodesFirst
    <3>3. PICK k \in Places : x \in In(k)
      BY <3>2 DEF Log
    <3> QED BY <1>1, <2>3, <3>2, <3>3
  <2> QED BY <1>1, <2>2, <2>3
<1>10. ASSUME NEW n \in Nodes, world.nodes[n]'.there, NEW c \in Log', IsNode(c, n, "remove")
       PROVE  \E x \in Log' : IsNode(x, n, "modify")
  <2>1. CASE e.kind = "node" /\ e.id = n
    <3>1. e.action # "remove"
      <4>1. Thing(e)'.there <=> e.action # "remove"
        BY MadeFacts DEF FeedInv
      <4>2. Thing(e)' = world.nodes[n]'
        BY <2>1 DEF Thing
      <4> QED BY <1>10, <4>1, <4>2
    <3>2. c \in Log /\ c.kind = "node" /\ c.id = n
      BY <1>1, <1>10, <3>1 DEF IsNode
    <3>3. c.version <= world.nodes[n].version /\ c.version \in Nat /\ c.version > 0
      BY <1>1, <3>2, ChangeTypes DEF FeedInv, FeedTells, Thing
    <3>4. world.nodes[n].version # 0
      BY <1>3, <3>3
    <3> QED BY <1>1, <1>4, <2>1, <3>1, <3>4
  <2>2. CASE ~(e.kind = "node" /\ e.id = n)
    <3>1. c \in Log /\ world.nodes[n]' = world.nodes[n]
      BY <1>1, <1>2, <1>10, <2>2 DEF IsNode
    <3> QED BY <1>1, <1>10, <3>1 DEF NodesFirst
  <2> QED BY <2>1, <2>2
<1> QED BY <1>1, <1>7, <1>8, <1>9, <1>10 DEF NodesFirst

LEMMA NodesFirstStep ==
  ASSUME FeedInv, NodesFirst, [Next]_vars
  PROVE  NodesFirst'
<1>1. CASE Edit
  BY <1>1, EditMade, NodesFirstMade DEF FeedInv
<1>2. CASE Publish
  <2>1. /\ world' = world /\ Log' = Log
        /\ Places' = Places \cup {Len(feed) + 2}
        /\ \A i \in Places : In(i)' = In(i)
        /\ \A i \in Nat : i = Len(feed) + 2 => In(i)' = {}
    BY <1>2, PublishFacts DEF FeedInv
  <2>2. Len(feed) + 2 \in Nat
    BY DEF FeedInv, FeedShape
  <2>3. \A i \in Places' : \A c \in In(i)' : i \in Places /\ c \in In(i)
    BY <2>1, <2>2
  <2>4. ASSUME NEW n \in Nodes, NEW i \in Places', NEW j \in Places', NEW c \in In(i)', NEW d \in In(j)',
               IsNode(c, n, "create"), WritesOn(d, n)
        PROVE  i <= j
    BY <2>3, <2>4 DEF NodesFirst
  <2>5. ASSUME NEW n \in Nodes, NEW i \in Places', NEW j \in Places', NEW c \in In(i)', NEW d \in In(j)',
               i < j, IsNode(c, n, "remove"), WritesOn(d, n)
        PROVE  \E k \in Places' : k <= j /\ \E e \in In(k)' : IsNode(e, n, "modify")
    <3>1. PICK k \in Places : k <= j /\ \E e \in In(k) : IsNode(e, n, "modify")
      BY <2>3, <2>5 DEF NodesFirst
    <3> QED BY <2>1, <3>1
  <2>6. ASSUME NEW n \in Nodes
        PROVE  /\ world'.nodes[n].version = 0 => \A d \in Log' : ~WritesOn(d, n)
               /\ world'.nodes[n].there /\ (\E c \in Log' : IsNode(c, n, "remove")) =>
                    \E c \in Log' : IsNode(c, n, "modify")
    BY <2>1 DEF NodesFirst
  <2> QED BY <2>4, <2>5, <2>6 DEF NodesFirst
<1>3. CASE Works \/ UNCHANGED vars
  <2>1. UNCHANGED <<world, open, feed>>
    BY <1>3, WorkFacts
  <2>2. Places' = Places /\ Log' = Log /\ \A i : In(i)' = In(i)
    BY <2>1, SameFeed
  <2> QED BY <2>1, <2>2 DEF NodesFirst
<1> QED BY <1>1, <1>2, <1>3, StepCases

LEMMA RoundShapeStep ==
  ASSUME ProgramTyped, RoundShape, [Next]_vars
  PROVE  RoundShape'
<1>1. CASE UNCHANGED program
  BY <1>1 DEF program, RoundShape, Idle
<1>2. ASSUME NEW k \in 1 .. FilesAtOnce, BeginRound(k) PROVE RoundShape'
  <2>1. taken' = k /\ k # 0
    BY <1>2, RoundFacts DEF BeginRound
  <2> QED BY <2>1 DEF RoundShape, Idle
<1>3. CASE Exec
  BY <1>3 DEF Exec, RoundShape, Idle
<1>4. CASE Commit
  BY <1>4 DEF Commit, RoundShape, Idle
<1>5. CASE Restart
  BY <1>5 DEF Restart, RoundShape, Idle
<1>6. \/ UNCHANGED program \/ (\E k \in 1 .. FilesAtOnce : BeginRound(k))
      \/ Exec \/ Commit \/ Restart
  BY DEF Next, vars, program, Publish, DropNode, EditNode, DropWay, EditWay
<1> QED BY <1>1, <1>2, <1>3, <1>4, <1>5, <1>6

\* An excuse stays one, or the node is made by a change that is late.
LEMMA ExcusedStays ==
  ASSUME FeedInv, ProgramTyped, [Next]_vars, NEW n \in Nodes, Excused(n)
  PROVE  Excused(n)' \/ \E c \in Log' : IsNode(c, n, "create") /\ Late(c)' /\ LateInTxn(c)'
<1>1. CASE world.nodes[n].version = 0
  <2>1. CASE Edit
    <3>1. PICK c : Made(c)
      BY <2>1, EditMade DEF FeedInv
    <3>2. CASE c.kind = "node" /\ c.id = n
      <4>1. Thing(c) = world.nodes[n]
        BY <3>2 DEF Thing
      <4>2. c.action # "remove"
        <5>1. c.action = "remove" => world.nodes[n].there
          BY <3>1, <3>2 DEF Made
        <5> QED BY <1>1, <5>1 DEF FeedInv, FeedShape
      <4>3. IsNode(c, n, "create")
        BY <1>1, <3>1, <3>2, <4>1, <4>2 DEF Made, Action, IsNode
      <4>4. c \in Log'
        BY <3>1, MadeFacts DEF FeedInv
      <4> QED BY <3>1, <4>3, <4>4, LateMade
    <3>3. CASE ~(c.kind = "node" /\ c.id = n)
      BY <1>1, <3>1, <3>3, MadeWorld DEF Excused
    <3> QED BY <3>2, <3>3
  <2>2. CASE Publish
    BY <1>1, <2>2 DEF Publish, Excused
  <2>3. CASE Works \/ UNCHANGED vars
    BY <1>1, <2>3, WorkFacts DEF Excused
  <2> QED BY <2>1, <2>2, <2>3, StepCases
<1>2. CASE restarts > 0 /\ \E c \in Edits : IsNode(c, n, "remove")
  <2>1. Edits \subseteq Edits' /\ restarts \in Nat /\ restarts' \in Nat /\ restarts' >= restarts
    BY EditsStay DEF ProgramTyped
  <2>2. restarts' > 0
    BY <1>2, <2>1
  <2> QED BY <1>2, <2>1, <2>2 DEF Excused
<1> QED BY <1>1, <1>2 DEF Excused

\* A node that is missing stays so for a reason as long as what is late does.
LEMMA MissingStays ==
  ASSUME FeedInv, ProgramTyped, NodesMissing, [Next]_vars,
         UNCHANGED <<osm, txn, position>>, taken' \in Nat, taken' >= taken,
         \A i \in Places : i \in Places' /\ In(i) \subseteq In(i)',
         Log \subseteq Log',
         \A c \in Log : c.kind = "node" /\ Late(c) => Late(c)',
         \A c \in Log : c.kind = "node" /\ LateInTxn(c) => LateInTxn(c)',
         \A c \in Log' : c \notin Log => Late(c)' /\ LateInTxn(c)'
  PROVE  NodesMissing'
<1>1. ASSUME NEW i \in Places, NEW r \in In(i), NEW n, IsNode(r, n, "remove"),
             \A c \in Log : Same(c, r) /\ c.version > r.version => Late(c)
      PROVE  \A c \in Log' : Same(c, r) /\ c.version > r.version => Late(c)'
  BY <1>1 DEF IsNode, Same
<1>2. ASSUME NEW i \in Places, NEW r \in In(i), NEW n, IsNode(r, n, "remove"),
             \A c \in Log : Same(c, r) /\ c.version > r.version => LateInTxn(c)
      PROVE  \A c \in Log' : Same(c, r) /\ c.version > r.version => LateInTxn(c)'
  BY <1>2 DEF IsNode, Same
<1>3. ASSUME NEW n, SeenGone(n) PROVE SeenGone(n)'
  <2>1. PICK i \in Places : i <= position /\ \E r \in In(i) :
          IsNode(r, n, "remove") /\ \A c \in Log : Same(c, r) /\ c.version > r.version => Late(c)
    BY <1>3 DEF SeenGone
  <2>2. PICK r \in In(i) :
          IsNode(r, n, "remove") /\ \A c \in Log : Same(c, r) /\ c.version > r.version => Late(c)
    BY <2>1
  <2>3. \A c \in Log' : Same(c, r) /\ c.version > r.version => Late(c)'
    BY <1>1, <2>2
  <2>4. i \in Places' /\ i <= position' /\ r \in In(i)'
    BY <2>1
  <2> QED BY <2>2, <2>3, <2>4 DEF SeenGone
<1>4. ASSUME NEW n, SeenGoneInTxn(n) PROVE SeenGoneInTxn(n)'
  <2>1. PICK i \in Places : i <= position + taken /\ \E r \in In(i) :
          IsNode(r, n, "remove") /\ \A c \in Log : Same(c, r) /\ c.version > r.version => LateInTxn(c)
    BY <1>4 DEF SeenGoneInTxn
  <2>2. PICK r \in In(i) :
          IsNode(r, n, "remove") /\ \A c \in Log : Same(c, r) /\ c.version > r.version => LateInTxn(c)
    BY <2>1
  <2>3. \A c \in Log' : Same(c, r) /\ c.version > r.version => LateInTxn(c)'
    BY <1>2, <2>2
  <2>4. i \in Places' /\ i <= position' + taken' /\ r \in In(i)'
    BY <2>1, PlaceFacts DEF ProgramTyped, FeedInv
  <2> QED BY <2>2, <2>3, <2>4 DEF SeenGoneInTxn
<1>5. ASSUME NEW n, NEW c \in Log, IsNode(c, n, "create")
      PROVE  c \in Log' /\ (Late(c) => Late(c)') /\ (LateInTxn(c) => LateInTxn(c)')
  BY <1>5 DEF IsNode
<1> QED BY <1>3, <1>4, <1>5, ExcusedStays DEF NodesMissing

\* A statement that leaves a node without a row is a deletion in a file of the round, and
\* nothing newer was done before it.
LEMMA ExecMissing ==
  ASSUME FeedInv, ProgramTyped, BatchShape, UpToDate("node"), NodesMissing, Exec, NEW n \in Nodes
  PROVE  \/ txn'.nodes[n].version > 0
         \/ Excused(n)
         \/ \E i \in Places : i <= position + taken /\ \E r \in In(i) :
              IsNode(r, n, "remove") /\ \A c \in Log : Same(c, r) /\ c.version > r.version => LateInTxn(c)'
         \/ \E c \in Log : IsNode(c, n, "create") /\ LateInTxn(c)'
<1>1. PICK s : s = Head(batch)
  OBVIOUS
<1>2. /\ s \in StatementSet /\ s \in ToSet(batch) /\ txn' = Apply(txn, s)
      /\ \A c : LateInTxn(c) => LateInTxn(c)' \/ c = s.c
  BY <1>1, ExecFacts
<1>3. CASE ~(s.c.kind = "node" /\ s.c.id = n)
  <2>1. txn'.nodes[n] = txn.nodes[n]
    BY <1>1, <1>3, ExecElse
  <2>2. \A c \in Log : c.kind = "node" /\ c.id = n /\ LateInTxn(c) => LateInTxn(c)'
    BY <1>2, <1>3
  <2>3. CASE SeenGoneInTxn(n)
    <3>1. PICK i \in Places : i <= position + taken /\ \E r \in In(i) :
            IsNode(r, n, "remove") /\ \A c \in Log : Same(c, r) /\ c.version > r.version => LateInTxn(c)
      BY <2>3 DEF SeenGoneInTxn
    <3>2. PICK r \in In(i) :
            IsNode(r, n, "remove") /\ \A c \in Log : Same(c, r) /\ c.version > r.version => LateInTxn(c)
      BY <3>1
    <3>3. \A c \in Log : Same(c, r) /\ c.version > r.version => LateInTxn(c)'
      BY <2>2, <3>2 DEF IsNode, Same
    <3> QED BY <3>1, <3>2, <3>3
  <2>4. CASE \E c \in Log : IsNode(c, n, "create") /\ LateInTxn(c)
    BY <2>2, <2>4 DEF IsNode
  <2> QED BY <2>1, <2>3, <2>4 DEF NodesMissing
<1>4. CASE s.c.kind = "node" /\ s.c.id = n
  <2>1. s.c \in Changes /\ s.c.version \in Nat /\ s.c.version > 0 /\ Plain(s.c)
    BY <1>2, <1>4, ChangeTypes DEF StatementSet, Moves, Plain
  <2>2. txn'.nodes[n] = IF s.c.action = "remove" THEN NoNode
                        ELSE IF txn.nodes[n].version < s.c.version
                          THEN [version |-> s.c.version, loc |-> s.c.loc]
                        ELSE txn.nodes[n]
    BY <1>2, <1>4, ApplyNode DEF ProgramTyped
  <2>3. CASE s.c.action = "remove"
    <3>1. PICK i \in DOMAIN feed : i <= position + taken /\ s.c \in In(i)
      BY <1>2, <2>1 DEF BatchShape
    <3>2. IsNode(s.c, n, "remove") /\ i \in Places
      BY <1>4, <2>3, PlaceFacts DEF IsNode, FeedInv
    <3>3. ASSUME NEW c \in Log, Same(c, s.c), c.version > s.c.version
          PROVE  LateInTxn(c)'
      <4>1. LateInTxn(c)
        BY <1>2, <1>4, <2>1, <3>3 DEF UpToDate, Same
      <4>2. c # s.c
        BY <2>1, <3>3
      <4> QED BY <1>2, <4>1, <4>2
    <3> QED BY <3>1, <3>2, <3>3
  <2>4. CASE s.c.action # "remove"
    BY <2>1, <2>2, <2>4, RowFacts
  <2> QED BY <2>3, <2>4
<1> QED BY <1>3, <1>4

LEMMA NodesMissingStep ==
  ASSUME FeedInv, ProgramTyped, BatchShape, UpToDate("node"), NodesMissing, [Next]_vars
  PROVE  NodesMissing'
<1>1. CASE Edit
  <2>1. PICK c : Made(c)
    BY <1>1, EditMade DEF FeedInv
  <2>2. UNCHANGED <<osm, txn, position>> /\ taken' \in Nat /\ taken' >= taken
    BY <2>1 DEF Made, program, ProgramTyped
  <2>3. /\ \A i \in Places : i \in Places' /\ In(i) \subseteq In(i)'
        /\ Log' = Log \cup {c}
    BY <2>1, MadeFacts DEF FeedInv
  <2>4. /\ \A d : Late(d) => Late(d)'
        /\ \A d : LateInTxn(d) => LateInTxn(d)'
        /\ Late(c)' /\ LateInTxn(c)'
    BY <2>1, LateMade
  <2> QED BY <2>2, <2>3, <2>4, MissingStays
<1>2. CASE Publish
  <2>1. UNCHANGED <<osm, txn, position>> /\ taken' \in Nat /\ taken' >= taken
    BY <1>2 DEF Publish, program, ProgramTyped
  <2>2. (\A i \in Places : i \in Places' /\ In(i) \subseteq In(i)') /\ Log' = Log
    BY <1>2, PublishFacts DEF FeedInv
  <2> QED BY <1>2, <2>1, <2>2, LatePublish, MissingStays
<1>3. CASE UNCHANGED vars
  <2>1. /\ UNCHANGED <<world, open, feed>> /\ UNCHANGED <<osm, txn, position>>
        /\ UNCHANGED <<taken, batch>> /\ taken' \in Nat /\ taken' >= taken
    BY <1>3 DEF vars, ProgramTyped
  <2>2. Places' = Places /\ Log' = Log /\ \A i : In(i)' = In(i)
    BY <2>1, SameFeed
  <2>3. (\A c : Late(c)' <=> Late(c)) /\ \A c : LateInTxn(c)' <=> LateInTxn(c)
    BY <2>1, <2>2 DEF Late, LateInTxn
  <2> QED BY <2>1, <2>2, <2>3, MissingStays
<1>4. ASSUME NEW k \in 1 .. FilesAtOnce, BeginRound(k) PROVE NodesMissing'
  <2>1. /\ UNCHANGED <<world, open, feed>> /\ UNCHANGED <<osm, txn, position>> /\ taken = 0
        /\ taken' \in Nat /\ taken' >= taken
    BY <1>4, RoundFacts DEF BeginRound, Idle
  <2>2. Places' = Places /\ Log' = Log /\ \A i : In(i)' = In(i)
    BY <2>1, SameFeed
  <2>3. /\ \A c : Late(c)' <=> Late(c)
        /\ \A c \in Log : LateInTxn(c) => Late(c)
        /\ \A i \in DOMAIN feed : \A c \in In(i) :
             /\ i > position
             /\ IsWritten(c, KnownNodes(feed[i], osm), GaveUp(feed[i], osm))
             => LateInTxn(c)'
        /\ \A i \in Places : \A c \in In(i) :
             i > position /\ i \notin DOMAIN feed => LateInTxn(c)'
    BY <1>4, BeginFacts
  <2>4. ASSUME NEW c \in Log, c.kind = "node", LateInTxn(c) PROVE LateInTxn(c)'
    <3>1. \A known, gaveUp : IsWritten(c, known, gaveUp)
      BY <2>4 DEF IsWritten
    <3>2. PICK i \in Places : i > position /\ c \in In(i)
      BY <2>3, <2>4 DEF Late
    <3> QED BY <2>3, <3>1, <3>2
  <2> QED BY <2>1, <2>2, <2>3, <2>4, MissingStays
<1>5. CASE Exec
  <2>1. UNCHANGED <<world, open, feed, osm, position, taken, restarts>> /\ \A c : Late(c)' <=> Late(c)
    BY <1>5, ExecFacts
  <2>2. Places' = Places /\ Log' = Log /\ \A i : In(i)' = In(i)
    BY <2>1, SameFeed
  <2>3. ASSUME NEW n \in Nodes
        PROVE  /\ Excused(n)' <=> Excused(n)
               /\ SeenGone(n)' <=> SeenGone(n)
               /\ (\E c \in Log' : IsNode(c, n, "create") /\ Late(c)')
                    <=> \E c \in Log : IsNode(c, n, "create") /\ Late(c)
    BY <2>1, <2>2 DEF Excused, SeenGone, Edits
  <2>4. ASSUME NEW n \in Nodes
        PROVE  \/ txn'.nodes[n].version > 0 \/ Excused(n) \/ SeenGoneInTxn(n)'
               \/ \E c \in Log' : IsNode(c, n, "create") /\ LateInTxn(c)'
    <3>1. (\E i \in Places : i <= position + taken /\ \E r \in In(i) :
             IsNode(r, n, "remove") /\ \A c \in Log : Same(c, r) /\ c.version > r.version => LateInTxn(c)')
          => SeenGoneInTxn(n)'
      BY <2>1, <2>2 DEF SeenGoneInTxn
    <3> QED BY <1>5, <2>2, <3>1, ExecMissing
  <2> QED BY <2>1, <2>3, <2>4 DEF NodesMissing
<1>6. CASE Commit
  <2>1. /\ UNCHANGED <<world, open, feed, txn, restarts>> /\ osm' = txn
        /\ \A c : Late(c)' <=> LateInTxn(c)
        /\ \A c : LateInTxn(c)' <=> LateInTxn(c)
    BY <1>6, CommitFacts
  <2>2. position' = position + taken /\ position' + taken' = position + taken
    BY <1>6 DEF Commit, ProgramTyped
  <2>3. Places' = Places /\ Log' = Log /\ \A i : In(i)' = In(i)
    BY <2>1, SameFeed
  <2>4. ASSUME NEW n \in Nodes
        PROVE  /\ Excused(n)' <=> Excused(n)
               /\ SeenGone(n)' <=> SeenGoneInTxn(n)
               /\ SeenGoneInTxn(n)' <=> SeenGoneInTxn(n)
    BY <2>1, <2>2, <2>3 DEF Excused, SeenGone, SeenGoneInTxn, Edits
  <2> QED BY <2>1, <2>3, <2>4 DEF NodesMissing
<1>7. CASE Restart
  <2>1. /\ UNCHANGED <<world, open, feed, osm>> /\ txn' = osm /\ restarts' = restarts + 1
        /\ \A c : Late(c) => Late(c)' /\ LateInTxn(c)'
    BY <1>7, RestartFacts
  <2>2. restarts' > 0 /\ Edits' = Edits /\ Log' = Log
    BY <2>1, SameFeed DEF ProgramTyped, Edits
  <2>3. ASSUME NEW n, SeenGone(n)
        PROVE  Excused(n)'
    <3>1. PICK i \in Places : i <= position /\ \E r \in In(i) : IsNode(r, n, "remove")
      BY <2>3 DEF SeenGone
    <3>2. i \in DOMAIN feed
      <4>1. i \in 1 .. Len(feed)
        BY <3>1, PlaceFacts DEF ProgramTyped, FeedInv
      <4> QED BY <4>1 DEF FeedInv, FeedShape
    <3>3. \E r \in Edits' : IsNode(r, n, "remove")
      BY <2>2, <3>1, <3>2, EditsInLog
    <3> QED BY <2>2, <3>3 DEF Excused
  <2> QED BY <2>1, <2>2, <2>3, ExcusedStays DEF NodesMissing
<1> QED BY <1>1, <1>2, <1>3, <1>4, <1>5, <1>6, <1>7, StepCases DEF Works

\* A file is written as a whole if its nodes, and those of the ways it moves, are at hand.
LEMMA AtHandWritten ==
  ASSUME FeedInv, ProgramTyped, NEW i \in DOMAIN feed,
         \A d \in In(i) : Writes(d) => \A n \in ToSet(d.refs) :
           n \in DOMAIN NodeCache(feed[i]) \/ osm.nodes[n].version > 0,
         \A d \in ToSet(Indirect(feed[i], osm)) : \A n \in ToSet(d.refs) : osm.nodes[n].version > 0,
         NEW c \in In(i), Writes(c) => Closed(c.refs) \/ c.refs[1] # Last(c.refs)
  PROVE  IsWritten(c, KnownNodes(feed[i], osm), GaveUp(feed[i], osm))
<1>1. PICK file \in Seq(Changes) : file = feed[i] /\ In(i) = ToSet(file)
  BY PlaceFacts DEF FeedInv
<1>2. c \in Changes /\ ToSet(file) \subseteq Changes
  BY <1>1, ToSetFinite
<1>3. CASE ~Writes(c)
  <2>1. c.kind = "node" \/ c.action = "remove"
    BY <1>2, <1>3, ChangeTypes DEF Writes
  <2> QED BY <2>1 DEF IsWritten
<1>4. CASE Writes(c)
  <2>1. \A n \in Referenced(file, osm) : n \in Found(file, osm)
    <3> SUFFICES ASSUME NEW n \in Referenced(file, osm) PROVE n \in Found(file, osm)
      OBVIOUS
    <3>1. CASE \E d \in ToSet(Indirect(file, osm)) : n \in ToSet(d.refs)
      BY <1>1, <3>1 DEF Found
    <3>2. CASE \E d \in Of(file, "way", {"create", "modify"}) : n \in ToSet(d.refs)
      <4>1. PICK d \in Of(file, "way", {"create", "modify"}) : n \in ToSet(d.refs)
        BY <3>2
      <4>2. d \in ToSet(file) /\ Writes(d) /\ n \notin DOMAIN NodeCache(file)
        BY <4>1 DEF Of, Writes, Referenced
      <4> QED BY <1>1, <4>1, <4>2 DEF Found
    <3> QED BY <3>1, <3>2 DEF Referenced
  <2>2. ~GaveUp(file, osm)
    BY <2>1 DEF GaveUp
  <2>3. ToSet(c.refs) \subseteq DOMAIN KnownNodes(file, osm)
    <3> SUFFICES ASSUME NEW n \in ToSet(c.refs), n \notin DOMAIN NodeCache(file)
                 PROVE  n \in Found(file, osm)
      BY KnownFacts DEF ProgramTyped
    <3>1. c.action \in {"create", "modify"} /\ c.kind = "way"
      BY <1>2, <1>4, ChangeTypes DEF Writes
    <3>2. c \in Of(file, "way", {"create", "modify"})
      BY <1>1, <3>1 DEF Of
    <3>3. n \in Referenced(file, osm)
      BY <3>2 DEF Referenced
    <3> QED BY <2>1, <3>3
  <2>4. c.refs \in Refs /\ c.refs # <<>>
    BY <1>2, <1>4, ChangeTypes, RefsAssumption
  <2> QED BY <1>1, <1>4, <2>2, <2>3, <2>4 DEF IsWritten, Complete
<1> QED BY <1>3, <1>4

\* Without these causes every way of a file that is still to be applied is written: its
\* nodes are in the tables or made by the file itself.
LEMMA WaysWritten ==
  ASSUME FeedInv, ProgramTyped, NodesFirst, NodesMissing, NoCause,
         NEW i \in DOMAIN feed, i > position, NEW c \in In(i)
  PROVE  IsWritten(c, KnownNodes(feed[i], osm), GaveUp(feed[i], osm))
<1>1. PICK file \in Seq(Changes) : file = feed[i] /\ In(i) = ToSet(file)
  BY PlaceFacts DEF FeedInv
<1>2. c \in Changes /\ ToSet(file) \subseteq Changes /\ ToSet(file) \subseteq Edits
      /\ i \in Places /\ i \in Nat /\ position \in Nat
  BY <1>1, ToSetFinite, PlaceFacts DEF Edits, FeedInv, ProgramTyped
<1>3. CASE ~Writes(c)
  <2>1. c.kind = "node" \/ c.action = "remove"
    BY <1>2, <1>3, ChangeTypes DEF Writes
  <2> QED BY <2>1 DEF IsWritten
<1>4. CASE Writes(c)
  <2>1. ASSUME NEW e \in Edits PROVE ~(e.kind = "node" /\ e.action = "modify")
    <3>1. c \in Edits /\ c.kind = "way" /\ c.action # "remove"
      BY <1>1, <1>2, <1>4 DEF Writes
    <3> QED BY <3>1 DEF NoCause, MovedWhileWritten
  <2>2. Indirect(file, osm) = <<>>
    BY <1>2, <2>1, IndirectFacts DEF ProgramTyped
  <2>3. ASSUME NEW d \in ToSet(file), Writes(d), NEW n \in ToSet(d.refs)
        PROVE  n \in Nodes /\ (n \in DOMAIN NodeCache(file) \/ osm.nodes[n].version > 0)
    <3>1. n \in Nodes /\ WritesOn(d, n) /\ d \in Edits
      <4>1. d.kind = "way" /\ d \in Changes /\ d.refs \in Seq(Nodes)
        BY <1>2, <2>3, ChangeTypes DEF Writes
      <4> QED BY <1>2, <2>3, <4>1, ToSetFinite DEF WritesOn
    <3>2. d \in In(i) /\ d \in Log
      BY <1>1, <1>2 DEF Log
    <3>3. SUFFICES ASSUME n \notin DOMAIN NodeCache(file), ~(osm.nodes[n].version > 0)
                   PROVE  FALSE
      BY <3>1
    <3>4. CASE world.nodes[n].version = 0
      BY <3>1, <3>2, <3>4 DEF NodesFirst
    <3>5. CASE \E e \in Log : IsNode(e, n, "create") /\ Late(e)
      <4>1. PICK m \in Places : \E e \in In(m) : IsNode(e, n, "create")
        BY <3>5 DEF Log
      <4>6. PICK e \in In(m) : IsNode(e, n, "create")
        BY <4>1
      <4>2. m <= i
        BY <1>2, <3>1, <3>2, <4>6 DEF NodesFirst
      <4>3. CASE m = i
        <5>1. e \in Of(file, "node", {"create", "modify"}) /\ e.id = n
          BY <1>1, <4>3, <4>6 DEF Of, IsNode
        <5>2. n \in DOMAIN NodeCache(file)
          BY <5>1, CacheFacts
        <5> QED BY <3>3, <5>2
      <4>4. CASE m < i
        <5>1. m \in DOMAIN feed /\ e \in ToSet(feed[m])
          <6>1. m \in 1 .. Len(feed)
            BY <1>2, <4>4, PlaceFacts DEF FeedInv, FeedShape
          <6>2. m \in DOMAIN feed
            BY <6>1 DEF FeedInv, FeedShape
          <6> QED BY <4>6, <6>2, PlaceFacts DEF FeedInv
        <5>2. OnNewNodes
          <6>1. d \in ToSet(feed[i]) /\ d.kind = "way"
            BY <1>1, <2>3 DEF Writes
          <6>2. e.kind = "node" /\ e.action = "create" /\ e.id \in ToSet(d.refs)
            BY <2>3, <4>6 DEF IsNode
          <6> QED BY <4>4, <5>1, <6>1, <6>2 DEF OnNewNodes
        <5> QED BY <5>2 DEF NoCause
      <4>5. m \in Nat
        BY PlaceFacts DEF FeedInv
      <4> QED BY <1>2, <4>2, <4>3, <4>4, <4>5
    <3>6. CASE restarts > 0 /\ \E e \in Edits : IsNode(e, n, "remove")
      <4>1. OnGoneNodes
        BY <2>3, <3>1, <3>6 DEF OnGoneNodes, IsNode, Writes
      <4> QED BY <4>1 DEF NoCause
    <3>7. CASE SeenGone(n)
      <4>1. PICK m \in Places : m <= position /\ \E e \in In(m) : IsNode(e, n, "remove")
        BY <3>7 DEF SeenGone
      <4>2. m < i
        BY <1>2, <4>1, PlaceFacts DEF FeedInv
      <4>3. PICK k \in Places : k <= i /\ \E x \in In(k) : IsNode(x, n, "modify")
        BY <1>2, <3>1, <3>2, <4>1, <4>2 DEF NodesFirst
      <4>4. k \in 1 .. Len(feed)
        BY <1>2, <4>3, PlaceFacts DEF FeedInv, FeedShape
      <4>5. \E x \in Edits : IsNode(x, n, "modify")
        <5>1. k \in DOMAIN feed
          BY <4>4 DEF FeedInv, FeedShape
        <5> QED BY <4>3, <5>1, EditsInLog
      <4> QED BY <2>1, <4>5 DEF IsNode
    <3> QED BY <3>1, <3>3, <3>4, <3>5, <3>6, <3>7 DEF NodesMissing, Excused
  <2>4. ToSet(Indirect(file, osm)) = {}
    BY <2>2 DEF ToSet
  <2>5. Closed(c.refs) \/ c.refs[1] # Last(c.refs)
    <3>1. c \in Edits /\ c.kind = "way" /\ c.action # "remove"
      BY <1>1, <1>2, <1>4 DEF Writes
    <3> QED BY <3>1 DEF NoCause, ShortRing
  <2> QED BY <1>1, <2>3, <2>4, <2>5, AtHandWritten
<1> QED BY <1>3, <1>4

NewestOfWay(c, w) == c.kind = "way" /\ c.id = w /\ c.version = world.ways[w].version

BeforeLast(c, w) == c.kind = "way" /\ c.id = w /\ c.version + 1 = world.ways[w].version

\* The way is stored as it is in OSM, and nowhere else.
StoredRight(db, w) ==
  \A t \in Tables :
    db.ways[t][w].version =
      IF world.ways[w].there /\ t = TableOf(world.ways[w].refs) THEN world.ways[w].version ELSE 0

\* It has no row in the table that is not of its shape.
OtherClear(db, w) == db.ways[Other(TableOf(world.ways[w].refs))][w].version = 0

WaysNotNewer ==
  \A w \in Ways, t \in Tables :
    /\ osm.ways[t][w].version <= world.ways[w].version
    /\ txn.ways[t][w].version <= world.ways[w].version

\* A way is stored right, or the change that makes it so is still to come; and if that
\* deletes it, so is the one before, or the other table has nothing of the way.
WaysFollow ==
  \A w \in Ways :
    /\ \/ StoredRight(osm, w)
       \/ \E c \in Log : /\ NewestOfWay(c, w) /\ Late(c)
                         /\ c.action = "remove" =>
                              OtherClear(osm, w) \/ \E d \in Log : BeforeLast(d, w) /\ Late(d)
    /\ \/ StoredRight(txn, w)
       \/ \E c \in Log : /\ NewestOfWay(c, w) /\ LateInTxn(c)
                         /\ c.action = "remove" =>
                              OtherClear(txn, w) \/ \E d \in Log : BeforeLast(d, w) /\ LateInTxn(d)

\* A change of geometry finds no row in the table it clears.
MovesHarmless ==
  \A s \in ToSet(batch) :
    ~Plain(s.c) => txn.ways[Other(TableOf(s.c.refs))][s.c.id].version = 0

WayInv ==
  /\ NodesFirst /\ NodesMissing /\ RoundShape /\ TablesApart /\ WaysNotNewer
  /\ NoCause => UpToDate("way") /\ WaysFollow /\ MovesHarmless

LEMMA WayRowFacts ==
  ASSUME FeedInv, ProgramTyped, NEW w \in Ways
  PROVE  /\ world.ways[w].version \in Nat /\ TableOf(world.ways[w].refs) \in Tables
         /\ Other(TableOf(world.ways[w].refs)) \in Tables
         /\ world.ways[w].there => world.ways[w].version > 0
         /\ \A t \in Tables : /\ osm.ways[t][w] \in WayRows /\ osm.ways[t][w].version \in Nat
                              /\ txn.ways[t][w] \in WayRows /\ txn.ways[t][w].version \in Nat
BY TwoTables DEF FeedInv, FeedShape, Worlds, ProgramTyped, TablesTyped, Databases, WayRows

\* The tables after a statement on a way, as far as versions go.
LEMMA ExecWay ==
  ASSUME FeedInv, ProgramTyped, BatchShape, Exec, NEW s, s = Head(batch), s.c.kind = "way"
  PROVE  /\ s.c.id \in Ways /\ s.c.version \in Nat /\ TableOf(s.c.refs) \in Tables
         /\ \A t \in Tables, w \in Ways : w # s.c.id => txn'.ways[t][w] = txn.ways[t][w]
         /\ s.c.action = "remove" =>
              /\ txn'.ways[TableOf(s.c.refs)][s.c.id].version = 0
              /\ \A t \in Tables : t # TableOf(s.c.refs) =>
                   txn'.ways[t][s.c.id] = txn.ways[t][s.c.id]
         /\ s.c.action # "remove" =>
              \A t \in Tables : t # TableOf(s.c.refs) => txn'.ways[t][s.c.id].version = 0
         /\ s.c.action = "modify_geom" =>
              txn'.ways[TableOf(s.c.refs)][s.c.id].version
                = txn.ways[TableOf(s.c.refs)][s.c.id].version
         /\ Writes(s.c) /\ Plain(s.c) =>
              txn'.ways[TableOf(s.c.refs)][s.c.id].version =
                IF txn.ways[TableOf(s.c.refs)][s.c.id].version <= s.c.version
                THEN s.c.version ELSE txn.ways[TableOf(s.c.refs)][s.c.id].version
<1>1. s \in StatementSet /\ txn' = Apply(txn, s)
  BY ExecFacts
<1>2. PICK new : new = txn'
  OBVIOUS
<1>3. /\ s.c.id \in Ways /\ s.c.version \in Nat /\ s.c.refs \in Seq(Nodes) /\ s.geom \in Seq(Locs)
      /\ s.c.action \in {"create", "modify", "remove", "modify_geom"}
  BY <1>1, ChangeTypes DEF StatementSet, Moves
<1>4. PICK table \in Tables : table = TableOf(s.c.refs)
  BY TwoTables
<1>5. /\ \A t \in Tables, w \in Ways :
           new.ways[t][w] =
             IF w # s.c.id THEN txn.ways[t][w]
             ELSE IF t = table THEN WayRowAfter(txn.ways[t][w], s)
             ELSE IF s.c.action = "remove" THEN txn.ways[t][w]
             ELSE NoWay
  BY <1>1, <1>2, <1>4, ApplyWay DEF ProgramTyped
<1>6. PICK row \in WayRows : row = txn.ways[table][s.c.id]
  BY <1>3 DEF ProgramTyped, TablesTyped, Databases
<1>7. NoWay.version = 0
  BY DEF NoWay
<1>8. s.c.action = "modify_geom" => WayRowAfter(row, s).version = row.version
  <2>1. row = [version |-> row.version, refs |-> row.refs, geom |-> row.geom]
    BY DEF WayRows
  <2>2. [row EXCEPT !.geom = s.geom].version = row.version
    BY <2>1
  <2> QED BY <2>2 DEF WayRowAfter
<1>9. Writes(s.c) /\ Plain(s.c) =>
        WayRowAfter(row, s).version = IF row.version <= s.c.version THEN s.c.version ELSE row.version
  BY DEF WayRowAfter, Writes, Plain
<1>10. s.c.action = "remove" => WayRowAfter(row, s).version = 0
  BY <1>7 DEF WayRowAfter
<1>11. /\ new.ways[table][s.c.id] = WayRowAfter(row, s)
       /\ \A t \in Tables : t # table =>
            new.ways[t][s.c.id] = IF s.c.action = "remove" THEN txn.ways[t][s.c.id] ELSE NoWay
       /\ \A t \in Tables, w \in Ways : w # s.c.id => new.ways[t][w] = txn.ways[t][w]
  BY <1>3, <1>5, <1>6
<1> QED BY <1>2, <1>3, <1>4, <1>6, <1>7, <1>8, <1>9, <1>10, <1>11

\* A statement of a change: the change is one of the feed.
LEMMA HeadChange ==
  ASSUME FeedInv, ProgramTyped, BatchShape, Exec, NEW c, c = Head(batch).c, Plain(c)
  PROVE  /\ c \in Changes /\ c \in Log /\ c \in Edits /\ c.version \in Nat
         /\ c.version <= Thing(c).version /\ (c.version = Thing(c).version => Matches(c))
         /\ Newest(c) /\ WroteLast(c)
         /\ \E i \in DOMAIN feed : i <= position + taken /\ c \in In(i)
<1>1. Head(batch) \in StatementSet /\ Head(batch) \in ToSet(batch)
  BY ExecFacts
<1>2. PICK i \in DOMAIN feed : i <= position + taken /\ c \in In(i)
  BY <1>1 DEF BatchShape
<1>3. c \in Edits /\ c \in Log
  BY <1>2, EditsInLog
<1>4. c \in Changes
  BY <1>3, PlaceFacts DEF FeedInv
<1> QED BY <1>2, <1>3, <1>4, ChangeTypes DEF FeedInv, FeedTells

\* Nothing older than a change of the batch is late: neither in a later file, nor behind
\* it in the batch.
LEMMA HeadOldest ==
  ASSUME FeedInv, ProgramTyped, BatchShape, Exec, NEW c, c = Head(batch).c, Plain(c),
         NEW d \in Log, Same(c, d), d.version < c.version
  PROVE  ~LateInTxn(d)
<1>1. PICK i \in DOMAIN feed : i <= position + taken /\ c \in In(i)
  BY HeadChange
<1>2. c.version \in Nat /\ d.version \in Nat /\ Plain(d)
  BY HeadChange, PlaceFacts, ChangeTypes DEF FeedInv, Plain
<1>3. ASSUME NEW j \in Places, j > position + taken, d \in In(j) PROVE FALSE
  <2>1. i < j /\ i \in Places
    BY <1>1, <1>3, PlaceFacts DEF FeedInv, ProgramTyped
  <2>2. c.version < d.version
    BY <1>1, <1>3, <2>1 DEF FeedInv, FeedRises
  <2> QED BY <1>2, <2>2
<1>4. ASSUME NEW s \in ToSet(batch), s.c = d PROVE FALSE
  <2>1. /\ ToSet(batch) = {Head(batch)} \cup ToSet(batch')
        /\ \A x \in ToSet(batch') :
             Same(x.c, Head(batch).c) /\ Plain(x.c) /\ Plain(Head(batch).c) =>
               Head(batch).c.version < x.c.version
    BY ExecFacts
  <2>2. s \in ToSet(batch')
    BY <1>2, <1>4, <2>1
  <2>3. c.version < d.version
    BY <1>2, <1>4, <2>1, <2>2 DEF Same
  <2> QED BY <1>2, <2>3
<1> QED BY <1>3, <1>4 DEF LateInTxn

\* What is left to be done of a way after a statement of one of its changes.
LEMMA ExecLater ==
  ASSUME FeedInv, ProgramTyped, BatchShape, UpToDate("way"), Exec,
         NEW c, c = Head(batch).c, Plain(c), c.kind = "way",
         NEW d \in Log, Same(c, d), d.version > c.version
  PROVE  LateInTxn(d)'
<1>1. /\ Head(batch) \in ToSet(batch)
      /\ LateInTxn(d) => LateInTxn(d)' \/ d = Head(batch).c
  BY ExecFacts
<1>2. LateInTxn(d)
  BY <1>1 DEF UpToDate
<1>3. d # c
  BY HeadChange
<1> QED BY <1>1, <1>2, <1>3

LEMMA ExecFollow ==
  ASSUME FeedInv, ProgramTyped, BatchShape, WaysNotNewer, ~BareDelete,
         UpToDate("way"), MovesHarmless, WaysFollow, Exec,
         NEW w \in Ways, NEW new, new = txn'
  PROVE  \/ StoredRight(new, w)
         \/ \E c \in Log : /\ NewestOfWay(c, w) /\ LateInTxn(c)'
                           /\ c.action = "remove" =>
                                OtherClear(new, w) \/ \E d \in Log : BeforeLast(d, w) /\ LateInTxn(d)'
<1> DEFINE Goal ==
         \/ StoredRight(new, w)
         \/ \E c \in Log : /\ NewestOfWay(c, w) /\ LateInTxn(c)'
                           /\ c.action = "remove" =>
                                OtherClear(new, w) \/ \E d \in Log : BeforeLast(d, w) /\ LateInTxn(d)'
<1>1. PICK s \in StatementSet : s = Head(batch) /\ s \in ToSet(batch)
  BY ExecFacts
<1>2. PICK T \in Tables : T = TableOf(world.ways[w].refs)
  BY TwoTables
<1>3. /\ Other(T) \in Tables /\ Other(T) # T /\ \A t \in Tables : t = T \/ t = Other(T)
  BY TwoTables DEF Tables
<1>4. /\ world.ways[w].version \in Nat /\ (world.ways[w].there => world.ways[w].version > 0)
      /\ \A t \in Tables : txn.ways[t][w].version \in Nat
                           /\ txn.ways[t][w].version <= world.ways[w].version
  BY WayRowFacts DEF WaysNotNewer
<1>5. ASSUME \A t \in Tables : new.ways[t][w].version = txn.ways[t][w].version,
             \A c \in Log : c.kind = "way" /\ c.id = w => c # s.c
      PROVE  Goal
  <2>1. \A c \in Log : c.kind = "way" /\ c.id = w /\ LateInTxn(c) => LateInTxn(c)'
    BY <1>1, <1>5, ExecFacts
  <2>2. CASE StoredRight(txn, w)
    BY <1>5, <2>2 DEF StoredRight
  <2>3. CASE ~StoredRight(txn, w)
    <3>1. PICK c \in Log : /\ NewestOfWay(c, w) /\ LateInTxn(c)
                           /\ c.action = "remove" =>
                                OtherClear(txn, w) \/ \E d \in Log : BeforeLast(d, w) /\ LateInTxn(d)
      BY <2>3 DEF WaysFollow
    <3>2. OtherClear(txn, w) => OtherClear(new, w)
      BY <1>2, <1>3, <1>5 DEF OtherClear
    <3>3. \A d \in Log : BeforeLast(d, w) /\ LateInTxn(d) => LateInTxn(d)'
      BY <2>1 DEF BeforeLast
    <3>4. LateInTxn(c)'
      BY <2>1, <3>1 DEF NewestOfWay
    <3> QED BY <3>1, <3>2, <3>3, <3>4
  <2> QED BY <2>2, <2>3
<1>6. CASE s.c.kind # "way"
  <2>1. s.c.kind = "node" /\ new = Apply(txn, s)
    BY <1>1, <1>6, ChangeTypes, ExecFacts DEF StatementSet, Moves
  <2>2. TablesTyped(txn)
    BY DEF ProgramTyped
  <2>3. new.ways = txn.ways
    <3>1. Apply(txn, s).ways = txn.ways
      BY <2>1, <2>2, ApplyNode
    <3> QED BY <2>1, <3>1
  <2> QED BY <1>5, <1>6, <2>3
<1>7. CASE s.c.kind = "way" /\ s.c.id # w
  <2>1. \A t \in Tables : new.ways[t][w] = txn.ways[t][w]
    BY <1>1, <1>7, ExecWay
  <2> QED BY <1>5, <1>7, <2>1
<1>8. CASE s.c.kind = "way" /\ s.c.id = w /\ ~Plain(s.c)
  <2>1. PICK U \in Tables : U = TableOf(s.c.refs)
    BY TwoTables
  <2>2. /\ \A t \in Tables : t # U => new.ways[t][w].version = 0
        /\ new.ways[U][w].version = txn.ways[U][w].version
    BY <1>1, <1>8, <2>1, ExecWay DEF Plain
  <2>3. txn.ways[Other(U)][w].version = 0
    BY <1>1, <1>8, <2>1 DEF MovesHarmless
  <2>4. \A t \in Tables : new.ways[t][w].version = txn.ways[t][w].version
    <3>1. \A t \in Tables : t = U \/ t = Other(U)
      BY TwoTables DEF Tables
    <3> QED BY <2>2, <2>3, <3>1
  <2>5. \A c \in Log : Plain(c)
    BY PlaceFacts, ChangeTypes DEF FeedInv, Plain
  <2> QED BY <1>5, <1>8, <2>4, <2>5
<1>9. CASE s.c.kind = "way" /\ s.c.id = w /\ Plain(s.c)
  <2>1. PICK c : c = s.c
    OBVIOUS
  <2>2. /\ c \in Changes /\ c \in Log /\ c \in Edits /\ c.version \in Nat
        /\ c.version <= Thing(c).version /\ (c.version = Thing(c).version => Matches(c))
        /\ Newest(c) /\ WroteLast(c)
    BY <1>1, <1>9, <2>1, HeadChange
  <2>3. Thing(c) = world.ways[w] /\ c.kind = "way" /\ c.id = w
    BY <1>9, <2>1 DEF Thing
  <2>4. CASE c.version = world.ways[w].version /\ c.action # "remove"
    <3>1. world.ways[w].there /\ c.refs = world.ways[w].refs
      BY <2>2, <2>3, <2>4 DEF Matches
    <3>2. /\ \A t \in Tables : t # T => new.ways[t][w].version = 0
          /\ new.ways[T][w].version = IF txn.ways[T][w].version <= c.version
                                      THEN c.version ELSE txn.ways[T][w].version
      <4>1. TableOf(s.c.refs) = T /\ s.c.id = w /\ s.c.version = c.version
        BY <1>2, <1>9, <2>1, <3>1
      <4>2. s.c.kind = "way" /\ s.c.action # "remove" /\ Writes(s.c) /\ Plain(s.c)
        BY <1>9, <2>1, <2>4 DEF Writes
      <4>3. /\ \A t \in Tables : t # TableOf(s.c.refs) => new.ways[t][s.c.id].version = 0
            /\ new.ways[TableOf(s.c.refs)][s.c.id].version =
                 IF txn.ways[TableOf(s.c.refs)][s.c.id].version <= s.c.version
                 THEN s.c.version ELSE txn.ways[TableOf(s.c.refs)][s.c.id].version
        BY <1>1, <4>2, ExecWay
      <4> QED BY <4>1, <4>3
    <3>3. new.ways[T][w].version = world.ways[w].version
      BY <1>4, <2>4, <3>2
    <3>4. StoredRight(new, w)
      BY <1>2, <3>1, <3>2, <3>3 DEF StoredRight
    <3> QED BY <3>4
  <2>5. CASE c.version = world.ways[w].version /\ c.action = "remove"
    <3>1. ~world.ways[w].there /\ c.refs = world.ways[w].refs
      <4>1. ~world.ways[w].there /\ c.refs \in {<<>>, world.ways[w].refs}
        BY <2>2, <2>3, <2>5 DEF Matches
      <4>2. c.refs # <<>>
        BY <2>2, <2>3, <2>5 DEF BareDelete
      <4> QED BY <4>1, <4>2
    <3>2. new.ways[T][w].version = 0 /\ new.ways[Other(T)][w] = txn.ways[Other(T)][w]
      <4>1. s.c.kind = "way" /\ s.c.id = w /\ s.c.action = "remove" /\ TableOf(s.c.refs) = T
        BY <1>2, <1>9, <2>1, <2>5, <3>1
      <4>2. /\ txn'.ways[TableOf(s.c.refs)][s.c.id].version = 0
            /\ \A t \in Tables : t # TableOf(s.c.refs) =>
                 txn'.ways[t][s.c.id] = txn.ways[t][s.c.id]
        BY <1>1, <4>1, ExecWay
      <4> QED BY <1>3, <4>1, <4>2
    <3>3. txn.ways[Other(T)][w].version = 0
      <4>1. CASE StoredRight(txn, w)
        BY <1>2, <1>3, <4>1 DEF StoredRight
      <4>2. CASE ~StoredRight(txn, w)
        <5>1. PICK e \in Log : /\ NewestOfWay(e, w) /\ LateInTxn(e)
                               /\ e.action = "remove" =>
                                    OtherClear(txn, w) \/ \E d \in Log : BeforeLast(d, w) /\ LateInTxn(d)
          BY <4>2 DEF WaysFollow
        <5>2. e.action = "remove"
          <6>1. Thing(e) = world.ways[w] /\ e.version = Thing(e).version
            BY <5>1 DEF NewestOfWay, Thing
          <6> QED BY <3>1, <6>1 DEF FeedInv, FeedTells, Matches
        <5>3. ASSUME NEW d \in Log, BeforeLast(d, w), LateInTxn(d) PROVE FALSE
          <6>1. d.version \in Nat
            BY PlaceFacts, ChangeTypes DEF FeedInv
          <6>2. Same(c, d) /\ d.version < c.version
            BY <2>2, <2>3, <2>5, <5>3, <6>1 DEF BeforeLast, Same
          <6> QED BY <1>1, <1>9, <2>1, <5>3, <6>2, HeadOldest
        <5> QED BY <1>2, <5>1, <5>2, <5>3 DEF OtherClear
      <4> QED BY <4>1, <4>2
    <3>4. StoredRight(new, w)
      BY <1>2, <1>3, <3>1, <3>2, <3>3 DEF StoredRight
    <3> QED BY <3>4
  <2>6. CASE c.version # world.ways[w].version
    <3>1. c.version < world.ways[w].version
      BY <1>4, <2>2, <2>3, <2>6
    <3>2. PICK d \in Log : Same(c, d) /\ d.version = world.ways[w].version
      BY <2>2, <2>3 DEF Newest
    <3>3. NewestOfWay(d, w)
      BY <2>3, <3>2 DEF NewestOfWay, Same
    <3>4. LateInTxn(d)'
      BY <1>1, <1>9, <2>1, <2>3, <3>1, <3>2, ExecLater
    <3>5. ASSUME d.action = "remove"
          PROVE  OtherClear(new, w) \/ \E e \in Log : BeforeLast(e, w) /\ LateInTxn(e)'
      <4>1. PICK e \in Log : Same(c, e) /\ e.version + 1 = world.ways[w].version
        BY <2>2, <2>3, <3>1 DEF Newest
      <4>2. BeforeLast(e, w) /\ e.version \in Nat
        BY <2>3, <4>1, PlaceFacts, ChangeTypes DEF BeforeLast, Same, FeedInv
      <4>3. CASE e.version > c.version
        <5>1. LateInTxn(e)'
          BY <1>1, <1>9, <2>1, <2>3, <4>1, <4>3, ExecLater
        <5> QED BY <4>2, <5>1
      <4>4. CASE e.version = c.version
        <5>1. ~world.ways[w].there
          <6>1. Thing(d) = world.ways[w] /\ d.version = Thing(d).version
            BY <3>2, <3>3 DEF NewestOfWay, Thing
          <6> QED BY <3>5, <6>1 DEF FeedInv, FeedTells, Matches
        <5>2. c.action # "remove" /\ c.refs = world.ways[w].refs
          BY <2>2, <2>3, <4>1, <4>4, <5>1 DEF WroteLast
        <5>3. new.ways[Other(T)][w].version = 0
          BY <1>1, <1>2, <1>3, <1>9, <2>1, <5>2, ExecWay
        <5> QED BY <1>2, <5>3 DEF OtherClear
      <4>5. e.version > c.version \/ e.version = c.version
        BY <2>2, <3>1, <4>1, <4>2
      <4> QED BY <4>3, <4>4, <4>5
    <3> QED BY <3>2, <3>3, <3>4, <3>5
  <2> QED BY <2>4, <2>5, <2>6
<1> QED BY <1>6, <1>7, <1>8, <1>9

\* A statement clears rows, leaves them as they are, or writes the version of its change.
LEMMA ExecVersions ==
  ASSUME FeedInv, ProgramTyped, BatchShape, Exec, NEW t \in Tables, NEW w \in Ways
  PROVE  \/ txn'.ways[t][w].version = 0
         \/ txn'.ways[t][w].version = txn.ways[t][w].version
         \/ \E c : /\ c = Head(batch).c /\ Plain(c) /\ Writes(c) /\ c.id = w
                   /\ txn'.ways[t][w].version = c.version
<1>1. PICK s \in StatementSet : s = Head(batch) /\ txn' = Apply(txn, s)
  BY ExecFacts
<1>2. CASE s.c.kind # "way"
  <2>1. s.c.kind = "node"
    BY <1>2, ChangeTypes DEF StatementSet, Moves
  <2>2. TablesTyped(txn)
    BY DEF ProgramTyped
  <2>3. Apply(txn, s).ways = txn.ways
    BY <2>1, <2>2, ApplyNode
  <2> QED BY <1>1, <2>3
<1>3. CASE s.c.kind = "way" /\ s.c.id # w
  BY <1>1, <1>3, ExecWay
<1>4. CASE s.c.kind = "way" /\ s.c.id = w
  <2>1. PICK new : new = txn'
    OBVIOUS
  <2>2. PICK U \in Tables : U = TableOf(s.c.refs)
    BY TwoTables
  <2>3. /\ s.c.action = "remove" =>
             /\ new.ways[U][w].version = 0
             /\ \A x \in Tables : x # U => new.ways[x][w] = txn.ways[x][w]
        /\ s.c.action # "remove" => \A x \in Tables : x # U => new.ways[x][w].version = 0
        /\ s.c.action = "modify_geom" => new.ways[U][w].version = txn.ways[U][w].version
    BY <1>1, <1>4, <2>1, <2>2, ExecWay
  <2>4. CASE s.c.action \in {"remove", "modify_geom"}
    BY <2>1, <2>3, <2>4
  <2>5. CASE s.c.action \notin {"remove", "modify_geom"}
    <3>1. Writes(s.c) /\ Plain(s.c)
      BY <1>4, <2>5 DEF Writes, Plain
    <3>2. new.ways[U][w].version = IF txn.ways[U][w].version <= s.c.version
                                   THEN s.c.version ELSE txn.ways[U][w].version
      BY <1>1, <1>4, <2>1, <2>2, <3>1, ExecWay
    <3> QED BY <1>1, <1>4, <2>1, <2>3, <2>5, <3>1, <3>2
  <2> QED BY <2>4, <2>5
<1> QED BY <1>2, <1>3, <1>4

LEMMA WaysNotNewerStep ==
  ASSUME FeedInv, ProgramTyped, BatchShape, WaysNotNewer, [Next]_vars
  PROVE  WaysNotNewer'
<1>1. CASE Edit
  <2>1. PICK c : Made(c)
    BY <1>1, EditMade DEF FeedInv
  <2>2. UNCHANGED <<osm, txn>>
    BY <2>1 DEF Made, program
  <2>3. ASSUME NEW w \in Ways, NEW t \in Tables
        PROVE  /\ osm.ways[t][w].version <= world.ways[w]'.version
               /\ txn.ways[t][w].version <= world.ways[w]'.version
    <3>1. /\ world.ways[w].version \in Nat
          /\ osm.ways[t][w].version \in Nat /\ txn.ways[t][w].version \in Nat
          /\ osm.ways[t][w].version <= world.ways[w].version
          /\ txn.ways[t][w].version <= world.ways[w].version
      BY WayRowFacts DEF WaysNotNewer
    <3>2. world.ways[w]' = world.ways[w] \/ world.ways[w]'.version = world.ways[w].version + 1
      BY <2>1, MadeWorld
    <3> QED BY <3>1, <3>2
  <2> QED BY <2>2, <2>3 DEF WaysNotNewer
<1>2. CASE Exec
  <2>1. UNCHANGED <<world, osm>>
    BY <1>2, ExecFacts
  <2>2. ASSUME NEW w \in Ways, NEW t \in Tables
        PROVE  txn'.ways[t][w].version <= world.ways[w].version
    <3>1. world.ways[w].version \in Nat /\ txn.ways[t][w].version <= world.ways[w].version
      BY WayRowFacts DEF WaysNotNewer
    <3>2. CASE \E c : /\ c = Head(batch).c /\ Plain(c) /\ Writes(c) /\ c.id = w
                      /\ txn'.ways[t][w].version = c.version
      <4>1. PICK c : /\ c = Head(batch).c /\ Plain(c) /\ Writes(c) /\ c.id = w
                     /\ txn'.ways[t][w].version = c.version
        BY <3>2
      <4>2. c.version <= Thing(c).version /\ Thing(c) = world.ways[w]
        BY <1>2, <4>1, HeadChange DEF Thing, Writes
      <4> QED BY <4>1, <4>2
    <3>3. 0 <= world.ways[w].version
      BY <3>1
    <3> QED BY <1>2, <3>1, <3>2, <3>3, ExecVersions
  <2> QED BY <2>1, <2>2 DEF WaysNotNewer
<1>3. CASE UNCHANGED world /\ osm' \in {osm, txn} /\ txn' \in {osm, txn}
  BY <1>3 DEF WaysNotNewer
<1>4. Publish \/ (\E k \in 1 .. FilesAtOnce : BeginRound(k)) \/ Commit \/ Restart \/ UNCHANGED vars
      => UNCHANGED world /\ osm' \in {osm, txn} /\ txn' \in {osm, txn}
  BY DEF Publish, BeginRound, Commit, Restart, vars, program
<1> QED BY <1>1, <1>2, <1>3, <1>4, StepCases DEF Works

LEMMA MovesHarmlessStep ==
  ASSUME FeedInv, ProgramTyped, BatchShape, RoundShape, TablesApart, NoCause, MovesHarmless,
         [Next]_vars
  PROVE  MovesHarmless'
<1>1. CASE UNCHANGED program
  BY <1>1 DEF MovesHarmless, program
<1>2. ASSUME NEW k \in 1 .. FilesAtOnce, BeginRound(k) PROVE MovesHarmless'
  <2>1. /\ txn' = txn /\ txn = osm /\ k \in Nat /\ k > 0 /\ position + k <= Len(feed)
    BY <1>2, RoundFacts DEF BeginRound, RoundShape
  <2>2. PICK W : W = Workers(k)
    OBVIOUS
  <2>3. /\ batch' = W
        /\ W \in Seq(StatementSet)
        /\ \A s \in ToSet(W) : \E i \in position + 1 .. position + k :
             ~Plain(s.c) => s.c \in ToSet(Indirect(feed[i], osm))
    BY <1>2, <2>1, <2>2, WorkersFacts DEF ProgramTyped, BeginRound
  <2>4. ASSUME NEW s \in ToSet(W), ~Plain(s.c)
        PROVE  osm.ways[Other(TableOf(s.c.refs))][s.c.id].version = 0
    <3>1. PICK i : s.c \in ToSet(Indirect(feed[i], osm))
      BY <2>3, <2>4
    <3>2. PICK table \in Tables : /\ s.c.version = osm.ways[table][s.c.id].version /\ s.c.version > 0
                                  /\ s.c.refs = osm.ways[table][s.c.id].refs
      BY <3>1, IndirectFacts DEF ProgramTyped
    <3>3. s.c.id \in Ways
      <4>1. s \in StatementSet
        BY <2>3, ToSetFinite
      <4>2. s.c \in Changes => Plain(s.c)
        BY ChangeTypes DEF Plain
      <4> QED BY <2>4, <4>1, <4>2 DEF StatementSet, Moves
    <3>4. TableOf(s.c.refs) = table
      BY <3>2, <3>3 DEF ProgramTyped, TablesTyped
    <3>5. PICK x \in Tables : osm.ways[x][s.c.id].version = 0
      BY <3>3 DEF TablesApart, Disjoint
    <3>6. x # table /\ x = Other(table)
      <4>1. x # table
        BY <3>2, <3>5
      <4>2. \A t \in Tables : t = table \/ t = Other(table)
        BY TwoTables DEF Tables
      <4> QED BY <4>1, <4>2
    <3> QED BY <3>4, <3>5, <3>6
  <2> QED BY <2>1, <2>3, <2>4 DEF MovesHarmless
<1>3. CASE Exec
  <2>1. ToSet(batch') \subseteq ToSet(batch) /\ Head(batch) \in ToSet(batch)
    BY <1>3, ExecFacts
  <2>2. PICK new : new = txn'
    OBVIOUS
  <2>3. ASSUME NEW s \in ToSet(batch'), ~Plain(s.c)
        PROVE  new.ways[Other(TableOf(s.c.refs))][s.c.id].version = 0
    <3>1. txn.ways[Other(TableOf(s.c.refs))][s.c.id].version = 0
      BY <2>1, <2>3 DEF MovesHarmless
    <3>2. PICK e \in Edits : e.kind = "node" /\ e.action = "modify"
      BY <2>1, <2>3 DEF BatchShape
    <3>3. ASSUME NEW c, c = Head(batch).c, Plain(c), Writes(c) PROVE FALSE
      <4>1. c \in Edits
        BY <1>3, <3>3, HeadChange
      <4> QED BY <3>2, <3>3, <4>1 DEF NoCause, MovedWhileWritten, Writes
    <3>4. s.c.id \in Ways
      <4>1. s \in StatementSet
        BY <2>1, ToSetFinite DEF ProgramTyped
      <4>2. s.c \in Changes => Plain(s.c)
        BY ChangeTypes DEF Plain
      <4> QED BY <2>3, <4>1, <4>2 DEF StatementSet, Moves
    <3>5. PICK x \in Tables : x = Other(TableOf(s.c.refs))
      BY TwoTables
    <3> QED BY <1>3, <2>2, <3>1, <3>3, <3>4, <3>5, ExecVersions
  <2> QED BY <2>2, <2>3 DEF MovesHarmless
<1>4. CASE Commit \/ Restart
  <2>1. batch' = <<>>
    BY <1>4 DEF Commit, Restart
  <2> QED BY <2>1 DEF MovesHarmless, ToSet
<1>5. \/ UNCHANGED program \/ (\E k \in 1 .. FilesAtOnce : BeginRound(k))
      \/ Exec \/ Commit \/ Restart
  BY DEF Next, vars, program, Publish, DropNode, EditNode, DropWay, EditWay
<1> QED BY <1>1, <1>2, <1>3, <1>4, <1>5

\* A way is stored right or late, with P the late changes.
StoredOrLate(db, P, w) ==
  \/ StoredRight(db, w)
  \/ \E c \in P : /\ NewestOfWay(c, w)
                  /\ c.action = "remove" => OtherClear(db, w) \/ \E d \in P : BeforeLast(d, w)

LEMMA WaysFollowAgain ==
  ASSUME NEW P, P = {c \in Log : Late(c)}, NEW Q, Q = {c \in Log : LateInTxn(c)}
  PROVE  WaysFollow <=> \A w \in Ways : StoredOrLate(osm, P, w) /\ StoredOrLate(txn, Q, w)
<1>1. ASSUME NEW w \in Ways
      PROVE  StoredOrLate(osm, P, w) <=>
               \/ StoredRight(osm, w)
               \/ \E c \in Log : /\ NewestOfWay(c, w) /\ Late(c)
                                 /\ c.action = "remove" =>
                                      OtherClear(osm, w) \/ \E d \in Log : BeforeLast(d, w) /\ Late(d)
  BY DEF StoredOrLate
<1>2. ASSUME NEW w \in Ways
      PROVE  StoredOrLate(txn, Q, w) <=>
               \/ StoredRight(txn, w)
               \/ \E c \in Log : /\ NewestOfWay(c, w) /\ LateInTxn(c)
                                 /\ c.action = "remove" =>
                                      OtherClear(txn, w) \/ \E d \in Log : BeforeLast(d, w) /\ LateInTxn(d)
  BY DEF StoredOrLate
<1> QED BY <1>1, <1>2 DEF WaysFollow

LEMMA WaysFollowMade ==
  ASSUME FeedInv, ProgramTyped, WaysFollow, NEW c, Made(c)
  PROVE  WaysFollow'
<1>1. UNCHANGED <<osm, txn>> /\ Log' = Log \cup {c} /\ c \in Changes
  BY MadeFacts DEF Made, program, FeedInv
<1>2. Late(c)' /\ LateInTxn(c)' /\ (\A d : Late(d) => Late(d)') /\ \A d : LateInTxn(d) => LateInTxn(d)'
  BY LateMade
<1>3. ASSUME NEW w \in Ways, c.kind = "way", c.id = w
      PROVE  /\ NewestOfWay(c, w)' /\ \A d : NewestOfWay(d, w) => BeforeLast(d, w)'
             /\ c.action = "remove" => world.ways[w]'.refs = world.ways[w].refs
  <2>1. world.ways[w]'.version = c.version /\ c.version = world.ways[w].version + 1
    BY <1>3, MadeWorld
  <2>2. c.action = "remove" => Thing(c)'.refs = Thing(c).refs
    BY <1>3, MadeFacts DEF FeedInv
  <2>3. Thing(c) = world.ways[w] /\ Thing(c)' = world.ways[w]'
    BY <1>3 DEF Thing
  <2> QED BY <1>3, <2>1, <2>2, <2>3 DEF NewestOfWay, BeforeLast
<1>4. ASSUME NEW w \in Ways, NEW db, NEW P, NEW Q, P \subseteq Q, c \in Q, StoredOrLate(db, P, w)
      PROVE  StoredOrLate(db, Q, w)'
  <2>1. CASE c.kind = "way" /\ c.id = w
    <3>1. ASSUME c.action = "remove"
          PROVE  OtherClear(db, w)' \/ \E d \in Q : BeforeLast(d, w)'
      <4>1. CASE StoredRight(db, w)
        <5>1. PICK T \in Tables : T = TableOf(world.ways[w].refs)
          BY TwoTables
        <5>2. Other(T) \in Tables /\ Other(T) # T
          BY TwoTables
        <5>3. db.ways[Other(T)][w].version = 0
          BY <4>1, <5>1, <5>2 DEF StoredRight
        <5>4. TableOf(world.ways[w]'.refs) = T
          BY <1>3, <2>1, <3>1, <5>1
        <5> QED BY <5>3, <5>4 DEF OtherClear
      <4>2. CASE \E d \in P : NewestOfWay(d, w)
        BY <1>3, <1>4, <2>1, <4>2
      <4> QED BY <1>4, <4>1, <4>2 DEF StoredOrLate
    <3>2. NewestOfWay(c, w)'
      BY <1>3, <2>1
    <3> QED BY <1>4, <3>1, <3>2 DEF StoredOrLate
  <2>2. CASE ~(c.kind = "way" /\ c.id = w)
    <3>1. world.ways[w]' = world.ways[w]
      BY <2>2, MadeWorld
    <3>2. /\ StoredRight(db, w)' <=> StoredRight(db, w)
          /\ OtherClear(db, w)' <=> OtherClear(db, w)
          /\ \A d : NewestOfWay(d, w)' <=> NewestOfWay(d, w)
          /\ \A d : BeforeLast(d, w)' <=> BeforeLast(d, w)
      BY <3>1 DEF StoredRight, OtherClear, NewestOfWay, BeforeLast
    <3> QED BY <1>4, <3>2 DEF StoredOrLate
  <2> QED BY <2>1, <2>2
<1>5. PICK P, Q : P = {d \in Log : Late(d)} /\ Q = {d \in Log : LateInTxn(d)}
  OBVIOUS
<1>6. PICK P2, Q2 : P2 = {d \in Log' : Late(d)'} /\ Q2 = {d \in Log' : LateInTxn(d)'}
  OBVIOUS
<1>7. P \subseteq P2 /\ Q \subseteq Q2 /\ c \in P2 /\ c \in Q2
  BY <1>1, <1>2, <1>5, <1>6
<1>8. PICK old, run : old = osm /\ run = txn
  OBVIOUS
<1>9. \A w \in Ways : StoredOrLate(old, P, w) /\ StoredOrLate(run, Q, w)
  BY <1>5, <1>8, WaysFollowAgain
<1>10. \A w \in Ways : StoredOrLate(old, P2, w)' /\ StoredOrLate(run, Q2, w)'
  BY <1>4, <1>7, <1>9
<1>11. osm' = old /\ txn' = run
  BY <1>1, <1>8
<1>12. WaysFollow'
  <2>1. ASSUME NEW w \in Ways
        PROVE  /\ \/ StoredRight(old, w)'
                  \/ \E d \in Log' : /\ NewestOfWay(d, w)' /\ Late(d)'
                                     /\ d.action = "remove" =>
                                          OtherClear(old, w)' \/ \E e \in Log' : BeforeLast(e, w)' /\ Late(e)'
               /\ \/ StoredRight(run, w)'
                  \/ \E d \in Log' : /\ NewestOfWay(d, w)' /\ LateInTxn(d)'
                                     /\ d.action = "remove" =>
                                          OtherClear(run, w)' \/ \E e \in Log' : BeforeLast(e, w)' /\ LateInTxn(e)'
    BY <1>6, <1>10 DEF StoredOrLate
  <2> QED BY <1>11, <2>1 DEF WaysFollow, StoredRight, OtherClear
<1> QED BY <1>12

\* The other way round, for a step that leaves OSM alone.
LEMMA WaysFollowThen ==
  ASSUME UNCHANGED world, Log' = Log, NEW old, old = osm', NEW run, run = txn',
         NEW P, P = {c \in Log : Late(c)'}, NEW Q, Q = {c \in Log : LateInTxn(c)'},
         \A w \in Ways : StoredOrLate(old, P, w) /\ StoredOrLate(run, Q, w)
  PROVE  WaysFollow'
<1>1. ASSUME NEW w \in Ways
      PROVE  /\ StoredRight(old, w)' <=> StoredRight(old, w)
             /\ StoredRight(run, w)' <=> StoredRight(run, w)
             /\ OtherClear(old, w)' <=> OtherClear(old, w)
             /\ OtherClear(run, w)' <=> OtherClear(run, w)
             /\ \A c : NewestOfWay(c, w)' <=> NewestOfWay(c, w)
             /\ \A c : BeforeLast(c, w)' <=> BeforeLast(c, w)
  BY DEF StoredRight, OtherClear, NewestOfWay, BeforeLast
<1>2. ASSUME NEW w \in Ways
      PROVE  /\ \/ StoredRight(old, w)'
                \/ \E c \in Log' : /\ NewestOfWay(c, w)' /\ Late(c)'
                                   /\ c.action = "remove" =>
                                        OtherClear(old, w)' \/ \E d \in Log' : BeforeLast(d, w)' /\ Late(d)'
             /\ \/ StoredRight(run, w)'
                \/ \E c \in Log' : /\ NewestOfWay(c, w)' /\ LateInTxn(c)'
                                   /\ c.action = "remove" =>
                                        OtherClear(run, w)' \/ \E d \in Log' : BeforeLast(d, w)' /\ LateInTxn(d)'
  BY <1>1 DEF StoredOrLate
<1> QED BY <1>2 DEF WaysFollow, StoredRight, OtherClear

LEMMA MoreLate ==
  ASSUME NEW db, NEW P, NEW Q, P \subseteq Q, NEW w, StoredOrLate(db, P, w)
  PROVE  StoredOrLate(db, Q, w)
BY DEF StoredOrLate

LEMMA WaysFollowStep ==
  ASSUME FeedInv, ProgramTyped, BatchShape, WaysNotNewer, ~BareDelete, AllWritten("way"),
         UpToDate("way"), MovesHarmless, WaysFollow, [Next]_vars
  PROVE  WaysFollow'
<1>1. CASE Edit
  BY <1>1, EditMade, WaysFollowMade DEF FeedInv
<1>2. PICK old, run, old2, run2 : old = osm /\ run = txn /\ old2 = osm' /\ run2 = txn'
  OBVIOUS
<1>3. PICK P, Q : P = {c \in Log : Late(c)} /\ Q = {c \in Log : LateInTxn(c)}
  OBVIOUS
<1>4. PICK P2, Q2 : P2 = {c \in Log : Late(c)'} /\ Q2 = {c \in Log : LateInTxn(c)'}
  OBVIOUS
<1>5. \A w \in Ways : StoredOrLate(old, P, w) /\ StoredOrLate(run, Q, w)
  BY <1>2, <1>3, WaysFollowAgain
<1>6. ASSUME UNCHANGED world, Log' = Log,
             \A w \in Ways : StoredOrLate(old2, P2, w) /\ StoredOrLate(run2, Q2, w)
      PROVE  WaysFollow'
  BY <1>2, <1>4, <1>6, WaysFollowThen
<1>7. CASE Publish
  <2>1. UNCHANGED <<world, osm, txn>> /\ Log' = Log
    BY <1>7, PublishFacts DEF Publish, program, FeedInv
  <2>2. P \subseteq P2 /\ Q \subseteq Q2
    BY <1>3, <1>4, <1>7, LatePublish
  <2> QED BY <1>2, <1>5, <1>6, <2>1, <2>2, MoreLate
<1>8. ASSUME NEW k \in 1 .. FilesAtOnce, BeginRound(k) PROVE WaysFollow'
  <2>1. UNCHANGED <<world, open, feed, osm, txn>>
    BY <1>8 DEF BeginRound
  <2>2. /\ \A c : Late(c)' <=> Late(c)
        /\ \A c \in Log : LateInTxn(c) => Late(c)
    BY <1>8, BeginFacts
  <2>3. PICK Q1 : Q1 = {c \in Q : c.kind = "way"}
    OBVIOUS
  <2>4. Log' = Log
    BY <2>1, SameFeed
  <2>5. P \subseteq P2 /\ Q1 \subseteq Q2
    BY <1>3, <1>4, <1>8, <2>2, <2>3 DEF AllWritten
  <2>6. \A w \in Ways : StoredOrLate(run, Q1, w)
    BY <1>5, <2>3 DEF StoredOrLate, NewestOfWay, BeforeLast
  <2> QED BY <1>2, <1>5, <1>6, <2>1, <2>4, <2>5, <2>6, MoreLate
<1>9. CASE Exec
  <2>1. UNCHANGED <<world, open, feed, osm>> /\ \A c : Late(c)' <=> Late(c)
    BY <1>9, ExecFacts
  <2>2. Log' = Log
    BY <2>1, SameFeed
  <2>3. P2 = P /\ old2 = old
    BY <1>2, <1>3, <1>4, <2>1
  <2>4. ASSUME NEW w \in Ways PROVE StoredOrLate(run2, Q2, w)
    <3>1. \/ StoredRight(run2, w)
          \/ \E c \in Log : /\ NewestOfWay(c, w) /\ LateInTxn(c)'
                            /\ c.action = "remove" =>
                                 OtherClear(run2, w) \/ \E d \in Log : BeforeLast(d, w) /\ LateInTxn(d)'
      BY <1>2, <1>9, ExecFollow
    <3> QED BY <1>4, <3>1 DEF StoredOrLate
  <2> QED BY <1>5, <1>6, <2>1, <2>2, <2>3, <2>4
<1>10. CASE Commit
  <2>1. /\ UNCHANGED <<world, open, feed, txn>> /\ osm' = txn
        /\ \A c : Late(c)' <=> LateInTxn(c)
        /\ \A c : LateInTxn(c)' <=> LateInTxn(c)
    BY <1>10, CommitFacts
  <2>2. Log' = Log
    BY <2>1, SameFeed
  <2>3. P2 = Q /\ Q2 = Q /\ old2 = run /\ run2 = run
    BY <1>2, <1>3, <1>4, <2>1
  <2> QED BY <1>5, <1>6, <2>1, <2>2, <2>3
<1>11. CASE Restart
  <2>1. /\ UNCHANGED <<world, open, feed, osm>> /\ txn' = osm
        /\ \A c : Late(c) => Late(c)' /\ LateInTxn(c)'
    BY <1>11, RestartFacts
  <2>2. Log' = Log
    BY <2>1, SameFeed
  <2>3. P \subseteq P2 /\ P \subseteq Q2 /\ old2 = old /\ run2 = old
    BY <1>2, <1>3, <1>4, <2>1
  <2> QED BY <1>5, <1>6, <2>1, <2>2, <2>3, MoreLate
<1>12. CASE UNCHANGED vars
  <2>1. UNCHANGED <<world, open, feed, osm, txn>> /\ UNCHANGED <<position, taken, batch>>
    BY <1>12 DEF vars
  <2>2. Log' = Log /\ (\A c : Late(c)' <=> Late(c)) /\ \A c : LateInTxn(c)' <=> LateInTxn(c)
    BY <2>1, SameFeed DEF Late, LateInTxn
  <2>3. P2 = P /\ Q2 = Q /\ old2 = old /\ run2 = run
    BY <1>2, <1>3, <1>4, <2>1, <2>2
  <2> QED BY <1>5, <1>6, <2>1, <2>2, <2>3
<1> QED BY <1>1, <1>7, <1>8, <1>9, <1>10, <1>11, <1>12, StepCases DEF Works

LEMMA InitWays == Init => WayInv
<1> SUFFICES ASSUME Init PROVE WayInv
  OBVIOUS
<1>1. FeedInv /\ ProgramTyped /\ batch = <<>> /\ osm = Imported(world) /\ txn = osm
  BY InitTyped DEF Init
<1>2. ASSUME NEW w \in Ways, NEW t \in Tables
      PROVE  osm.ways[t][w].version =
               IF world.ways[w].there /\ TableOf(world.ways[w].refs) = t
               THEN world.ways[w].version ELSE 0
  BY <1>1 DEF Imported, NoWay
<1>3. ASSUME NEW w \in Ways, NEW t \in Tables PROVE osm.ways[t][w].version <= world.ways[w].version
  <2>1. world.ways[w].version \in Nat
    BY <1>1, WayRowFacts
  <2> QED BY <1>2, <2>1
<1>4. WaysNotNewer
  BY <1>1, <1>3 DEF WaysNotNewer
<1>5. \A w \in Ways : StoredRight(osm, w)
  BY <1>2 DEF StoredRight
<1>6. WaysFollow
  BY <1>1, <1>5 DEF WaysFollow
<1>7. UpToDate("way") /\ MovesHarmless
  BY <1>1 DEF UpToDate, MovesHarmless, ToSet
<1> QED BY <1>4, <1>6, <1>7, InitFirst, InitApart DEF WayInv

LEMMA StepWays ==
  ASSUME FeedInv, ProgramTyped, BatchShape, UpToDate("node"), WayInv, [Next]_vars
  PROVE  WayInv'
<1>1. NodesFirst /\ NodesMissing /\ RoundShape /\ TablesApart /\ WaysNotNewer
  BY DEF WayInv
<1>2. NodesFirst' /\ NodesMissing' /\ RoundShape' /\ TablesApart' /\ WaysNotNewer'
  BY <1>1, NodesFirstStep, NodesMissingStep, RoundShapeStep, NextApart, WaysNotNewerStep
<1>3. ASSUME NoCause' PROVE UpToDate("way")' /\ WaysFollow' /\ MovesHarmless'
  <2>1. NoCause
    BY <1>3, CausesStay
  <2>2. UpToDate("way") /\ WaysFollow /\ MovesHarmless
    BY <2>1 DEF WayInv
  <2>3. \A i \in DOMAIN feed : \A c \in In(i) :
          i > position => IsWritten(c, KnownNodes(feed[i], osm), GaveUp(feed[i], osm))
    BY <1>1, <2>1, WaysWritten
  <2>4. AllWritten("way")
    BY <2>3, WrittenRound
  <2>5. UpToDate("way")'
    BY <2>2, <2>4, UpToDateStep
  <2>6. ~BareDelete
    BY <2>1 DEF NoCause
  <2> QED BY <1>1, <2>1, <2>2, <2>4, <2>5, <2>6, WaysFollowStep, MovesHarmlessStep
<1> QED BY <1>2, <1>3 DEF WayInv

\* Once everything is taken, nothing is to come that would make it right.
LEMMA FollowsInStep ==
  ASSUME FeedInv, ProgramTyped, WaysFollow, InStep, NEW w \in Ways
  PROVE  Stored(w) = IF world.ways[w].there THEN {world.ways[w].version} ELSE {}
<1>1. StoredRight(osm, w)
  BY LateInStep DEF WaysFollow
<1>2. PICK T \in Tables : T = TableOf(world.ways[w].refs)
  BY TwoTables
<1>3. PICK v \in Nat : v = world.ways[w].version /\ (world.ways[w].there => v > 0)
  BY WayRowFacts
<1>4. \A t \in Tables : osm.ways[t][w].version = IF world.ways[w].there /\ t = T THEN v ELSE 0
  BY <1>1, <1>2, <1>3 DEF StoredRight
<1>5. {osm.ways[t][w].version : t \in Tables} \ {0} = IF world.ways[w].there THEN {v} ELSE {}
  <2>1. CASE world.ways[w].there
    <3>1. v # 0
      BY <1>3, <2>1
    <3>2. osm.ways[T][w].version = v
      BY <1>4, <2>1
    <3> QED BY <1>4, <2>1, <3>1, <3>2
  <2>2. CASE ~world.ways[w].there
    BY <1>4, <2>2
  <2> QED BY <2>1, <2>2
<1> QED BY <1>3, <1>5 DEF Stored

\* In rounds of any size, and after restarts on any file applied before, the ways stored
\* are those of OSM, each once and at its version, and no other, unless a file moved
\* nodes, a way was written on nodes of an earlier file, a ring was deleted without its
\* references, a node was deleted and the program started again, or a way ended where it
\* began and was too short for a ring.
THEOREM LostForCause == Spec => []WaysLostForCause
<1>1. FeedInv /\ ProgramTyped /\ NodeInv /\ WayInv => WaysLostForCause
  <2> SUFFICES ASSUME FeedInv, ProgramTyped, WayInv, InStep, NoCause, NEW w \in Ways
               PROVE  Stored(w) = IF world.ways[w].there THEN {world.ways[w].version} ELSE {}
    BY DEF WaysLostForCause, NoCause
  <2> QED BY FollowsInStep DEF WayInv
<1>2. FeedInv /\ ProgramTyped /\ NodeInv /\ WayInv /\ [Next]_vars => WayInv'
  BY StepWays DEF NodeInv
<1> QED
  BY InitTyped, InitNodes, InitWays, StepFeed, StepTyped, StepNodes, <1>1, <1>2, PTL DEF Spec

-----------------------------------------------------------------------------
(* The ways, when files are taken one by one.                              *)

\* The conditions of WaysInStep that are not about what has happened: one file at a time,
\* deletions that list the references, rings that stay rings, and none too short for one.
Steady ==
  /\ FilesAtOnce = 1
  /\ "none" \notin RefsOnDelete
  /\ \A r, s \in Refs : TableOf(r) = TableOf(s)
  /\ \A r \in Refs : Closed(r) \/ r[1] # Last(r)

OfWay(c, w) == c.kind = "way" /\ c.id = w

FullDeletes == \A c \in Log : c.kind = "way" => c.refs \in Refs

\* A node is deleted once no way is on it: a way that was written on it is changed again
\* in a file not after that of the deletion, unless it was written after the node had been
\* made again.
NodesKept ==
  \A i, j \in Places : \A d \in In(i), r \in In(j) : \A n \in Nodes :
    WritesOn(d, n) /\ IsNode(r, n, "remove") =>
      \/ \E k \in Places : k <= j /\ \E e \in In(k) : Same(e, d) /\ e.version > d.version
      \/ \E k \in Places : k <= i /\ \E e \in In(k) :
           Same(e, r) /\ e.action # "remove" /\ e.version > r.version

\* The places of the changes of a node or way follow their versions.
LEMMA PlaceOrder ==
  ASSUME FeedInv, NEW i \in Places, NEW j \in Places, NEW c \in In(i), NEW d \in In(j), Same(c, d)
  PROVE  /\ i \in Nat /\ j \in Nat /\ c.version \in Nat /\ d.version \in Nat
         /\ c \in Log /\ d \in Log
         /\ c.version <= d.version => i <= j
         /\ c = d => i = j
<1>1. i \in Nat /\ j \in Nat /\ c \in Changes /\ d \in Changes /\ c \in Log /\ d \in Log
  BY PlaceFacts DEF FeedInv, Log
<1>2. c.version \in Nat /\ d.version \in Nat
  BY <1>1, ChangeTypes
<1>3. /\ i < j => c.version < d.version
      /\ j < i => d.version < c.version
  BY DEF FeedInv, FeedRises, Same
<1> QED BY <1>1, <1>2, <1>3

LEMMA FullDeletesStep ==
  ASSUME Steady, FeedInv, FullDeletes, [Next]_vars
  PROVE  FullDeletes'
<1>1. CASE Edit
  <2>1. PICK e : Made(e)
    BY <1>1, EditMade DEF FeedInv
  <2>2. Log' = Log \cup {e} /\ e \in Changes
    BY <2>1, MadeFacts DEF FeedInv
  <2>3. ASSUME e.kind = "way" PROVE e.refs \in Refs
    <3>1. CASE e.action = "remove"
      <4>1. e.refs = world.ways[e.id].refs
        BY <2>1, <2>3, <3>1 DEF Made, Steady
      <4>2. e.id \in Ways
        BY <2>2, <2>3, ChangeTypes
      <4> QED BY <4>1, <4>2 DEF FeedInv, FeedShape, Worlds
    <3>2. CASE e.action # "remove"
      BY <2>2, <2>3, <3>2, ChangeTypes DEF Writes
    <3> QED BY <3>1, <3>2
  <2> QED BY <2>2, <2>3 DEF FullDeletes
<1>2. CASE Publish
  BY <1>2, PublishFacts DEF FullDeletes, FeedInv
<1>3. CASE Works \/ UNCHANGED vars
  BY <1>3, WorkFacts, SameFeed DEF FullDeletes
<1> QED BY <1>1, <1>2, <1>3, StepCases

LEMMA NodesKeptMade ==
  ASSUME FeedInv, NodesKept, NEW x, Made(x)
  PROVE  NodesKept'
<1>1. PICK last \in Places : last = Len(feed) + 1
  BY PlaceFacts DEF FeedInv
<1>2. /\ Places' = Places
      /\ \A i \in Places : In(i)' = IF i = last THEN In(i) \cup {x} ELSE In(i)
      /\ x \in Changes /\ Log \subseteq Changes
      /\ \A i \in Places : i \in Nat /\ i <= last
  BY <1>1, MadeFacts, PlaceFacts DEF FeedInv
<1>3. ASSUME NEW e \in Log
      PROVE  \E k \in Places : k <= last /\ e \in In(k) /\ e \in In(k)'
  BY <1>2 DEF Log
<1> SUFFICES ASSUME NEW i \in Places, NEW j \in Places, NEW d \in In(i)', NEW r \in In(j)',
                    NEW n \in Nodes, WritesOn(d, n), IsNode(r, n, "remove")
             PROVE  \/ \E k \in Places : k <= j /\ \E e \in In(k)' : Same(e, d) /\ e.version > d.version
                    \/ \E k \in Places : k <= i /\ \E e \in In(k)' :
                         Same(e, r) /\ e.action # "remove" /\ e.version > r.version
  BY <1>2 DEF NodesKept
<1>4. d # r
  BY DEF WritesOn, Writes, IsNode
<1>5. CASE d \in In(i) /\ r \in In(j)
  <2>1. CASE \E k \in Places : k <= j /\ \E e \in In(k) : Same(e, d) /\ e.version > d.version
    BY <1>2, <2>1
  <2>2. CASE \E k \in Places : k <= i /\ \E e \in In(k) :
               Same(e, r) /\ e.action # "remove" /\ e.version > r.version
    BY <1>2, <2>2
  <2> QED BY <1>5, <2>1, <2>2 DEF NodesKept
<1>6. CASE d \in In(i) /\ r = x /\ j = last
  <2>1. d \in Log /\ d \in Changes /\ d.kind = "way" /\ d.id \in Ways /\ d.action # "remove"
    BY <1>2, <1>6, ChangeTypes DEF Log, WritesOn, Writes
  <2>2. Thing(d) = world.ways[d.id] /\ d.version \in Nat /\ Thing(d).version \in Nat
    BY <2>1, ChangeTypes DEF Thing, FeedInv, FeedShape, Worlds
  <2>3. d.version # Thing(d).version
    <3>1. SUFFICES ASSUME d.version = Thing(d).version PROVE FALSE
      OBVIOUS
    <3>2. world.ways[d.id].there /\ d.refs = world.ways[d.id].refs
      BY <2>1, <2>2, <3>1 DEF FeedInv, FeedTells, Matches
    <3>3. x.kind = "node" /\ x.id = n /\ x.action = "remove"
      BY <1>6 DEF IsNode
    <3>4. n \notin ToSet(world.ways[d.id].refs)
      BY <2>1, <3>2, <3>3 DEF Made
    <3> QED BY <3>2, <3>4 DEF WritesOn
  <2>4. PICK e \in Log : Same(d, e) /\ e.version = Thing(d).version
    BY <2>1 DEF FeedInv, FeedTells, Newest
  <2>5. e.version > d.version /\ Same(e, d)
    BY <2>1, <2>2, <2>3, <2>4 DEF FeedInv, FeedTells, Same
  <2> QED BY <1>3, <1>6, <2>5
<1>7. CASE d = x /\ i = last /\ r \in In(j)
  <2>1. r \in Log /\ r \in Changes /\ r.kind = "node" /\ r.id = n /\ r.action = "remove"
    BY <1>2, <1>7 DEF Log, IsNode
  <2>2. Thing(r) = world.nodes[n] /\ r.version \in Nat /\ Thing(r).version \in Nat
    BY <2>1, ChangeTypes DEF Thing, FeedInv, FeedShape, Worlds
  <2>3. Thing(r).there
    BY <1>7, <2>2 DEF Made, WritesOn, Writes
  <2>4. r.version # Thing(r).version
    BY <2>1, <2>3 DEF FeedInv, FeedTells, Matches
  <2>5. PICK e \in Log : Same(r, e) /\ e.version = Thing(r).version
    BY <2>1 DEF FeedInv, FeedTells, Newest
  <2>6. e.version > r.version /\ Same(e, r)
    <3>1. r.version <= Thing(r).version
      BY <2>1 DEF FeedInv, FeedTells
    <3> QED BY <2>2, <2>4, <2>5, <3>1 DEF Same
  <2>7. Thing(e) = Thing(r)
    BY <2>6 DEF Same, Thing
  <2>8. e.action # "remove"
    BY <2>3, <2>5, <2>7 DEF FeedInv, FeedTells, Matches
  <2> QED BY <1>3, <1>7, <2>6, <2>8
<1> QED BY <1>2, <1>4, <1>5, <1>6, <1>7

LEMMA NodesKeptStep ==
  ASSUME FeedInv, NodesKept, [Next]_vars
  PROVE  NodesKept'
<1>1. CASE Edit
  BY <1>1, EditMade, NodesKeptMade DEF FeedInv
<1>2. CASE Publish
  <2>1. /\ Places' = Places \cup {Len(feed) + 2}
        /\ \A i \in Places : In(i)' = In(i)
        /\ \A i \in Nat : i = Len(feed) + 2 => In(i)' = {}
    BY <1>2, PublishFacts DEF FeedInv
  <2>2. Len(feed) + 2 \in Nat
    BY DEF FeedInv, FeedShape
  <2>3. \A i \in Places' : \A c \in In(i)' : i \in Places /\ c \in In(i)
    BY <2>1, <2>2
  <2> SUFFICES ASSUME NEW i \in Places', NEW j \in Places', NEW d \in In(i)', NEW r \in In(j)',
                      NEW n \in Nodes, WritesOn(d, n), IsNode(r, n, "remove")
               PROVE  \/ \E k \in Places' : k <= j /\ \E e \in In(k)' : Same(e, d) /\ e.version > d.version
                      \/ \E k \in Places' : k <= i /\ \E e \in In(k)' :
                           Same(e, r) /\ e.action # "remove" /\ e.version > r.version
    BY DEF NodesKept
  <2>4. \/ \E k \in Places : k <= j /\ \E e \in In(k) : Same(e, d) /\ e.version > d.version
        \/ \E k \in Places : k <= i /\ \E e \in In(k) :
             Same(e, r) /\ e.action # "remove" /\ e.version > r.version
    BY <2>3 DEF NodesKept
  <2> QED BY <2>1, <2>4
<1>3. CASE Works \/ UNCHANGED vars
  <2>1. UNCHANGED <<world, open, feed>>
    BY <1>3, WorkFacts
  <2>2. Places' = Places /\ \A i : In(i)' = In(i)
    BY <2>1, SameFeed
  <2> QED BY <2>2 DEF NodesKept
<1> QED BY <1>1, <1>2, <1>3, StepCases

\* Where a row of a way is from.  From the import: all changes of the way are newer, no
\* node it is on was deleted before the first of them, and until then OSM has it so.
Original(w, row) ==
  /\ row.refs \in Refs
  /\ \A c \in Log : OfWay(c, w) => c.version > row.version
  /\ \A j \in Places : \A r \in In(j) : \A n \in ToSet(row.refs) :
       IsNode(r, n, "remove") => \E k \in Places : k <= j /\ \E c \in In(k) : OfWay(c, w)
  /\ (~\E c \in Log : OfWay(c, w)) => world.ways[w].there /\ world.ways[w].refs = row.refs

\* Or from a change of a file, one taken already unless the program was started again.
Applied(w, row) ==
  \E i \in DOMAIN feed :
    /\ restarts = 0 => i <= position + taken
    /\ \E c \in In(i) : OfWay(c, w) /\ Writes(c) /\ c.version = row.version /\ c.refs = row.refs

RowFrom(w, row) == Original(w, row) \/ Applied(w, row)

\* Without a restart, no file taken is given back.
LEMMA TakenStay ==
  ASSUME ProgramTyped, [Next]_vars
  PROVE  restarts' = 0 => restarts = 0 /\ position' + taken' >= position + taken
<1>1. position \in Nat /\ taken \in Nat /\ restarts \in Nat
  BY DEF ProgramTyped
<1>2. CASE UNCHANGED program
  BY <1>1, <1>2 DEF program
<1>3. ASSUME NEW k \in 1 .. FilesAtOnce, BeginRound(k)
      PROVE  restarts' = 0 => restarts = 0 /\ position' + taken' >= position + taken
  BY <1>1, <1>3, RoundFacts DEF BeginRound, Idle
<1>4. CASE Exec \/ Commit \/ Restart
  BY <1>1, <1>4 DEF Exec, Commit, Restart
<1>5. \/ UNCHANGED program \/ (\E k \in 1 .. FilesAtOnce : BeginRound(k))
      \/ Exec \/ Commit \/ Restart
  BY DEF Next, vars, program, Publish, DropNode, EditNode, DropWay, EditWay
<1> QED BY <1>2, <1>3, <1>4, <1>5

LEMMA AppliedStays ==
  ASSUME FeedInv, ProgramTyped, [Next]_vars, NEW w, NEW row, Applied(w, row)
  PROVE  Applied(w, row)'
<1>1. PICK i \in DOMAIN feed :
        /\ restarts = 0 => i <= position + taken
        /\ \E c \in In(i) : OfWay(c, w) /\ Writes(c) /\ c.version = row.version /\ c.refs = row.refs
  BY DEF Applied
<1>2. i \in DOMAIN feed' /\ In(i)' = In(i)
  BY EditsStay DEF In
<1>3. restarts' = 0 => i <= position' + taken'
  <2>1. /\ i \in Nat /\ position \in Nat /\ taken \in Nat /\ position' \in Nat /\ taken' \in Nat
    BY StepTyped, PlaceFacts DEF ProgramTyped, FeedInv
  <2> QED BY <1>1, <2>1, TakenStay
<1> QED BY <1>1, <1>2, <1>3 DEF Applied

LEMMA OriginalStays ==
  ASSUME FeedInv, [Next]_vars, NEW w \in Ways, NEW row, Original(w, row),
         row.version \in Nat, row.version <= world.ways[w].version
  PROVE  Original(w, row)'
<1>1. CASE Edit
  <2>1. PICK x : Made(x)
    BY <1>1, EditMade DEF FeedInv
  <2>2. PICK last \in Places : last = Len(feed) + 1
    BY PlaceFacts DEF FeedInv
  <2>3. /\ Places' = Places
        /\ \A i \in Places : In(i)' = IF i = last THEN In(i) \cup {x} ELSE In(i)
        /\ x \in Changes /\ Log' = Log \cup {x} /\ x.version = Thing(x).version + 1
        /\ \A i \in Places : i \in Nat /\ i <= last
    BY <2>1, <2>2, MadeFacts, PlaceFacts DEF FeedInv
  <2>4. ASSUME OfWay(x, w) PROVE x.version > row.version
    <3>1. Thing(x) = world.ways[w] /\ world.ways[w].version \in Nat
      BY <2>4 DEF Thing, OfWay, FeedInv, FeedShape, Worlds
    <3> QED BY <2>3, <3>1
  <2>5. ASSUME NEW n \in ToSet(row.refs), IsNode(x, n, "remove")
        PROVE  \E k \in Places : k <= last /\ \E c \in In(k) : OfWay(c, w)
    <3>1. SUFFICES ASSUME ~\E c \in Log : OfWay(c, w) PROVE FALSE
      BY <2>3 DEF Log
    <3>2. world.ways[w].there /\ world.ways[w].refs = row.refs
      BY <3>1 DEF Original
    <3>3. n \notin ToSet(world.ways[w].refs)
      BY <2>1, <2>5, <3>2 DEF Made, IsNode
    <3> QED BY <2>5, <3>2, <3>3
  <2>6. ASSUME NEW j \in Places, NEW r \in In(j)', NEW n \in ToSet(row.refs), IsNode(r, n, "remove")
        PROVE  \E k \in Places : k <= j /\ \E c \in In(k)' : OfWay(c, w)
    <3>1. \E k \in Places : k <= j /\ \E c \in In(k) : OfWay(c, w)
      <4>1. CASE r \in In(j)
        BY <2>6, <4>1 DEF Original
      <4>2. CASE r \notin In(j)
        BY <2>3, <2>5, <2>6, <4>2
      <4> QED BY <4>1, <4>2
    <3> QED BY <2>3, <3>1
  <2>7. ASSUME ~\E c \in Log' : OfWay(c, w)
        PROVE  world'.ways[w].there /\ world'.ways[w].refs = row.refs
    <3>1. ~OfWay(x, w) /\ ~\E c \in Log : OfWay(c, w)
      BY <2>3, <2>7
    <3>2. world.ways[w]' = world.ways[w]
      BY <2>1, <3>1, MadeWorld DEF OfWay
    <3> QED BY <3>1, <3>2 DEF Original
  <2> QED BY <2>3, <2>4, <2>6, <2>7 DEF Original
<1>2. CASE Publish
  <2>1. /\ world' = world /\ Log' = Log
        /\ Places' = Places \cup {Len(feed) + 2}
        /\ \A i \in Places : In(i)' = In(i)
        /\ \A i \in Nat : i = Len(feed) + 2 => In(i)' = {}
    BY <1>2, PublishFacts DEF FeedInv
  <2>2. Len(feed) + 2 \in Nat
    BY DEF FeedInv, FeedShape
  <2>3. \A i \in Places' : \A c \in In(i)' : i \in Places /\ c \in In(i)
    BY <2>1, <2>2
  <2>4. ASSUME NEW j \in Places', NEW r \in In(j)', NEW n \in ToSet(row.refs), IsNode(r, n, "remove")
        PROVE  \E k \in Places' : k <= j /\ \E c \in In(k)' : OfWay(c, w)
    <3>1. \E k \in Places : k <= j /\ \E c \in In(k) : OfWay(c, w)
      BY <2>3, <2>4 DEF Original
    <3> QED BY <2>1, <3>1
  <2> QED BY <2>1, <2>4 DEF Original
<1>3. CASE Works \/ UNCHANGED vars
  <2>1. UNCHANGED <<world, open, feed>>
    BY <1>3, WorkFacts
  <2>2. Places' = Places /\ Log' = Log /\ \A i : In(i)' = In(i)
    BY <2>1, SameFeed
  <2> QED BY <2>1, <2>2 DEF Original
<1> QED BY <1>1, <1>2, <1>3, StepCases

LEMMA RowFromStays ==
  ASSUME FeedInv, ProgramTyped, [Next]_vars, NEW w \in Ways, NEW row, RowFrom(w, row),
         row.version \in Nat, row.version <= world.ways[w].version
  PROVE  RowFrom(w, row)'
BY OriginalStays, AppliedStays DEF RowFrom

\* What a statement makes of a row: nothing, a row of the same version and references, or
\* the row of a change that is not older.
LEMMA ExecRow ==
  ASSUME FeedInv, ProgramTyped, BatchShape, Exec, NEW t \in Tables, NEW w \in Ways,
         NEW s, s = Head(batch), NEW old, old = txn.ways[t][w], NEW new, new = txn'.ways[t][w]
  PROVE  \/ new.version = 0
         \/ /\ new.version = old.version /\ new.refs = old.refs
            /\ OfWay(s.c, w) /\ Plain(s.c) =>
                 IF s.c.action = "remove" THEN t # TableOf(s.c.refs) ELSE s.c.version < old.version
         \/ /\ OfWay(s.c, w) /\ Plain(s.c) /\ Writes(s.c)
            /\ new.version = s.c.version /\ new.refs = s.c.refs
<1>1. s \in StatementSet /\ txn' = Apply(txn, s) /\ TablesTyped(txn)
  BY ExecFacts DEF ProgramTyped
<1>2. CASE ~OfWay(s.c, w)
  <2>1. s.c.kind \in {"node", "way"}
    BY <1>1, ChangeTypes DEF StatementSet, Moves
  <2>2. s.c.kind = "node" => new = old
    BY <1>1, ApplyNode
  <2>3. s.c.kind = "way" => w # s.c.id
    BY <1>2 DEF OfWay
  <2>4. s.c.kind = "way" => new = old
    BY <1>1, <2>3, ApplyWay
  <2> QED BY <1>2, <2>1, <2>2, <2>4
<1>3. CASE OfWay(s.c, w)
  <2>1. /\ s.c.version \in Nat /\ s.c.action \in {"create", "modify", "remove", "modify_geom"}
        /\ old \in WayRows /\ old.version \in Nat
        /\ NoWay.version = 0 /\ s.c.kind = "way"
    <3>1. s.c \in Changes \/ s.c \in Moves
      BY <1>1 DEF StatementSet
    <3>3. s.c \in Changes => s.c.version \in Nat /\ s.c.action \in {"create", "modify", "remove"}
      BY ChangeTypes
    <3>4. s.c \in Moves => s.c.version \in Nat /\ s.c.action = "modify_geom"
      BY DEF Moves
    <3>2. old \in WayRows /\ old.version \in Nat
      BY <1>1 DEF TablesTyped, Databases, WayRows
    <3> QED BY <1>3, <3>1, <3>2, <3>3, <3>4 DEF NoWay, OfWay
  <2>2. new = IF t = TableOf(s.c.refs) THEN WayRowAfter(old, s)
              ELSE IF s.c.action = "remove" THEN old
              ELSE NoWay
    BY <1>1, <1>3, ApplyWay DEF OfWay
  <2>3. CASE s.c.action = "remove"
    BY <2>1, <2>2, <2>3 DEF WayRowAfter
  <2>4. CASE s.c.action = "modify_geom"
    <3>1. [old EXCEPT !.geom = s.geom].version = old.version /\ [old EXCEPT !.geom = s.geom].refs = old.refs
      BY <2>1 DEF WayRows
    <3>2. WayRowAfter(old, s).version = old.version /\ WayRowAfter(old, s).refs = old.refs
      BY <2>4, <3>1 DEF WayRowAfter
    <3> QED BY <2>1, <2>2, <2>4, <3>2 DEF Plain
  <2>5. CASE s.c.action \in {"create", "modify"}
    <3>1. Plain(s.c) /\ Writes(s.c) /\ s.c.action # "remove"
      BY <2>1, <2>5 DEF Plain, Writes
    <3>2. CASE t # TableOf(s.c.refs)
      BY <2>1, <2>2, <2>5, <3>2
    <3>3. CASE old.version <= s.c.version /\ t = TableOf(s.c.refs)
      <4>1. new = [version |-> s.c.version, refs |-> s.c.refs, geom |-> s.geom]
        BY <2>2, <2>5, <3>3 DEF WayRowAfter
      <4> QED BY <1>3, <3>1, <4>1
    <3>4. CASE ~(old.version <= s.c.version) /\ t = TableOf(s.c.refs)
      <4>1. new = old
        BY <2>2, <2>5, <3>4 DEF WayRowAfter
      <4>2. s.c.version < old.version
        BY <2>1, <3>4
      <4> QED BY <3>1, <4>1, <4>2
    <3> QED BY <3>2, <3>3, <3>4
  <2> QED BY <2>1, <2>3, <2>4, <2>5
<1> QED BY <1>2, <1>3

\* Every row is from the import or from a change.
RowsFrom ==
  \A t \in Tables, w \in Ways : \A row \in {osm.ways[t][w], txn.ways[t][w]} :
    row.version > 0 => RowFrom(w, row)

LEMMA InitRows == Init => RowsFrom
<1> SUFFICES ASSUME Init, NEW t \in Tables, NEW w \in Ways,
                    NEW row \in {osm.ways[t][w], txn.ways[t][w]}, row.version > 0
             PROVE  Original(w, row)
  BY DEF RowsFrom, RowFrom
<1>1. Log = {} /\ FeedShape
  BY InitFeed DEF FeedInv
<1>2. row = Imported(world).ways[t][w]
  BY DEF Init
<1>3. row = IF world.ways[w].there /\ TableOf(world.ways[w].refs) = t
              THEN [ version |-> world.ways[w].version, refs |-> world.ways[w].refs,
                     geom |-> [i \in DOMAIN world.ways[w].refs |->
                                 world.nodes[world.ways[w].refs[i]].loc] ]
              ELSE NoWay
  BY <1>2 DEF Imported
<1>4. world.ways[w].there /\ row.refs = world.ways[w].refs
  BY <1>3 DEF NoWay
<1>5. row.refs \in Refs
  BY <1>1, <1>4 DEF FeedShape, Worlds
<1>6. \A j \in Places : In(j) = {}
  BY <1>1 DEF Log
<1> QED BY <1>1, <1>4, <1>5, <1>6 DEF Original

LEMMA RowsFromStep ==
  ASSUME FeedInv, ProgramTyped, BatchShape, WaysNotNewer, RowsFrom, [Next]_vars
  PROVE  RowsFrom'
<1>1. ASSUME NEW t \in Tables, NEW w \in Ways, NEW row \in {osm.ways[t][w], txn.ways[t][w]},
             row.version > 0
      PROVE  RowFrom(w, row)'
  <2>1. row.version \in Nat /\ row.version <= world.ways[w].version
    BY WayRowFacts DEF WaysNotNewer
  <2> QED BY <1>1, <2>1, RowFromStays DEF RowsFrom
<1>2. CASE osm' \in {osm, txn} /\ txn' \in {osm, txn}
  BY <1>1, <1>2 DEF RowsFrom
<1>3. CASE Exec
  <2>1. UNCHANGED <<world, open, feed, osm, position, taken, restarts>>
    BY <1>3, ExecFacts
  <2>2. ASSUME NEW t \in Tables, NEW w \in Ways, NEW new, new = txn'.ways[t][w], new.version > 0
        PROVE  RowFrom(w, new)'
    <3>1. PICK s, old : s = Head(batch) /\ old = txn.ways[t][w]
      OBVIOUS
    <3>2. CASE OfWay(s.c, w) /\ Plain(s.c) /\ Writes(s.c) /\ new.version = s.c.version /\ new.refs = s.c.refs
      <4>1. PICK i \in DOMAIN feed : i <= position + taken /\ s.c \in In(i)
        BY <1>3, <3>1, <3>2, HeadChange
      <4>2. Applied(w, new)
        BY <3>2, <4>1 DEF Applied
      <4> QED BY <4>2, AppliedStays DEF RowFrom
    <3>3. CASE new.version = old.version /\ new.refs = old.refs
      <4>1. RowFrom(w, old)'
        BY <1>1, <2>2, <3>1, <3>3
      <4>2. RowFrom(w, new)' <=> RowFrom(w, old)'
        BY <3>3 DEF RowFrom, Original, Applied
      <4> QED BY <4>1, <4>2
    <3>4. new.version # 0
      BY <2>2
    <3> QED BY <1>3, <2>2, <3>1, <3>2, <3>3, <3>4, ExecRow
  <2> QED BY <1>1, <2>1, <2>2 DEF RowsFrom
<1>4. Edit \/ Publish \/ (\E k \in 1 .. FilesAtOnce : BeginRound(k)) \/ Commit \/ Restart \/ UNCHANGED vars
      => osm' \in {osm, txn} /\ txn' \in {osm, txn}
  BY DEF Edit, DropNode, EditNode, DropWay, EditWay, Publish, BeginRound, Commit, Restart, vars, program
<1> QED BY <1>2, <1>3, <1>4, StepCases DEF Works

\* All shapes belong to one table, so that no row is ever in another.
LEMMA OneTable ==
  ASSUME Steady, FeedInv, ProgramTyped, RowsFrom, NEW t \in Tables, NEW w \in Ways,
         NEW row \in {osm.ways[t][w], txn.ways[t][w]}, row.version > 0
  PROVE  row.refs \in Refs /\ \A r \in Refs : TableOf(r) = t
<1>1. row.refs \in Refs
  <2>1. CASE Original(w, row)
    BY <2>1 DEF Original
  <2>2. CASE Applied(w, row)
    <3>1. PICK i \in DOMAIN feed : \E c \in In(i) : Writes(c) /\ c.refs = row.refs
      BY <2>2 DEF Applied
    <3> QED BY <3>1, PlaceFacts, ChangeTypes DEF FeedInv
  <2> QED BY <2>1, <2>2 DEF RowsFrom, RowFrom
<1>2. TableOf(row.refs) = t
  BY DEF ProgramTyped, TablesTyped
<1> QED BY <1>1, <1>2 DEF Steady

MovesInRefs == \A s \in ToSet(batch) : ~Plain(s.c) => s.c.refs \in Refs

LEMMA MoveInWays ==
  ASSUME NEW s \in StatementSet, ~Plain(s.c)
  PROVE  s.c \in Moves /\ s.c.kind = "way" /\ s.c.id \in Ways
<1>1. s.c \notin Changes
  BY ChangeTypes DEF Plain
<1> QED BY <1>1 DEF StatementSet, Moves

LEMMA MovesInRefsStep ==
  ASSUME Steady, FeedInv, ProgramTyped, BatchShape, RowsFrom, MovesInRefs, [Next]_vars
  PROVE  MovesInRefs'
<1>1. CASE UNCHANGED program
  BY <1>1 DEF MovesInRefs, program
<1>2. ASSUME NEW k \in 1 .. FilesAtOnce, BeginRound(k) PROVE MovesInRefs'
  <2>1. k \in Nat /\ k > 0 /\ position + k <= Len(feed)
    BY <1>2, RoundFacts DEF BeginRound
  <2>2. PICK W : W = Workers(k)
    OBVIOUS
  <2>3. /\ batch' = W
        /\ W \in Seq(StatementSet)
        /\ \A s \in ToSet(W) : \E i \in position + 1 .. position + k :
             ~Plain(s.c) => s.c \in ToSet(Indirect(feed[i], osm))
    BY <1>2, <2>1, <2>2, WorkersFacts DEF ProgramTyped, BeginRound
  <2>4. ASSUME NEW s \in ToSet(W), ~Plain(s.c)
        PROVE  s.c.refs \in Refs
    <3>1. PICK i : s.c \in ToSet(Indirect(feed[i], osm))
      BY <2>3, <2>4
    <3>2. PICK table \in Tables : /\ s.c.version = osm.ways[table][s.c.id].version /\ s.c.version > 0
                                  /\ s.c.refs = osm.ways[table][s.c.id].refs
      BY <3>1, IndirectFacts DEF ProgramTyped
    <3>3. s.c.id \in Ways
      BY <2>3, <2>4, ToSetFinite, MoveInWays
    <3>4. PICK row : row = osm.ways[table][s.c.id]
      OBVIOUS
    <3> QED BY <3>2, <3>3, <3>4, OneTable
  <2> QED BY <2>3, <2>4 DEF MovesInRefs
<1>3. CASE Exec
  BY <1>3, ExecFacts DEF MovesInRefs
<1>4. CASE Commit \/ Restart
  <2>1. batch' = <<>>
    BY <1>4 DEF Commit, Restart
  <2> QED BY <2>1 DEF MovesInRefs, ToSet
<1>5. \/ UNCHANGED program \/ (\E k \in 1 .. FilesAtOnce : BeginRound(k))
      \/ Exec \/ Commit \/ Restart
  BY DEF Next, vars, program, Publish, DropNode, EditNode, DropWay, EditWay
<1> QED BY <1>1, <1>2, <1>3, <1>4, <1>5

LEMMA MovesAreHarmless ==
  ASSUME Steady, FeedInv, ProgramTyped, RowsFrom, MovesInRefs
  PROVE  MovesHarmless
<1> SUFFICES ASSUME NEW s \in ToSet(batch), ~Plain(s.c),
                    txn.ways[Other(TableOf(s.c.refs))][s.c.id].version # 0
             PROVE  FALSE
  BY DEF MovesHarmless
<1>1. s.c.id \in Ways
  BY ToSetFinite, MoveInWays DEF ProgramTyped
<1>2. PICK w \in Ways, T \in Tables, O \in Tables :
        w = s.c.id /\ T = TableOf(s.c.refs) /\ O = Other(T) /\ O # T
  BY <1>1, TwoTables
<1>3. txn.ways[O][w].version > 0
  BY <1>2, WayRowFacts
<1>4. \A r \in Refs : TableOf(r) = O
  BY <1>3, OneTable
<1> QED BY <1>2, <1>4 DEF MovesInRefs

\* Whatever was done to a way since its row is still to be seen.
RowsNewest ==
  \A t \in Tables, w \in Ways : \A d \in Log : OfWay(d, w) =>
    /\ osm.ways[t][w].version > 0 /\ d.version > osm.ways[t][w].version => Late(d)
    /\ txn.ways[t][w].version > 0 /\ d.version > txn.ways[t][w].version => LateInTxn(d)

LEMMA RowsNewestStep ==
  ASSUME Steady, FeedInv, ProgramTyped, BatchShape, FullDeletes, RowsFrom, UpToDate("way"),
         AllWritten("way"), RowsNewest, [Next]_vars
  PROVE  RowsNewest'
<1>1. CASE Edit
  <2>1. PICK c : Made(c)
    BY <1>1, EditMade DEF FeedInv
  <2>2. UNCHANGED <<osm, txn>> /\ Log' = Log \cup {c}
    BY <2>1, MadeFacts DEF Made, program, FeedInv
  <2> QED BY <2>1, <2>2, LateMade DEF RowsNewest
<1>2. CASE Publish
  <2>1. UNCHANGED <<osm, txn>> /\ Log' = Log
    BY <1>2, PublishFacts DEF Publish, program, FeedInv
  <2> QED BY <1>2, <2>1, LatePublish DEF RowsNewest
<1>3. ASSUME NEW k \in 1 .. FilesAtOnce, BeginRound(k) PROVE RowsNewest'
  <2>1. UNCHANGED <<world, open, feed, osm, txn>>
    BY <1>3 DEF BeginRound
  <2>2. /\ \A c : Late(c)' <=> Late(c)
        /\ \A c \in Log : LateInTxn(c) => Late(c)
    BY <1>3, BeginFacts
  <2>3. Log' = Log
    BY <2>1, SameFeed
  <2>4. \A c \in Log : \A w : OfWay(c, w) /\ Late(c) => LateInTxn(c)'
    BY <1>3 DEF AllWritten, OfWay
  <2> QED BY <2>1, <2>2, <2>3, <2>4 DEF RowsNewest
<1>4. CASE Exec
  <2>1. /\ UNCHANGED <<world, open, feed, osm>> /\ \A c : Late(c)' <=> Late(c)
        /\ \A c : LateInTxn(c) => LateInTxn(c)' \/ c = Head(batch).c
    BY <1>4, ExecFacts
  <2>2. Log' = Log
    BY <2>1, SameFeed
  <2>3. ASSUME NEW t \in Tables, NEW w \in Ways, NEW d \in Log, OfWay(d, w),
               NEW new, new = txn'.ways[t][w], new.version > 0, d.version > new.version
        PROVE  LateInTxn(d)'
    <3>1. PICK s, old : s = Head(batch) /\ old = txn.ways[t][w]
      OBVIOUS
    <3>2. d \in Changes /\ Plain(d) /\ d.version \in Nat /\ old.version \in Nat
      BY <3>1, PlaceFacts, ChangeTypes, WayRowFacts DEF FeedInv, Plain
    <3>3. CASE /\ new.version = old.version /\ new.refs = old.refs
               /\ OfWay(s.c, w) /\ Plain(s.c) =>
                    IF s.c.action = "remove" THEN t # TableOf(s.c.refs) ELSE s.c.version < old.version
      <4>1. LateInTxn(d)
        BY <2>3, <3>1, <3>3 DEF RowsNewest
      <4>2. SUFFICES ASSUME d = s.c PROVE FALSE
        BY <2>1, <3>1, <4>1
      <4>3. d.action = "remove" /\ t # TableOf(d.refs)
        <5>1. ~(d.version < old.version)
          BY <2>3, <3>2, <3>3
        <5> QED BY <2>3, <3>2, <3>3, <4>2, <5>1
      <4>4. d.refs \in Refs
        BY <2>3 DEF FullDeletes, OfWay
      <4>5. TableOf(d.refs) = t
        BY <2>3, <3>1, <3>3, <4>4, OneTable
      <4> QED BY <4>3, <4>5
    <3>4. CASE /\ OfWay(s.c, w) /\ Plain(s.c) /\ Writes(s.c)
               /\ new.version = s.c.version /\ new.refs = s.c.refs
      <4>1. Same(s.c, d) /\ d.version > s.c.version /\ s.c.kind = "way"
        BY <2>3, <3>4 DEF OfWay, Same
      <4> QED BY <1>4, <3>1, <3>4, <4>1, ExecLater
    <3>5. new.version # 0
      BY <2>3
    <3> QED BY <1>4, <2>3, <3>1, <3>3, <3>4, <3>5, ExecRow
  <2> QED BY <2>1, <2>2, <2>3 DEF RowsNewest
<1>5. CASE Commit
  <2>1. /\ UNCHANGED <<world, open, feed, txn>> /\ osm' = txn
        /\ \A c : Late(c)' <=> LateInTxn(c)
        /\ \A c : LateInTxn(c)' <=> LateInTxn(c)
    BY <1>5, CommitFacts
  <2>2. Log' = Log
    BY <2>1, SameFeed
  <2> QED BY <2>1, <2>2 DEF RowsNewest
<1>6. CASE Restart
  <2>1. /\ UNCHANGED <<world, open, feed, osm>> /\ txn' = osm
        /\ \A c : Late(c) => Late(c)' /\ LateInTxn(c)'
    BY <1>6, RestartFacts
  <2>2. Log' = Log
    BY <2>1, SameFeed
  <2> QED BY <2>1, <2>2 DEF RowsNewest
<1>7. CASE UNCHANGED vars
  <2>1. UNCHANGED <<world, open, feed, osm, txn>> /\ UNCHANGED <<position, taken, batch>>
    BY <1>7 DEF vars
  <2>2. Log' = Log /\ (\A c : Late(c)' <=> Late(c)) /\ \A c : LateInTxn(c)' <=> LateInTxn(c)
    BY <2>1, SameFeed DEF Late, LateInTxn
  <2> QED BY <2>1, <2>2 DEF RowsNewest
<1> QED BY <1>1, <1>2, <1>3, <1>4, <1>5, <1>6, <1>7, StepCases DEF Works

-----------------------------------------------------------------------------
(* Every way that is stored has its nodes stored, so that none that is     *)
(* moved is left out.                                                      *)

OnNode(s, n) == s.c.kind = "node" /\ s.c.id = n

\* Once the batch is run the node is stored.
NodeComes(n) ==
  \/ txn.nodes[n].version > 0 /\ ~\E s \in ToSet(batch) : OnNode(s, n)
  \/ \E s \in ToSet(batch) :
       /\ OnNode(s, n) /\ s.c.action # "remove"
       /\ \A u \in ToSet(batch) : OnNode(u, n) => u.c.version <= s.c.version

\* The batch has a change of the way newer than version v.
WayComes(w, v) ==
  \E s \in ToSet(batch) : OfWay(s.c, w) /\ Plain(s.c) /\ s.c.version > v

\* The nodes of the stored ways are stored, or will be by the end of the round, unless
\* the round changes the way.
RowsBased ==
  /\ \A t \in Tables, w \in Ways : osm.ways[t][w].version > 0 =>
       \A n \in ToSet(osm.ways[t][w].refs) : osm.nodes[n].version > 0
  /\ \A t \in Tables, w \in Ways : \A row \in {txn.ways[t][w]} : row.version > 0 =>
       \A n \in ToSet(row.refs) : NodeComes(n) \/ WayComes(w, row.version)
  /\ \A s \in ToSet(batch) : Writes(s.c) /\ Plain(s.c) =>
       \A n \in ToSet(s.c.refs) : NodeComes(n) \/ WayComes(s.c.id, s.c.version)

\* A way of the next file lies on nodes that are stored or in the file.
LEMMA NodeAtHand ==
  ASSUME FeedInv, ProgramTyped, NodesFirst, NodesMissing, NodesKept, ~OnGoneNodes,
         NEW i \in DOMAIN feed, i = position + 1, NEW d \in In(i), NEW n \in Nodes, WritesOn(d, n)
  PROVE  n \in DOMAIN NodeCache(feed[i]) \/ osm.nodes[n].version > 0
<1> SUFFICES ASSUME n \notin DOMAIN NodeCache(feed[i]), ~(osm.nodes[n].version > 0)
             PROVE  FALSE
  OBVIOUS
<1>1. /\ i \in Places /\ i \in Nat /\ position \in Nat /\ In(i) = ToSet(feed[i])
      /\ feed[i] \in Seq(Changes) /\ d \in Log /\ d \in Edits /\ d \in Changes
      /\ \A j \in Places : j \in Nat
  BY PlaceFacts, EditsInLog DEF FeedInv, ProgramTyped, Log
<1>2. ASSUME NEW e \in In(i), e.kind = "node", e.id = n, e.action # "remove" PROVE FALSE
  <2>1. e \in Changes
    BY <1>1, ToSetFinite
  <2>2. e.action \in {"create", "modify"}
    BY <1>2, <2>1, ChangeTypes
  <2>3. e \in Of(feed[i], "node", {"create", "modify"})
    BY <1>1, <1>2, <2>2 DEF Of
  <2> QED BY <1>1, <1>2, <2>3, CacheFacts
<1>3. CASE world.nodes[n].version = 0
  BY <1>1, <1>3 DEF NodesFirst
<1>4. CASE restarts > 0 /\ \E e \in Edits : IsNode(e, n, "remove")
  <2>1. OnGoneNodes
    BY <1>1, <1>4 DEF OnGoneNodes, IsNode, WritesOn, Writes
  <2> QED BY <2>1
<1>5. CASE \E e \in Log : IsNode(e, n, "create") /\ Late(e)
  <2>1. PICK m \in Places : m > position /\ \E e \in In(m) : IsNode(e, n, "create")
    BY <1>5 DEF Late
  <2>2. m <= i
    BY <1>1, <2>1 DEF NodesFirst
  <2>3. m = i
    BY <1>1, <2>1, <2>2
  <2> QED BY <1>2, <2>1, <2>3 DEF IsNode
<1>6. CASE SeenGone(n)
  <2>1. PICK j \in Places : j <= position /\ \E r \in In(j) :
          IsNode(r, n, "remove") /\ \A c \in Log : Same(c, r) /\ c.version > r.version => Late(c)
    BY <1>6 DEF SeenGone
  <2>2. PICK r \in In(j) :
          IsNode(r, n, "remove") /\ \A c \in Log : Same(c, r) /\ c.version > r.version => Late(c)
    BY <2>1
  <2>3. CASE \E k \in Places : k <= j /\ \E e \in In(k) : Same(e, d) /\ e.version > d.version
    <3>1. PICK k \in Places : k <= j /\ \E e \in In(k) : Same(e, d) /\ e.version > d.version
      BY <2>3
    <3>2. PICK e \in In(k) : Same(e, d) /\ e.version > d.version
      BY <3>1
    <3>3. /\ Same(d, e) /\ d.version \in Nat /\ e.version \in Nat
          /\ d.version <= e.version => i <= k
      BY <1>1, <3>2, PlaceOrder DEF Same
    <3> QED BY <1>1, <2>1, <3>1, <3>2, <3>3
  <2>4. CASE \E k \in Places : k <= i /\ \E e \in In(k) :
               Same(e, r) /\ e.action # "remove" /\ e.version > r.version
    <3>1. PICK k \in Places : k <= i /\ \E e \in In(k) :
            Same(e, r) /\ e.action # "remove" /\ e.version > r.version
      BY <2>4
    <3>2. PICK e \in In(k) : Same(e, r) /\ e.action # "remove" /\ e.version > r.version
      BY <3>1
    <3>3. e \in Log
      BY DEF Log
    <3>4. PICK m \in Places : m > position /\ e \in In(m)
      BY <2>2, <3>2, <3>3 DEF Late
    <3>5. m = k
      BY <3>4, PlaceOrder DEF Same
    <3>6. k = i
      BY <1>1, <3>1, <3>4, <3>5
    <3> QED BY <1>2, <2>2, <3>2, <3>6 DEF Same, IsNode
  <2> QED BY <1>1, <2>2, <2>3, <2>4 DEF NodesKept
<1> QED BY <1>3, <1>4, <1>5, <1>6 DEF NodesMissing, Excused

\* The next file is written as a whole.
LEMMA NextWritten ==
  ASSUME Steady, FeedInv, ProgramTyped, NodesFirst, NodesMissing, NodesKept, RowsBased,
         ~OnGoneNodes, NEW i \in DOMAIN feed, i = position + 1, NEW c \in In(i)
  PROVE  IsWritten(c, KnownNodes(feed[i], osm), GaveUp(feed[i], osm))
<1>1. In(i) \subseteq Changes
  BY PlaceFacts DEF FeedInv
<1>2. ASSUME NEW d \in In(i), Writes(d), NEW n \in ToSet(d.refs)
      PROVE  n \in DOMAIN NodeCache(feed[i]) \/ osm.nodes[n].version > 0
  <2>1. d \in Changes /\ d.kind = "way"
    BY <1>1, <1>2 DEF Writes
  <2>2. d.refs \in Seq(Nodes)
    BY <2>1, ChangeTypes
  <2>3. n \in Nodes
    BY <2>2, ToSetFinite
  <2> QED BY <1>2, <2>3, NodeAtHand DEF WritesOn
<1>3. ASSUME NEW d \in ToSet(Indirect(feed[i], osm)), NEW n \in ToSet(d.refs)
      PROVE  osm.nodes[n].version > 0
  <2>1. Indirect(feed[i], osm) \in Seq(Moves) /\ TablesTyped(osm)
    BY IndirectFacts DEF ProgramTyped
  <2>4. d \in Moves
    BY <2>1, ToSetFinite
  <2>2. d.id \in Ways
    BY <2>4 DEF Moves
  <2>3. PICK table \in Tables : /\ d.version = osm.ways[table][d.id].version /\ d.version > 0
                                /\ d.refs = osm.ways[table][d.id].refs
    BY <2>1, IndirectFacts
  <2> QED BY <2>2, <2>3 DEF RowsBased
<1>4. Writes(c) => Closed(c.refs) \/ c.refs[1] # Last(c.refs)
  BY <1>1, ChangeTypes DEF Steady
<1> QED BY <1>2, <1>3, <1>4, AtHandWritten

LEMMA WaysAllWritten ==
  ASSUME Steady, FeedInv, ProgramTyped, BatchShape, NodesFirst, NodesMissing, NodesKept, RowsBased,
         ~OnGoneNodes
  PROVE  AllWritten("way")
<1> SUFFICES ASSUME NEW k \in 1 .. FilesAtOnce, BeginRound(k),
                    NEW c \in Log, c.kind = "way", Late(c)
             PROVE  LateInTxn(c)'
  BY DEF AllWritten
<1>1. PICK i \in Places : i > position /\ c \in In(i)
  BY DEF Late
<1>2. k = 1 /\ i \in Nat /\ position \in Nat
  BY PlaceFacts DEF Steady, FeedInv, ProgramTyped
<1>3. CASE i \in DOMAIN feed /\ i = position + 1
  BY <1>1, <1>3, NextWritten, BeginFacts
<1>4. CASE i \notin DOMAIN feed
  BY <1>1, <1>4, BeginFacts
<1>5. CASE i > position + 1
  <2>1. UNCHANGED <<world, open, feed>> /\ position' + taken' = position + 1
    BY <1>2 DEF BeginRound
  <2>2. i \in Places' /\ c \in In(i)'
    BY <1>1, <2>1, SameFeed
  <2> QED BY <1>5, <2>1, <2>2 DEF LateInTxn
<1> QED BY <1>1, <1>2, <1>3, <1>4, <1>5

\* The newest of the statements on a node.
LEMMA NewestStatement ==
  ASSUME NEW b \in Seq(StatementSet), NEW n, \E s \in ToSet(b) : OnNode(s, n)
  PROVE  \E s \in ToSet(b) :
           OnNode(s, n) /\ \A u \in ToSet(b) : OnNode(u, n) => u.c.version <= s.c.version
<1> DEFINE Mine == {s \in ToSet(b) : OnNode(s, n)}
           Versions == {s.c.version : s \in Mine}
           f == [s \in Mine |-> s.c.version]
<1>1. IsFiniteSet(ToSet(b)) /\ ToSet(b) \subseteq StatementSet
  BY ToSetFinite
<1>2. IsFiniteSet(Mine)
  BY <1>1, FS_Subset
<1>3. f \in Surjection(Mine, Versions)
  BY DEF Surjection
<1>4. \A s \in StatementSet : s.c.version \in Nat
  <2>1. \A c \in Moves : c.version \in Nat
    BY DEF Moves
  <2> QED BY <2>1, ChangeTypes DEF StatementSet
<1>5. IsFiniteSet(Versions) /\ Versions \subseteq Int /\ Versions # {}
  BY <1>1, <1>2, <1>3, <1>4, FS_Surjection
<1> HIDE DEF Versions
<1>6. PICK v \in Versions : \A y \in Versions : y <= v
  BY <1>5, GreatestOf
<1> QED BY <1>6 DEF Versions

\* The batch of a round of one file: all changes of it, and no other.
LEMMA NextBatch ==
  ASSUME Steady, FeedInv, ProgramTyped, BatchShape, NodesFirst, NodesMissing, NodesKept, RowsBased,
         ~OnGoneNodes, NEW i \in DOMAIN feed, i = position + 1, BeginRound(1),
         NEW b, b = batch'
  PROVE  /\ b \in Seq(StatementSet)
         /\ \A s \in ToSet(b) : Plain(s.c) => s.c \in In(i)
         /\ \A c \in In(i) : \E s \in ToSet(b) : s.c = c
<1>1. b = Workers(1) /\ position \in Nat /\ TablesTyped(osm) /\ position + 1 <= Len(feed)
  BY DEF BeginRound, ProgramTyped
<1>2. \A j : j \in position + 1 .. position + 1 <=> j = i
  BY <1>1
<1>3. PICK W : W = Workers(1)
  OBVIOUS
<1>4. /\ W \in Seq(StatementSet)
      /\ \A s \in ToSet(W) : \E j \in position + 1 .. position + 1 :
           /\ j \in DOMAIN feed
           /\ Plain(s.c) => s.c \in In(j)
           /\ ~Plain(s.c) => s.c \in ToSet(Indirect(feed[j], osm))
      /\ \A j \in position + 1 .. position + 1 : \A c \in In(j) :
           IsWritten(c, KnownNodes(feed[j], osm), GaveUp(feed[j], osm)) =>
             \E s \in ToSet(W) : s.c = c
  BY <1>1, <1>3, WorkersFacts
<1>5. \A c \in In(i) : IsWritten(c, KnownNodes(feed[i], osm), GaveUp(feed[i], osm))
  BY NextWritten
<1> QED BY <1>1, <1>2, <1>3, <1>4, <1>5

\* A file that deletes a node of a stored way changes the way.
LEMMA RowLeaves ==
  ASSUME FeedInv, ProgramTyped, NodesKept, RowsFrom, RowsNewest, ~OnGoneNodes, taken = 0,
         NEW i \in DOMAIN feed, i = position + 1, NEW r \in In(i), NEW n \in Nodes,
         IsNode(r, n, "remove"), NEW t \in Tables, NEW w \in Ways,
         NEW row, row = osm.ways[t][w], row.version > 0, n \in ToSet(row.refs)
  PROVE  \E e \in In(i) : OfWay(e, w) /\ e.version > row.version
<1>1. /\ i \in Places /\ i \in Nat /\ position \in Nat /\ r \in Edits /\ restarts \in Nat
      /\ \A j \in Places : j \in Nat
  BY PlaceFacts, EditsInLog DEF FeedInv, ProgramTyped
<1>2. ASSUME NEW k \in Places, k <= i, NEW e \in In(k), OfWay(e, w), e.version > row.version
      PROVE  e \in In(i)
  <2>1. e \in Log
    BY DEF Log
  <2>2. PICK m \in Places : m > position /\ e \in In(m)
    BY <1>2, <2>1 DEF RowsNewest, Late
  <2>3. m = k
    BY <2>2, PlaceOrder DEF Same
  <2>4. m = i
    BY <1>1, <1>2, <2>2, <2>3
  <2> QED BY <2>2, <2>4
<1>3. CASE Original(w, row)
  <2>1. PICK k \in Places : k <= i /\ \E e \in In(k) : OfWay(e, w)
    BY <1>1, <1>3 DEF Original
  <2>2. PICK e \in In(k) : OfWay(e, w)
    BY <2>1
  <2>3. e.version > row.version
    BY <1>3, <2>2 DEF Original, Log
  <2> QED BY <1>2, <2>1, <2>2, <2>3
<1>4. CASE Applied(w, row)
  <2>1. PICK j \in DOMAIN feed :
          /\ restarts = 0 => j <= position + taken
          /\ \E c \in In(j) : OfWay(c, w) /\ Writes(c) /\ c.version = row.version /\ c.refs = row.refs
    BY <1>4 DEF Applied
  <2>2. PICK c \in In(j) : OfWay(c, w) /\ Writes(c) /\ c.version = row.version /\ c.refs = row.refs
    BY <2>1
  <2>3. c \in Edits /\ j \in Places /\ WritesOn(c, n)
    BY <2>2, EditsInLog, PlaceFacts DEF WritesOn, FeedInv
  <2>4. restarts = 0
    <3>1. restarts > 0 => OnGoneNodes
      BY <1>1, <2>3 DEF OnGoneNodes, IsNode, WritesOn, Writes
    <3> QED BY <1>1, <3>1
  <2>5. j < i
    BY <1>1, <2>1, <2>3, <2>4
  <2>6. CASE \E k \in Places : k <= i /\ \E e \in In(k) : Same(e, c) /\ e.version > c.version
    <3>1. PICK k \in Places : k <= i /\ \E e \in In(k) : Same(e, c) /\ e.version > c.version
      BY <2>6
    <3>2. PICK e \in In(k) : Same(e, c) /\ e.version > c.version
      BY <3>1
    <3>3. OfWay(e, w) /\ e.version > row.version
      BY <2>2, <3>2 DEF Same, OfWay
    <3> QED BY <1>2, <3>1, <3>3
  <2>7. CASE \E k \in Places : k <= j /\ \E e \in In(k) :
               Same(e, r) /\ e.action # "remove" /\ e.version > r.version
    <3>1. PICK k \in Places : k <= j /\ \E e \in In(k) :
            Same(e, r) /\ e.action # "remove" /\ e.version > r.version
      BY <2>7
    <3>2. PICK e \in In(k) : Same(e, r) /\ e.version > r.version
      BY <3>1
    <3>3. /\ r.version \in Nat /\ e.version \in Nat
          /\ r.version <= e.version => i <= k
      BY <1>1, <3>2, PlaceOrder DEF Same
    <3>4. i <= k
      BY <3>2, <3>3
    <3> QED BY <1>1, <2>3, <2>5, <3>1, <3>4
  <2> QED BY <1>1, <2>3, <2>6, <2>7 DEF NodesKept
<1> QED BY <1>3, <1>4 DEF RowsFrom, RowFrom

\* And one that deletes a node that it writes a way on changes the way again, or makes
\* the node again.
LEMMA WrittenLeaves ==
  ASSUME FeedInv, NodesKept, NEW i \in DOMAIN feed, NEW r \in In(i), NEW n \in Nodes,
         IsNode(r, n, "remove"), NEW d \in In(i), WritesOn(d, n)
  PROVE  \/ \E e \in In(i) : Same(e, d) /\ e.version > d.version
         \/ \E e \in In(i) : Same(e, r) /\ e.action # "remove" /\ e.version > r.version
<1>1. i \in Places /\ i \in Nat
  BY PlaceFacts DEF FeedInv
<1>2. ASSUME NEW k \in Places, k <= i, NEW e \in In(k), NEW c \in In(i), Same(e, c), e.version > c.version
      PROVE  k = i
  <2>1. /\ k \in Nat /\ c.version \in Nat /\ e.version \in Nat
        /\ c.version <= e.version => i <= k
    BY <1>1, <1>2, PlaceOrder DEF Same
  <2> QED BY <1>1, <1>2, <2>1
<1> QED BY <1>1, <1>2 DEF NodesKept

LEMMA BasedBegin ==
  ASSUME Steady, FeedInv, ProgramTyped, BatchShape, NodesFirst, NodesMissing, NodesKept, RoundShape,
         RowsFrom, RowsNewest, RowsBased, ~OnGoneNodes, BeginRound(1)
  PROVE  RowsBased'
<1>1. /\ taken = 0 /\ txn = osm /\ UNCHANGED <<osm, txn>>
      /\ position \in Nat /\ Len(feed) \in Nat /\ position + 1 <= Len(feed)
  BY DEF BeginRound, RoundShape, Idle, ProgramTyped, FeedInv, FeedShape
<1>2. PICK i \in DOMAIN feed : i = position + 1
  <2>1. position + 1 \in 1 .. Len(feed) /\ DOMAIN feed = 1 .. Len(feed)
    BY <1>1 DEF FeedInv, FeedShape
  <2> QED BY <2>1
<1>3. PICK b : b = batch'
  OBVIOUS
<1>4. /\ b \in Seq(StatementSet)
      /\ \A s \in ToSet(b) : Plain(s.c) => s.c \in In(i)
      /\ \A c \in In(i) : \E s \in ToSet(b) : s.c = c
  BY <1>2, <1>3, NextBatch
<1>5. i \in Places /\ In(i) = ToSet(feed[i]) /\ feed[i] \in Seq(Changes) /\ In(i) \subseteq Changes
  BY PlaceFacts DEF FeedInv
<1>6. \A s \in ToSet(b) : s \in StatementSet
  BY <1>4, ToSetFinite
<1>7. ASSUME NEW s \in ToSet(b), NEW n, OnNode(s, n)
      PROVE  s.c \in In(i) /\ s.c \in Changes /\ s.c.version \in Nat /\ s.c.kind = "node" /\ s.c.id = n
  <2>1. Plain(s.c)
    <3>1. ~Plain(s.c) => s.c.kind = "way"
      BY <1>6, MoveInWays
    <3> QED BY <1>7, <3>1 DEF OnNode
  <2> QED BY <1>4, <1>5, <1>7, <2>1, ChangeTypes DEF OnNode
<1>8. ASSUME NEW n \in Nodes, ~NodeComes(n)', n \in DOMAIN NodeCache(feed[i]) \/ osm.nodes[n].version > 0
      PROVE  \E s \in ToSet(b) :
               /\ IsNode(s.c, n, "remove") /\ s.c \in In(i)
               /\ \A u \in ToSet(b) : OnNode(u, n) => u.c.version <= s.c.version
  <2>1. \E s \in ToSet(b) : OnNode(s, n)
    <3>1. CASE n \in DOMAIN NodeCache(feed[i])
      <4>1. PICK e \in Of(feed[i], "node", {"create", "modify"}) : e.id = n
        BY <1>5, <3>1, CacheFacts
      <4>2. e \in In(i) /\ e.kind = "node"
        BY <1>5, <4>1 DEF Of
      <4> QED BY <1>4, <4>1, <4>2 DEF OnNode
    <3>2. CASE osm.nodes[n].version > 0
      BY <1>1, <1>3, <1>8, <3>2 DEF NodeComes
    <3> QED BY <1>8, <3>1, <3>2
  <2>2. PICK s \in ToSet(b) :
          OnNode(s, n) /\ \A u \in ToSet(b) : OnNode(u, n) => u.c.version <= s.c.version
    BY <1>4, <2>1, NewestStatement
  <2>3. s.c.action = "remove"
    BY <1>3, <1>8, <2>2 DEF NodeComes
  <2> QED BY <1>7, <2>2, <2>3 DEF IsNode
<1>9. ASSUME NEW e \in In(i), NEW w, OfWay(e, w), NEW v, e.version > v
      PROVE  WayComes(w, v)'
  <2>1. PICK s \in ToSet(b) : s.c = e
    BY <1>4
  <2>2. Plain(e)
    BY <1>5, ChangeTypes DEF Plain
  <2> QED BY <1>3, <1>9, <2>1, <2>2 DEF WayComes
<1>10. ASSUME NEW t \in Tables, NEW w \in Ways, NEW row, row = osm.ways[t][w], row.version > 0,
              NEW n \in ToSet(row.refs), ~NodeComes(n)'
       PROVE  WayComes(w, row.version)'
  <2>1. n \in Nodes
    <3>1. row.refs \in Seq(Nodes)
      BY <1>10, WayRowFacts DEF WayRows
    <3> QED BY <3>1, ToSetFinite
  <2>2. osm.nodes[n].version > 0
    BY <1>10 DEF RowsBased
  <2>3. PICK s \in ToSet(b) : IsNode(s.c, n, "remove") /\ s.c \in In(i)
    BY <1>8, <1>10, <2>1, <2>2
  <2>4. PICK r \in In(i) : IsNode(r, n, "remove")
    BY <2>3
  <2>5. PICK e \in In(i) : OfWay(e, w) /\ e.version > row.version
    BY <1>1, <1>2, <1>10, <2>1, <2>4, RowLeaves
  <2> QED BY <1>9, <2>5
<1>11. ASSUME NEW s \in ToSet(b), Writes(s.c), Plain(s.c), NEW n \in ToSet(s.c.refs), ~NodeComes(n)'
       PROVE  WayComes(s.c.id, s.c.version)'
  <2>1. PICK d \in In(i) : d = s.c
    BY <1>4, <1>11
  <2>2. d \in Changes /\ d.kind = "way"
    BY <1>5, <1>11, <2>1 DEF Writes
  <2>3. d.refs \in Seq(Nodes)
    BY <2>2, ChangeTypes
  <2>4. n \in Nodes /\ WritesOn(d, n)
    BY <1>11, <2>1, <2>3, ToSetFinite DEF WritesOn
  <2>5. n \in DOMAIN NodeCache(feed[i]) \/ osm.nodes[n].version > 0
    BY <1>2, <2>4, NodeAtHand
  <2>6. PICK u \in ToSet(b) :
               /\ IsNode(u.c, n, "remove") /\ u.c \in In(i)
               /\ \A x \in ToSet(b) : OnNode(x, n) => x.c.version <= u.c.version
    BY <1>8, <1>11, <2>4, <2>5
  <2>7. PICK r \in In(i) : r = u.c
    BY <2>6
  <2>8. ASSUME NEW e \in In(i), Same(e, r), e.version > r.version PROVE FALSE
    <3>1. PICK x \in ToSet(b) : x.c = e
      BY <1>4
    <3>2. OnNode(x, n)
      BY <2>6, <2>7, <2>8, <3>1 DEF OnNode, Same, IsNode
    <3>3. e.version <= r.version /\ e.version \in Nat /\ r.version \in Nat
      BY <1>5, <2>6, <2>7, <3>1, <3>2, ChangeTypes
    <3> QED BY <2>8, <3>3
  <2>9. PICK e \in In(i) : Same(e, d) /\ e.version > d.version
    BY <2>4, <2>6, <2>7, <2>8, WrittenLeaves
  <2>10. OfWay(e, d.id)
    BY <2>2, <2>9 DEF Same, OfWay
  <2> QED BY <1>9, <2>1, <2>9, <2>10
<1>12. ASSUME NEW t \in Tables, NEW w \in Ways, osm.ways[t][w].version > 0, NEW n \in ToSet(osm.ways[t][w].refs)
       PROVE  osm.nodes[n].version > 0
  BY <1>12 DEF RowsBased
<1>13. ASSUME NEW t \in Tables, NEW w \in Ways, NEW row \in {txn'.ways[t][w]}, row.version > 0,
              NEW n \in ToSet(row.refs)
       PROVE  NodeComes(n)' \/ WayComes(w, row.version)'
  <2>1. row = osm.ways[t][w]
    BY <1>1, <1>13
  <2> QED BY <1>10, <1>13, <2>1
<1>14. ASSUME NEW s \in ToSet(b), Writes(s.c), Plain(s.c), NEW n \in ToSet(s.c.refs)
       PROVE  NodeComes(n)' \/ WayComes(s.c.id, s.c.version)'
  BY <1>11, <1>14
<1> QED BY <1>1, <1>3, <1>12, <1>13, <1>14 DEF RowsBased

\* Running a statement leaves what the batch is to do as it was.
LEMMA ComesStays ==
  ASSUME FeedInv, ProgramTyped, BatchShape, Exec, NEW n \in Nodes, NodeComes(n)
  PROVE  NodeComes(n)'
<1>1. PICK h, b : h = Head(batch) /\ b = batch'
  OBVIOUS
<1>2. /\ h \in StatementSet /\ TablesTyped(txn) /\ txn' = Apply(txn, h)
      /\ ToSet(batch) = {h} \cup ToSet(b)
      /\ \A s \in ToSet(b) : Same(s.c, h.c) /\ Plain(s.c) /\ Plain(h.c) => h.c.version < s.c.version
      /\ \A s \in ToSet(b) : s \in StatementSet
      /\ txn.nodes[n].version \in Nat
  BY <1>1, ExecFacts, ToSetFinite, RowFacts DEF ProgramTyped
<1>3. ASSUME NEW s \in StatementSet, OnNode(s, n)
      PROVE  Plain(s.c) /\ s.c \in Changes /\ s.c.version \in Nat /\ s.c.version > 0
  <2>1. Plain(s.c)
    BY <1>3, MoveInWays DEF OnNode
  <2>2. s.c \in Changes
    BY <2>1 DEF StatementSet, Moves, Plain
  <2> QED BY <2>1, <2>2, ChangeTypes
<1>4. CASE txn.nodes[n].version > 0 /\ ~\E s \in ToSet(batch) : OnNode(s, n)
  <2>1. ~OnNode(h, n)
    BY <1>2, <1>4
  <2>2. txn'.nodes[n] = txn.nodes[n]
    BY <1>1, <2>1, ExecElse DEF OnNode
  <2> QED BY <1>1, <1>2, <1>4, <2>2 DEF NodeComes
<1>5. ASSUME NEW s \in ToSet(batch), OnNode(s, n), s.c.action # "remove",
             \A u \in ToSet(batch) : OnNode(u, n) => u.c.version <= s.c.version
      PROVE  NodeComes(n)'
  <2>1. CASE s \in ToSet(b)
    BY <1>1, <1>2, <1>5, <2>1 DEF NodeComes
  <2>2. CASE s = h
    <3>1. ASSUME NEW u \in ToSet(b), OnNode(u, n) PROVE FALSE
      <4>1. u.c.version <= h.c.version /\ u.c.version \in Nat /\ h.c.version \in Nat
            /\ Plain(u.c) /\ Plain(h.c)
        BY <1>2, <1>3, <1>5, <2>2, <3>1
      <4>2. h.c.version < u.c.version
        BY <1>2, <1>5, <2>2, <3>1, <4>1 DEF OnNode, Same
      <4> QED BY <4>1, <4>2
    <3>2. h.c.kind = "node" /\ h.c.id = n /\ h.c.action # "remove" /\ h.c.version \in Nat /\ h.c.version > 0
      BY <1>2, <1>3, <1>5, <2>2 DEF OnNode
    <3>3. txn'.nodes[n] = IF txn.nodes[n].version < h.c.version
                          THEN [version |-> h.c.version, loc |-> h.c.loc]
                          ELSE txn.nodes[n]
      BY <1>2, <3>2, ApplyNode
    <3>4. txn'.nodes[n].version > 0
      BY <1>2, <3>2, <3>3
    <3> QED BY <1>1, <3>1, <3>4 DEF NodeComes
  <2> QED BY <1>2, <2>1, <2>2
<1> QED BY <1>4, <1>5 DEF NodeComes

LEMMA BasedExec ==
  ASSUME Steady, FeedInv, ProgramTyped, BatchShape, FullDeletes, RowsFrom, RowsBased, Exec
  PROVE  RowsBased'
<1>1. PICK h, b : h = Head(batch) /\ b = batch'
  OBVIOUS
<1>2. /\ h \in StatementSet /\ h \in ToSet(batch) /\ osm' = osm
      /\ ToSet(batch) = {h} \cup ToSet(b)
      /\ \A s \in ToSet(b) : Same(s.c, h.c) /\ Plain(s.c) /\ Plain(h.c) => h.c.version < s.c.version
      /\ \A s \in ToSet(batch) : s \in StatementSet
  BY <1>1, ExecFacts, ToSetFinite DEF ProgramTyped
<1>3. \A s \in StatementSet : Plain(s.c) => s.c \in Changes /\ s.c.version \in Nat
  BY ChangeTypes DEF StatementSet, Moves, Plain
<1>4. ASSUME NEW w, NEW v, WayComes(w, v), ~(OfWay(h.c, w) /\ Plain(h.c) /\ h.c.version > v)
      PROVE  WayComes(w, v)'
  BY <1>1, <1>2, <1>4 DEF WayComes
<1>5. ASSUME NEW s \in ToSet(batch), Writes(s.c), Plain(s.c), NEW n \in ToSet(s.c.refs)
      PROVE  n \in Nodes /\ (NodeComes(n) \/ WayComes(s.c.id, s.c.version))
  <2>1. s.c \in Changes /\ s.c.kind = "way"
    BY <1>2, <1>3, <1>5 DEF Writes
  <2>2. s.c.refs \in Seq(Nodes)
    BY <2>1, ChangeTypes
  <2> QED BY <1>5, <2>2, ToSetFinite DEF RowsBased
<1>6. ASSUME NEW t \in Tables, NEW w \in Ways, NEW new, new = txn'.ways[t][w], new.version > 0,
             NEW n \in ToSet(new.refs)
      PROVE  NodeComes(n)' \/ WayComes(w, new.version)'
  <2>1. PICK old : old = txn.ways[t][w]
    OBVIOUS
  <2>2. CASE /\ new.version = old.version /\ new.refs = old.refs
             /\ OfWay(h.c, w) /\ Plain(h.c) =>
                  IF h.c.action = "remove" THEN t # TableOf(h.c.refs) ELSE h.c.version < old.version
    <3>1. n \in Nodes /\ old.version \in Nat
      <4>1. old.refs \in Seq(Nodes) /\ old.version \in Nat
        BY <2>1, WayRowFacts DEF WayRows
      <4> QED BY <1>6, <2>2, <4>1, ToSetFinite
    <3>2. NodeComes(n) \/ WayComes(w, old.version)
      BY <1>6, <2>1, <2>2 DEF RowsBased
    <3>3. ~(OfWay(h.c, w) /\ Plain(h.c) /\ h.c.version > old.version)
      <4>1. SUFFICES ASSUME OfWay(h.c, w), Plain(h.c), h.c.version > old.version PROVE FALSE
        OBVIOUS
      <4>2. h.c \in Log
        BY <1>1, <4>1, EditsInLog, HeadChange
      <4>3. h.c.version \in Nat
        BY <1>2, <1>3, <4>1
      <4>4. h.c.action = "remove" /\ t # TableOf(h.c.refs)
        BY <2>2, <3>1, <4>1, <4>3
      <4>5. h.c.refs \in Refs
        BY <4>1, <4>2 DEF FullDeletes, OfWay
      <4>6. TableOf(h.c.refs) = t
        BY <1>6, <2>1, <2>2, <4>5, OneTable
      <4> QED BY <4>4, <4>6
    <3> QED BY <1>4, <2>2, <3>1, <3>2, <3>3, ComesStays
  <2>3. CASE /\ OfWay(h.c, w) /\ Plain(h.c) /\ Writes(h.c)
             /\ new.version = h.c.version /\ new.refs = h.c.refs
    <3>1. n \in Nodes /\ (NodeComes(n) \/ WayComes(w, h.c.version))
      BY <1>2, <1>5, <1>6, <2>3 DEF OfWay
    <3>2. ~(h.c.version > h.c.version)
      BY <1>2, <1>3, <2>3
    <3> QED BY <1>4, <2>3, <3>1, <3>2, ComesStays
  <2>4. new.version # 0
    BY <1>6
  <2> QED BY <1>1, <1>6, <2>1, <2>2, <2>3, <2>4, ExecRow
<1>7. ASSUME NEW s \in ToSet(b), Writes(s.c), Plain(s.c), NEW n \in ToSet(s.c.refs)
      PROVE  NodeComes(n)' \/ WayComes(s.c.id, s.c.version)'
  <2>1. n \in Nodes /\ (NodeComes(n) \/ WayComes(s.c.id, s.c.version))
    BY <1>2, <1>5, <1>7
  <2>2. ~(OfWay(h.c, s.c.id) /\ Plain(h.c) /\ h.c.version > s.c.version)
    <3>1. SUFFICES ASSUME OfWay(h.c, s.c.id), Plain(h.c), h.c.version > s.c.version PROVE FALSE
      OBVIOUS
    <3>2. h.c.version < s.c.version
      BY <1>2, <1>7, <3>1 DEF OfWay, Same, Writes
    <3>3. h.c.version \in Nat /\ s.c.version \in Nat
      BY <1>2, <1>3, <1>7, <3>1
    <3> QED BY <3>1, <3>2, <3>3
  <2> QED BY <1>4, <1>7, <2>1, <2>2, ComesStays
<1> QED BY <1>1, <1>2, <1>6, <1>7 DEF RowsBased

LEMMA RowsBasedStep ==
  ASSUME Steady, FeedInv, ProgramTyped, BatchShape, NodesFirst, NodesMissing, NodesKept, RoundShape,
         FullDeletes, RowsFrom, RowsNewest, RowsBased, ~OnGoneNodes, [Next]_vars
  PROVE  RowsBased'
<1>1. CASE UNCHANGED program
  BY <1>1 DEF RowsBased, NodeComes, WayComes, program
<1>2. ASSUME NEW k \in 1 .. FilesAtOnce, BeginRound(k) PROVE RowsBased'
  <2>1. k = 1
    BY DEF Steady
  <2> QED BY <1>2, <2>1, BasedBegin
<1>3. CASE Exec
  BY <1>3, BasedExec
<1>4. CASE Commit
  <2>1. batch = <<>> /\ batch' = <<>> /\ osm' = txn /\ txn' = txn
    BY <1>4 DEF Commit
  <2>2. ToSet(<<>>) = {}
    BY DEF ToSet
  <2> QED BY <2>1, <2>2 DEF RowsBased, NodeComes, WayComes
<1>5. CASE Restart
  <2>1. batch' = <<>> /\ osm' = osm /\ txn' = osm
    BY <1>5 DEF Restart
  <2>2. ToSet(<<>>) = {}
    BY DEF ToSet
  <2> QED BY <2>1, <2>2 DEF RowsBased, NodeComes, WayComes
<1>6. \/ UNCHANGED program \/ (\E k \in 1 .. FilesAtOnce : BeginRound(k))
      \/ Exec \/ Commit \/ Restart
  BY DEF Next, vars, program, Publish, DropNode, EditNode, DropWay, EditWay
<1> QED BY <1>1, <1>2, <1>3, <1>4, <1>5, <1>6

-----------------------------------------------------------------------------
SteadyInv ==
  /\ FullDeletes /\ NodesKept /\ RowsFrom /\ MovesInRefs
  /\ ~OnGoneNodes => UpToDate("way") /\ WaysFollow /\ RowsNewest /\ RowsBased

LEMMA InitBased == Init => RowsBased
<1> SUFFICES ASSUME Init PROVE RowsBased
  OBVIOUS
<1>1. PICK loc \in Locs, made \in BOOLEAN, mapped \in BOOLEAN, r \in Refs :
        /\ mapped => made
        /\ world = [ nodes |-> [n \in Nodes |-> FirstNode(made, loc)],
                     ways |-> [w \in Ways |-> FirstWay(mapped, r)] ]
  BY DEF Init
<1>2. osm = Imported(world) /\ txn = osm /\ batch = <<>> /\ ToSet(<<>>) = {}
  BY DEF Init, ToSet
<1>3. ASSUME NEW t \in Tables, NEW w \in Ways, NEW row, row = osm.ways[t][w], row.version > 0,
             NEW n \in ToSet(row.refs)
      PROVE  osm.nodes[n].version > 0
  <2>1. row = IF world.ways[w].there /\ TableOf(world.ways[w].refs) = t
              THEN [ version |-> world.ways[w].version, refs |-> world.ways[w].refs,
                     geom |-> [i \in DOMAIN world.ways[w].refs |->
                                 world.nodes[world.ways[w].refs[i]].loc] ]
              ELSE NoWay
    BY <1>2, <1>3 DEF Imported
  <2>2. world.ways[w].there /\ row.refs = world.ways[w].refs
    BY <1>3, <2>1 DEF NoWay
  <2>3. world.ways[w] = FirstWay(mapped, r)
    BY <1>1
  <2>4. mapped /\ made /\ row.refs = r
    BY <1>1, <2>2, <2>3 DEF FirstWay
  <2>5. n \in Nodes
    <3>1. r \in Seq(Nodes)
      BY RefsAreSeqs
    <3> QED BY <1>3, <2>4, <3>1, ToSetFinite
  <2>6. world.nodes[n] = FirstNode(made, loc)
    BY <1>1, <2>5
  <2>7. osm.nodes[n] = IF world.nodes[n].there
          THEN [version |-> world.nodes[n].version, loc |-> world.nodes[n].loc] ELSE NoNode
    BY <1>2, <2>5 DEF Imported
  <2> QED BY <2>4, <2>6, <2>7 DEF FirstNode
<1>4. ASSUME NEW n, osm.nodes[n].version > 0 PROVE NodeComes(n)
  <2>1. ToSet(batch) = {} /\ txn.nodes[n].version > 0
    BY <1>2, <1>4
  <2> QED BY <2>1 DEF NodeComes
<1>5. ASSUME NEW t \in Tables, NEW w \in Ways, NEW row \in {txn.ways[t][w]}, row.version > 0,
             NEW n \in ToSet(row.refs)
      PROVE  NodeComes(n)
  <2>1. row = osm.ways[t][w]
    BY <1>2, <1>5
  <2> QED BY <1>3, <1>4, <1>5, <2>1
<1> QED BY <1>2, <1>3, <1>5 DEF RowsBased

LEMMA InitSteady == Init => SteadyInv
<1> SUFFICES ASSUME Init PROVE SteadyInv
  OBVIOUS
<1>1. Log = {}
  BY InitFeed
<1>2. \A i \in Places : In(i) = {}
  BY <1>1 DEF Log
<1>5. batch = <<>> /\ ToSet(<<>>) = {}
  BY DEF Init, ToSet
<1>3. FullDeletes /\ NodesKept /\ MovesInRefs /\ UpToDate("way") /\ RowsNewest
  BY <1>1, <1>2, <1>5 DEF FullDeletes, NodesKept, MovesInRefs, UpToDate, RowsNewest
<1>4. WaysFollow
  <2>1. osm = Imported(world) /\ txn = osm
    BY DEF Init
  <2>2. ASSUME NEW w \in Ways PROVE StoredRight(osm, w)
    BY <2>1 DEF Imported, NoWay, StoredRight
  <2> QED BY <2>1, <2>2 DEF WaysFollow
<1> QED BY <1>3, <1>4, InitRows, InitBased DEF SteadyInv

LEMMA StepSteady ==
  ASSUME Steady, FeedInv, ProgramTyped, NodeInv, WayInv, SteadyInv, [Next]_vars
  PROVE  SteadyInv'
<1>1. /\ BatchShape /\ NodesFirst /\ NodesMissing /\ RoundShape /\ WaysNotNewer
      /\ FullDeletes /\ NodesKept /\ RowsFrom /\ MovesInRefs
  BY DEF NodeInv, WayInv, SteadyInv
<1>2. FullDeletes' /\ NodesKept' /\ RowsFrom' /\ MovesInRefs'
  BY <1>1, FullDeletesStep, NodesKeptStep, RowsFromStep, MovesInRefsStep
<1>3. ASSUME ~OnGoneNodes' PROVE (UpToDate("way") /\ WaysFollow /\ RowsNewest /\ RowsBased)'
  <2>1. ~OnGoneNodes
    BY <1>3, EditsStay
  <2>2. UpToDate("way") /\ WaysFollow /\ RowsNewest /\ RowsBased
    BY <2>1 DEF SteadyInv
  <2>3. AllWritten("way") /\ MovesHarmless
    BY <1>1, <2>1, <2>2, WaysAllWritten, MovesAreHarmless
  <2>4. ~BareDelete
    <3> SUFFICES ASSUME NEW c \in Edits, c.kind = "way" PROVE c.refs # <<>>
      BY DEF BareDelete
    <3>1. c.refs \in Refs
      BY <1>1, EditsInLog DEF FullDeletes
    <3> QED BY <3>1, RefsAssumption
  <2>5. UpToDate("way")'
    BY <1>1, <2>2, <2>3, UpToDateStep
  <2>6. WaysFollow'
    BY <1>1, <2>2, <2>3, <2>4, WaysFollowStep
  <2>7. RowsNewest' /\ RowsBased'
    BY <1>1, <2>1, <2>2, <2>3, RowsNewestStep, RowsBasedStep
  <2> QED BY <2>5, <2>6, <2>7
<1> QED BY <1>2, <1>3 DEF SteadyInv

\* When files are taken one by one, deletions list the references, and rings stay rings,
\* then every way of OSM is stored, at its version, once the program has taken every file,
\* and no other way is: whatever the files move and delete, and after restarts on any file
\* as long as no node was deleted that a way was written on.
THEOREM WaysTheorem ==
  ASSUME Steady
  PROVE  Spec => []WaysInStep
<1>1. FeedInv /\ ProgramTyped /\ SteadyInv => WaysInStep
  BY FollowsInStep DEF SteadyInv, WaysInStep
<1>2. FeedInv /\ ProgramTyped /\ NodeInv /\ WayInv /\ [Next]_vars => WayInv'
  BY StepWays DEF NodeInv
<1>3. FeedInv /\ ProgramTyped /\ NodeInv /\ WayInv /\ SteadyInv /\ [Next]_vars => SteadyInv'
  BY StepSteady
<1> QED
  BY InitTyped, InitNodes, InitWays, InitSteady, StepFeed, StepTyped, StepNodes, <1>1, <1>2, <1>3,
     PTL DEF Spec
=============================================================================
