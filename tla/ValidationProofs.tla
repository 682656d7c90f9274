-------------------------- MODULE ValidationProofs --------------------------
(***************************************************************************)
(* The rows of validation agree with OSM, for every feed, every round and  *)
(* every restart.                                                          *)
(*                                                                         *)
(* First what the statements of a file do to one row, and what a file does *)
(* to the rows of a way and of a node that it changes once (WayAfter,      *)
(* NodeAfter). The inductive invariant then says that the newest version   *)
(* of an object is the last one of the log (FeedInv), what the raw tables  *)
(* keep of a way (StoredInv), that no row is newer than its object         *)
(* (Bounded), and what becomes of the rows once the last change of an      *)
(* object is behind the position (WayInv, NodeInv).                        *)
(***************************************************************************)
EXTENDS Validation, Induction

AllTags == NodeTags \cup WayTags \cup {{}}

Tables == [RowKeys -> Nat]

CheckSet ==
  [ id : NodeIds \cup WayIds, source : Sources, version : Nat, status : SUBSET Statuses ]

ChangeSet ==
  {c \in [ kind : {"node", "way"}, id : NodeIds \cup WayIds,
           action : {"modify", "remove", "move"}, version : Nat, tags : AllTags ] :
     /\ c.kind = "node" => c.id \in NodeIds /\ c.action # "move"
     /\ c.kind = "way" => c.id \in WayIds}

Files == [changes : Seq(ChangeSet), written : BOOLEAN]

StoredWays == [WayIds -> [version : Nat, tags : AllTags]]

-----------------------------------------------------------------------------
(* What the checks find.                                                   *)

LEMMA CheckWayType ==
  ASSUME NEW tags, NEW type, NEW hasLine, NEW square
  PROVE  CheckWay(tags, type, hasLine, square) \in SUBSET Statuses
BY DEF CheckWay, CheckTagsOfWay, CheckShapeOfWay, Statuses

LEMMA CheckNodeType ==
  ASSUME NEW tags, NEW type
  PROVE  CheckNode(tags, type) \in SUBSET {"badvalue", "incomplete"}
BY DEF CheckNode

\* The shape of a way whose geometry was cleared is never found bad.
LEMMA NoBadShape ==
  ASSUME NEW tags
  PROVE  "badgeom" \notin CheckWay(tags, "building", FALSE, TRUE)
BY DEF CheckWay, CheckTagsOfWay, CheckShapeOfWay

\* What one type finds wrong in a value the others find too, or find nothing at all.
LEMMA BadValueEverywhere ==
  ASSUME NEW tags, NEW types, types \subseteq ToSet(NodeTests) \cap Keys(tags),
         {} \notin {CheckNode(tags, type) : type \in types},
         NEW one \in types, "badvalue" \in CheckNode(tags, one)
  PROVE  \A type \in types : "badvalue" \in CheckNode(tags, type)
<1> SUFFICES ASSUME NEW type \in types, "badvalue" \notin CheckNode(tags, type) PROVE FALSE
  OBVIOUS
<1>1. type \in Keys(tags) /\ one \in Keys(tags)
  OBVIOUS
<1>2. CheckNode(tags, type) # {}
  OBVIOUS
<1>3. \A t \in tags : ~CheckTag(t)
  BY <1>1 DEF CheckNode
<1>4. Incomplete(tags, TestsOf(type))
  BY <1>1, <1>2 DEF CheckNode
<1>5. type = "building"
  BY <1>4 DEF TestsOf, NoTests, Incomplete
<1>6. one # "building"
  BY <1>5
<1>7. \E t \in tags : TestsOf(one).badvalue
  BY <1>1, <1>3 DEF CheckNode
<1> QED BY <1>6, <1>7 DEF TestsOf, NoTests

-----------------------------------------------------------------------------
(* The statements of a file, along one row.                                *)

\* What a statement does to a row of version x.
Turn(k, x, c) ==
  IF k.id # c.id \/ c.status = {} THEN x
  ELSE IF Deleted(k, c) THEN 0 ELSE Upserted(k, x, c)

LEMMA ApplyCheckTurn ==
  ASSUME NEW table \in Tables, NEW c \in CheckSet
  PROVE  /\ ApplyCheck(table, c) \in Tables
         /\ \A k \in RowKeys : ApplyCheck(table, c)[k] = Turn(k, table[k], c)
<1>1. ApplyCheck(table, c) = [k \in RowKeys |-> Turn(k, table[k], c)]
  BY DEF ApplyCheck, Turn
<1>2. ASSUME NEW k \in RowKeys PROVE Turn(k, table[k], c) \in Nat
  BY DEF Turn, Upserted, Tables, CheckSet
<1> QED BY <1>1, <1>2 DEF Tables

\* The table after each statement.
LEMMA ApplyTurn ==
  ASSUME NEW table \in Tables, NEW checks \in Seq(CheckSet)
  PROVE  \E h \in [0 .. Len(checks) -> Tables] :
           /\ h[0] = table
           /\ h[Len(checks)] = ApplyChecks(table, checks)
           /\ \A i \in 1 .. Len(checks) : h[i] = ApplyCheck(h[i - 1], checks[i])
<1> DEFINE N == Len(checks)
           X == Tables
           G == [p \in (1 .. N) \X X |-> ApplyCheck(p[2], checks[p[1]])]
           Def(f) == [i \in 0 .. N |-> IF i = 0 THEN table ELSE ApplyCheck(f[i - 1], checks[i])]
           F == CHOOSE f : f = Def(f)
<1>1. N \in Nat /\ \A i \in 1 .. N : checks[i] \in CheckSet
  OBVIOUS
<1>2. G \in [(1 .. N) \X X -> X]
  BY <1>1, ApplyCheckTurn
<1>3. \A i \in 1 .. N, t \in X : G[<<i, t>>] = ApplyCheck(t, checks[i])
  OBVIOUS
<1>4. table \in X
  OBVIOUS
<1>5. F[N] = ApplyChecks(table, checks)
  BY DEF ApplyChecks
<1> HIDE DEF N, G, X
<1>6. PICK h \in [0 .. N -> X] :
        h[0] = table /\ \A i \in 1 .. N : h[i] = G[<<i, h[i - 1]>>]
  <2>1. HasRecursion(N, X, table, G)
    BY <1>1, <1>2, <1>4, RecursiveFunction
  <2> QED BY <2>1 DEF HasRecursion
<1>7. ASSUME NEW i \in 1 .. N PROVE h[i] = ApplyCheck(h[i - 1], checks[i])
  <2>1. i - 1 \in 0 .. N
    BY <1>1
  <2> QED BY <1>3, <1>6, <2>1
<1>8. h = Def(h)
  <2> SUFFICES ASSUME NEW i \in 0 .. N
               PROVE  h[i] = IF i = 0 THEN table ELSE ApplyCheck(h[i - 1], checks[i])
    OBVIOUS
  <2>1. CASE i = 0
    BY <1>6, <2>1
  <2>2. CASE i # 0
    <3>1. i \in 1 .. N
      BY <1>1, <2>2
    <3> QED BY <1>7, <2>2, <3>1
  <2> QED BY <2>1, <2>2
<1>9. F = Def(F)
  BY <1>8
<1> HIDE DEF F
<1>10. /\ F[0] = table
       /\ \A i \in 1 .. N : F[i] = ApplyCheck(F[i - 1], checks[i])
  <2>1. 0 \in 0 .. N /\ \A i \in 1 .. N : i \in 0 .. N /\ i # 0
    BY <1>1
  <2> QED BY <1>9, <2>1
<1>11. F \in [0 .. N -> X]
  <2> DEFINE S == {i \in 0 .. N : F[i] \in X}
  <2>1. 0 \in S
    BY <1>1, <1>4, <1>10
  <2>2. ASSUME NEW i \in 0 .. N - 1, i \in S PROVE i + 1 \in S
    <3>1. i + 1 \in 1 .. N /\ (i + 1) - 1 = i /\ F[i] \in X
      BY <1>1, <2>2
    <3>2. F[i + 1] = ApplyCheck(F[i], checks[i + 1]) /\ checks[i + 1] \in CheckSet
      BY <1>1, <1>10, <3>1
    <3> QED BY <3>1, <3>2, ApplyCheckTurn DEF X
  <2> HIDE DEF S
  <2>3. \A i \in 0 .. N : i \in S
    BY <1>1, <2>1, <2>2, InductiveUpTo
  <2>4. \A i \in 0 .. N : F[i] \in X
    BY <2>3 DEF S
  <2> QED BY <1>9, <2>4
<1> QED BY <1>5, <1>10, <1>11 DEF N, X

\* A row stays in a set that no statement leads out of ...
LEMMA AppliedIn ==
  ASSUME NEW table \in Tables, NEW checks \in Seq(CheckSet), NEW k \in RowKeys, NEW U,
         table[k] \in U, \A c \in ToSet(checks), x \in U : Turn(k, x, c) \in U
  PROVE  ApplyChecks(table, checks)[k] \in U
<1>1. PICK h \in [0 .. Len(checks) -> Tables] :
        /\ h[0] = table
        /\ h[Len(checks)] = ApplyChecks(table, checks)
        /\ \A i \in 1 .. Len(checks) : h[i] = ApplyCheck(h[i - 1], checks[i])
  BY ApplyTurn
<1>2. PICK N \in Nat : N = Len(checks) /\ DOMAIN checks = 1 .. N
  OBVIOUS
<1> DEFINE S == {i \in 0 .. N : h[i][k] \in U}
<1>3. 0 \in S
  BY <1>1, <1>2
<1>4. ASSUME NEW i \in 0 .. N - 1, i \in S PROVE i + 1 \in S
  <2>1. /\ i + 1 \in 1 .. N /\ (i + 1) - 1 = i /\ h[i] \in Tables
        /\ checks[i + 1] \in CheckSet /\ checks[i + 1] \in ToSet(checks)
    BY <1>2 DEF ToSet
  <2>2. h[i + 1][k] = Turn(k, h[i][k], checks[i + 1])
    <3>1. h[i + 1] = ApplyCheck(h[i], checks[i + 1])
      BY <1>1, <1>2, <2>1
    <3> QED BY <2>1, <3>1, ApplyCheckTurn
  <2>3. h[i][k] \in U
    BY <1>4
  <2>4. h[i + 1][k] \in U
    BY <2>1, <2>2, <2>3
  <2> QED BY <2>1, <2>4
<1> HIDE DEF S
<1>5. \A i \in 0 .. N : i \in S
  BY <1>3, <1>4, InductiveUpTo
<1> QED BY <1>1, <1>2, <1>5 DEF S

\* ... and reaches one that a statement always leads into.
LEMMA AppliedReaches ==
  ASSUME NEW table \in Tables, NEW checks \in Seq(CheckSet), NEW k \in RowKeys, NEW U, NEW T,
         table[k] \in U, \A c \in ToSet(checks), x \in U : Turn(k, x, c) \in U,
         NEW d \in ToSet(checks), \A x \in U : Turn(k, x, d) \in T,
         \A c \in ToSet(checks), x \in T : Turn(k, x, c) \in T
  PROVE  ApplyChecks(table, checks)[k] \in T
<1>1. PICK h \in [0 .. Len(checks) -> Tables] :
        /\ h[0] = table
        /\ h[Len(checks)] = ApplyChecks(table, checks)
        /\ \A i \in 1 .. Len(checks) : h[i] = ApplyCheck(h[i - 1], checks[i])
  BY ApplyTurn
<1>2. PICK N \in Nat : N = Len(checks) /\ DOMAIN checks = 1 .. N
  OBVIOUS
<1>3. PICK j \in 1 .. N : checks[j] = d
  BY <1>2 DEF ToSet
<1> DEFINE S == {i \in 0 .. N : h[i][k] \in U /\ (i >= j => h[i][k] \in T)}
<1>4. 0 \in S
  BY <1>1, <1>2
<1>5. ASSUME NEW i \in 0 .. N - 1, i \in S PROVE i + 1 \in S
  <2>1. /\ i + 1 \in 1 .. N /\ (i + 1) - 1 = i /\ h[i] \in Tables
        /\ checks[i + 1] \in CheckSet /\ checks[i + 1] \in ToSet(checks)
    BY <1>2 DEF ToSet
  <2>2. h[i + 1][k] = Turn(k, h[i][k], checks[i + 1])
    <3>1. h[i + 1] = ApplyCheck(h[i], checks[i + 1])
      BY <1>1, <1>2, <2>1
    <3> QED BY <2>1, <3>1, ApplyCheckTurn
  <2>3. h[i + 1][k] \in U
    BY <1>5, <2>1, <2>2
  <2>4. CASE i + 1 = j
    BY <1>3, <1>5, <2>1, <2>2, <2>3, <2>4
  <2>5. CASE i >= j
    BY <1>5, <2>1, <2>2, <2>3, <2>5
  <2>6. CASE ~(i + 1 >= j)
    BY <2>1, <2>3, <2>6
  <2> QED BY <2>4, <2>5, <2>6
<1> HIDE DEF S
<1>6. \A i \in 0 .. N : i \in S
  BY <1>4, <1>5, InductiveUpTo
<1>7. N \in S /\ N >= j
  BY <1>2, <1>3, <1>6
<1> QED BY <1>1, <1>2, <1>7 DEF S

-----------------------------------------------------------------------------
(* The checks of a file.                                                   *)

WaysOf(file) == {c \in ToSet(file.changes) : c.kind = "way"}
DirectWays(file) == {c \in WaysOf(file) : c.action # "move"}
MovedWays(file, tables) ==
  {c \in WaysOf(file) \ DirectWays(file) :
     /\ tables[c.id].version > 0
     /\ \A d \in DirectWays(file) : ~(d.id = c.id /\ d.action = "remove")}

LEMMA CheckOfWayType ==
  ASSUME NEW c \in ChangeSet, c.kind = "way", NEW tables \in StoredWays
  PROVE  /\ CheckOfWay(c, tables) \in CheckSet
         /\ CheckOfWay(c, tables).id = c.id /\ CheckOfWay(c, tables).source = "building"
<1>1. c.id \in WayIds /\ c.version \in Nat
  BY DEF ChangeSet
<1>2. tables[c.id].version \in Nat
  BY <1>1 DEF StoredWays
<1>3. \A tags : CheckWay(tags, "building", FALSE, TRUE) \in SUBSET Statuses
  BY CheckWayType
<1> QED BY <1>1, <1>2, <1>3 DEF CheckOfWay, Check, CheckSet, Sources

\* One check for each of the changes that are in D.
ChecksFor(changes, D, tables) ==
  FlattenSeq([i \in DOMAIN changes |->
    LET c == changes[i] IN IF c \in D THEN <<CheckOfWay(c, tables)>> ELSE <<>>])

LEMMA SomeChecks ==
  ASSUME NEW changes \in Seq(ChangeSet), NEW D, NEW tables,
         \A c \in ToSet(changes) \cap D : CheckOfWay(c, tables) \in CheckSet
  PROVE  /\ ChecksFor(changes, D, tables) \in Seq(CheckSet)
         /\ ToSet(ChecksFor(changes, D, tables)) =
              {CheckOfWay(c, tables) : c \in ToSet(changes) \cap D}
<1> DEFINE one(c) == IF c \in D THEN <<CheckOfWay(c, tables)>> ELSE <<>>
           seqs == [i \in DOMAIN changes |-> one(changes[i])]
<1>1. PICK N \in Nat : N = Len(changes) /\ DOMAIN changes = 1 .. N
  OBVIOUS
<1>2. ASSUME NEW i \in 1 .. N
      PROVE  /\ one(changes[i]) \in Seq(CheckSet)
             /\ ToSet(one(changes[i])) =
                  {CheckOfWay(c, tables) : c \in {changes[i]} \cap D}
  <2>1. changes[i] \in ToSet(changes)
    BY <1>1 DEF ToSet
  <2>2. CASE changes[i] \in D
    <3>1. CheckOfWay(changes[i], tables) \in CheckSet /\ {changes[i]} \cap D = {changes[i]}
      BY <2>1, <2>2
    <3>2. one(changes[i]) = <<CheckOfWay(changes[i], tables)>>
      BY <2>2
    <3> QED BY <3>1, <3>2 DEF ToSet
  <2>3. CASE changes[i] \notin D
    <3>1. one(changes[i]) = <<>> /\ {changes[i]} \cap D = {}
      BY <2>3
    <3> QED BY <3>1 DEF ToSet
  <2> QED BY <2>2, <2>3
<1> HIDE DEF one
<1>3. seqs \in Seq(Seq(CheckSet)) /\ DOMAIN seqs = 1 .. N
  BY <1>1, <1>2
<1>4. /\ FlattenSeq(seqs) \in Seq(CheckSet)
      /\ ToSet(FlattenSeq(seqs)) = UNION {ToSet(seqs[i]) : i \in DOMAIN seqs}
  BY <1>3, FlattenHolds
<1>5. \A i \in 1 .. N : seqs[i] = one(changes[i])
  BY <1>1
<1> HIDE DEF seqs
<1>6. ASSUME NEW x
      PROVE  x \in ToSet(FlattenSeq(seqs)) <=>
               \E c \in ToSet(changes) \cap D : x = CheckOfWay(c, tables)
  <2>1. x \in ToSet(FlattenSeq(seqs)) <=> \E i \in 1 .. N : x \in ToSet(one(changes[i]))
    BY <1>3, <1>4, <1>5
  <2>2. \A i \in 1 .. N : x \in ToSet(one(changes[i])) <=>
          changes[i] \in D /\ x = CheckOfWay(changes[i], tables)
    BY <1>2
  <2>3. \A c : c \in ToSet(changes) <=> \E i \in 1 .. N : c = changes[i]
    BY <1>1 DEF ToSet
  <2> QED BY <2>1, <2>2, <2>3
<1>7. ToSet(FlattenSeq(seqs)) = {CheckOfWay(c, tables) : c \in ToSet(changes) \cap D}
  BY <1>6
<1> QED BY <1>4, <1>7 DEF seqs, one, ChecksFor

LEMMA WayChecksFacts ==
  ASSUME NEW file \in Files, NEW tables \in StoredWays
  PROVE  /\ WayChecks(file, tables) \in Seq(CheckSet)
         /\ ToSet(WayChecks(file, tables)) =
              {CheckOfWay(c, tables) : c \in DirectWays(file) \cup MovedWays(file, tables)}
<1> DEFINE direct == DirectWays(file)
           moved == MovedWays(file, tables)
           checks(D) == ChecksFor(file.changes, D, tables)
<1>1. WayChecks(file, tables) = checks(direct) \o checks(moved)
  BY DEF WayChecks, DirectWays, MovedWays, WaysOf, ChecksFor
<1>2. file.changes \in Seq(ChangeSet) /\ direct \subseteq ToSet(file.changes)
      /\ moved \subseteq ToSet(file.changes)
  BY DEF Files, DirectWays, MovedWays, WaysOf
<1>3. ToSet(file.changes) \subseteq ChangeSet
  BY <1>2 DEF ToSet
<1>4. \A c \in direct \cup moved : CheckOfWay(c, tables) \in CheckSet
  BY <1>2, <1>3, CheckOfWayType DEF DirectWays, MovedWays, WaysOf
<1> HIDE DEF direct, moved
<1>5. /\ checks(direct) \in Seq(CheckSet)
      /\ ToSet(checks(direct)) = {CheckOfWay(c, tables) : c \in ToSet(file.changes) \cap direct}
  BY <1>2, <1>4, SomeChecks
<1>6. /\ checks(moved) \in Seq(CheckSet)
      /\ ToSet(checks(moved)) = {CheckOfWay(c, tables) : c \in ToSet(file.changes) \cap moved}
  BY <1>2, <1>4, SomeChecks
<1> HIDE DEF checks
<1>7. /\ checks(direct) \o checks(moved) \in Seq(CheckSet)
      /\ ToSet(checks(direct) \o checks(moved)) = ToSet(checks(direct)) \cup ToSet(checks(moved))
  BY <1>5, <1>6, ToSetConcat
<1>8. ToSet(file.changes) \cap direct = direct /\ ToSet(file.changes) \cap moved = moved
  BY <1>2
<1>9. ToSet(checks(direct)) \cup ToSet(checks(moved)) =
        {CheckOfWay(c, tables) : c \in direct \cup moved}
  BY <1>5, <1>6, <1>8
<1> QED BY <1>1, <1>7, <1>9 DEF direct, moved

\* The keys of a node that a check is made for.
TypesOf(tags) == ToSet(NodeTests) \cap Keys(tags)

NodeCheck(c, type) == Check(c.id, "", c.version, CheckNode(c.tags, type))

LEMMA NodeTestsSet ==
  DOMAIN NodeTests = 1 .. 4 /\ \A type : type \in ToSet(NodeTests) <=> \E i \in 1 .. 4 : type = NodeTests[i]
BY DEF NodeTests, ToSet

LEMMA NodeCheckType ==
  ASSUME NEW c \in ChangeSet, c.kind = "node", NEW type
  PROVE  NodeCheck(c, type) \in CheckSet
<1>1. c.id \in NodeIds /\ c.version \in Nat
  BY DEF ChangeSet
<1>2. CheckNode(c.tags, type) \in SUBSET Statuses
  BY CheckNodeType DEF Statuses
<1> QED BY <1>1, <1>2 DEF NodeCheck, Check, CheckSet, Sources

LEMMA NodeCheckFields ==
  \A c, type :
    /\ NodeCheck(c, type).id = c.id /\ NodeCheck(c, type).source = ""
    /\ NodeCheck(c, type).version = c.version
    /\ NodeCheck(c, type).status = CheckNode(c.tags, type)
BY DEF NodeCheck, Check

LEMMA ChecksOfNodeFacts ==
  ASSUME NEW c \in ChangeSet, c.kind = "node"
  PROVE  /\ ChecksOfNode(c) \in Seq(CheckSet)
         /\ ToSet(ChecksOfNode(c)) =
              IF c.action = "remove" THEN {}
              ELSE {NodeCheck(c, type) : type \in TypesOf(c.tags)}
<1>1. CASE c.action = "remove"
  BY <1>1 DEF ChecksOfNode, ToSet
<1>2. CASE c.action # "remove"
  <2> DEFINE one(type) == IF type \in Keys(c.tags) THEN <<NodeCheck(c, type)>> ELSE <<>>
             seqs == [i \in DOMAIN NodeTests |-> one(NodeTests[i])]
  <2>1. ChecksOfNode(c) = FlattenSeq(seqs)
    BY <1>2 DEF ChecksOfNode, NodeCheck
  <2>2. ASSUME NEW type
        PROVE  /\ one(type) \in Seq(CheckSet)
               /\ \A x : x \in ToSet(one(type)) <=> type \in Keys(c.tags) /\ x = NodeCheck(c, type)
    BY NodeCheckType DEF ToSet
  <2> HIDE DEF one
  <2>3. seqs \in Seq(Seq(CheckSet)) /\ DOMAIN seqs = 1 .. 4
    <3>1. seqs = [i \in 1 .. 4 |-> one(NodeTests[i])]
      BY NodeTestsSet
    <3> QED BY <2>2, <3>1
  <2>4. /\ FlattenSeq(seqs) \in Seq(CheckSet)
        /\ ToSet(FlattenSeq(seqs)) = UNION {ToSet(seqs[i]) : i \in DOMAIN seqs}
    BY <2>3, FlattenHolds
  <2>5. \A i \in 1 .. 4 : seqs[i] = one(NodeTests[i])
    BY NodeTestsSet
  <2> HIDE DEF seqs
  <2>6. ASSUME NEW x
        PROVE  x \in ToSet(FlattenSeq(seqs)) <=> \E type \in TypesOf(c.tags) : x = NodeCheck(c, type)
    <3>1. x \in ToSet(FlattenSeq(seqs)) <=> \E i \in 1 .. 4 : x \in ToSet(one(NodeTests[i]))
      BY <2>3, <2>4, <2>5
    <3> QED BY <2>2, <3>1, NodeTestsSet DEF TypesOf
  <2> QED BY <1>2, <2>1, <2>4, <2>6
<1> QED BY <1>1, <1>2

NodesOf(file) == {c \in ToSet(file.changes) : c.kind = "node" /\ c.action # "remove"}

LEMMA NodeChecksFacts ==
  ASSUME NEW file \in Files
  PROVE  /\ NodeChecks(file) \in Seq(CheckSet)
         /\ \A x : x \in ToSet(NodeChecks(file)) <=>
              \E c \in NodesOf(file) : \E type \in TypesOf(c.tags) : x = NodeCheck(c, type)
<1> DEFINE changes == file.changes
           one(c) == IF c.kind = "node" THEN ChecksOfNode(c) ELSE <<>>
           seqs == [i \in DOMAIN changes |-> one(changes[i])]
<1>1. NodeChecks(file) = FlattenSeq(seqs)
  BY DEF NodeChecks
<1>2. changes \in Seq(ChangeSet)
  BY DEF Files
<1> HIDE DEF changes
<1>3. PICK N \in Nat : N = Len(changes) /\ DOMAIN changes = 1 .. N
  BY <1>2
<1>4. ASSUME NEW c \in ChangeSet
      PROVE  /\ one(c) \in Seq(CheckSet)
             /\ \A x : x \in ToSet(one(c)) <=>
                  /\ c.kind = "node" /\ c.action # "remove"
                  /\ \E type \in TypesOf(c.tags) : x = NodeCheck(c, type)
  <2>1. CASE c.kind = "node"
    BY <2>1, ChecksOfNodeFacts
  <2>2. CASE c.kind # "node"
    BY <2>2 DEF ToSet
  <2> QED BY <2>1, <2>2
<1> HIDE DEF one
<1>5. \A i \in 1 .. N : changes[i] \in ChangeSet
  BY <1>2, <1>3
<1>6. seqs \in Seq(Seq(CheckSet)) /\ DOMAIN seqs = 1 .. N
  BY <1>3, <1>4, <1>5
<1>7. /\ FlattenSeq(seqs) \in Seq(CheckSet)
      /\ ToSet(FlattenSeq(seqs)) = UNION {ToSet(seqs[i]) : i \in DOMAIN seqs}
  BY <1>6, FlattenHolds
<1>8. \A i \in 1 .. N : seqs[i] = one(changes[i])
  BY <1>3
<1> HIDE DEF seqs
<1>9. ASSUME NEW x
      PROVE  x \in ToSet(FlattenSeq(seqs)) <=>
               \E c \in NodesOf(file) : \E type \in TypesOf(c.tags) : x = NodeCheck(c, type)
  <2>1. x \in ToSet(FlattenSeq(seqs)) <=> \E i \in 1 .. N : x \in ToSet(one(changes[i]))
    BY <1>6, <1>7, <1>8
  <2>2. \A c : c \in ToSet(changes) <=> \E i \in 1 .. N : c = changes[i]
    BY <1>3 DEF ToSet
  <2>3. \A c : c \in NodesOf(file) <=> c \in ToSet(changes) /\ c.kind = "node" /\ c.action # "remove"
    BY DEF NodesOf, changes
  <2> QED BY <1>4, <1>5, <2>1, <2>2, <2>3
<1> QED BY <1>1, <1>7, <1>9

-----------------------------------------------------------------------------
(* What a file does to a row.                                              *)

FileChecks(file, tables) == ToSet(WayChecks(file, tables)) \cup ToSet(NodeChecks(file))

\* However often the statements are repeated, they are those of the checks.
LEMMA RepeatedSet ==
  ASSUME NEW checks \in Seq(CheckSet), NEW times \in 1 .. 2
  PROVE  /\ FlattenSeq([i \in 1 .. times |-> checks]) \in Seq(CheckSet)
         /\ ToSet(FlattenSeq([i \in 1 .. times |-> checks])) = ToSet(checks)
<1> DEFINE seqs == [i \in 1 .. times |-> checks]
<1>1. seqs \in Seq(Seq(CheckSet)) /\ DOMAIN seqs = 1 .. times
  OBVIOUS
<1>2. /\ FlattenSeq(seqs) \in Seq(CheckSet)
      /\ ToSet(FlattenSeq(seqs)) = UNION {ToSet(seqs[i]) : i \in DOMAIN seqs}
  BY <1>1, FlattenHolds
<1>3. (\A i \in 1 .. times : seqs[i] = checks) /\ 1 \in 1 .. times
  OBVIOUS
<1> HIDE DEF seqs
<1>4. UNION {ToSet(seqs[i]) : i \in DOMAIN seqs} = ToSet(checks)
  BY <1>1, <1>3
<1> QED BY <1>2, <1>4 DEF seqs

LEMMA ValidatedTurn ==
  ASSUME NEW table \in Tables, NEW file \in Files, file.written,
         NEW tables \in StoredWays, NEW times \in 1 .. 2
  PROVE  \E statements \in Seq(CheckSet) :
           /\ ToSet(statements) = FileChecks(file, tables)
           /\ Validated(table, file, tables, times) =
                DeleteAll(ApplyChecks(table, statements),
                          Clean(statements) \cup Removed(file))
<1> DEFINE ways == WayChecks(file, tables)
           nodes == NodeChecks(file)
           repeated(checks) == FlattenSeq([i \in 1 .. times |-> checks])
           statements == repeated(ways) \o repeated(nodes)
<1>1. ways \in Seq(CheckSet) /\ nodes \in Seq(CheckSet)
  BY WayChecksFacts, NodeChecksFacts
<1>2. Validated(table, file, tables, times) =
        DeleteAll(ApplyChecks(table, statements), Clean(ways \o nodes) \cup Removed(file))
  BY DEF Validated
<1>3. FileChecks(file, tables) = ToSet(ways) \cup ToSet(nodes)
  BY DEF FileChecks
<1> HIDE DEF ways, nodes
<1>4. /\ repeated(ways) \in Seq(CheckSet) /\ ToSet(repeated(ways)) = ToSet(ways)
      /\ repeated(nodes) \in Seq(CheckSet) /\ ToSet(repeated(nodes)) = ToSet(nodes)
  BY <1>1, RepeatedSet
<1> HIDE DEF repeated
<1>5. statements \in Seq(CheckSet) /\ ToSet(statements) = ToSet(ways) \cup ToSet(nodes)
  <2>1. statements \in Seq(CheckSet)
    BY <1>4
  <2> QED BY <1>4, <2>1, ToSetConcat
<1>6. ToSet(ways \o nodes) = ToSet(ways) \cup ToSet(nodes)
  BY <1>1, ToSetConcat
<1>7. Clean(ways \o nodes) = Clean(statements)
  BY <1>5, <1>6 DEF Clean
<1> QED BY <1>2, <1>3, <1>5, <1>7

LEMMA DeleteAllType ==
  ASSUME NEW table \in Tables, NEW ids
  PROVE  /\ DeleteAll(table, ids) \in Tables
         /\ \A k \in RowKeys : DeleteAll(table, ids)[k] = IF k.id \in ids THEN 0 ELSE table[k]
BY DEF DeleteAll, Tables

LEMMA ApplyChecksType ==
  ASSUME NEW table \in Tables, NEW checks \in Seq(CheckSet)
  PROVE  ApplyChecks(table, checks) \in Tables
<1>1. PICK h \in [0 .. Len(checks) -> Tables] : h[Len(checks)] = ApplyChecks(table, checks)
  BY ApplyTurn
<1>2. Len(checks) \in 0 .. Len(checks)
  OBVIOUS
<1> QED BY <1>1, <1>2

\* The rows of an identifier are deleted in the end.
Wiped(file, tables, id) ==
  id \in Removed(file) \/ \E c \in FileChecks(file, tables) : c.id = id /\ c.status = {}

\* The same, row by row.
LEMMA ValidatedRow ==
  ASSUME NEW table \in Tables, NEW file \in Files, file.written,
         NEW tables \in StoredWays, NEW times \in 1 .. 2
  PROVE  \E statements \in Seq(CheckSet) :
           /\ ToSet(statements) = FileChecks(file, tables)
           /\ Validated(table, file, tables, times) \in Tables
           /\ \A x \in RowKeys :
                Validated(table, file, tables, times)[x] =
                  IF Wiped(file, tables, x.id) THEN 0 ELSE ApplyChecks(table, statements)[x]
<1>1. PICK statements \in Seq(CheckSet) :
        /\ ToSet(statements) = FileChecks(file, tables)
        /\ Validated(table, file, tables, times) =
             DeleteAll(ApplyChecks(table, statements), Clean(statements) \cup Removed(file))
  BY ValidatedTurn
<1>2. ApplyChecks(table, statements) \in Tables
  BY ApplyChecksType
<1>3. \A id : id \in Clean(statements) <=>
        \E c \in FileChecks(file, tables) : c.id = id /\ c.status = {}
  BY <1>1 DEF Clean
<1>4. /\ Validated(table, file, tables, times) \in Tables
      /\ \A k \in RowKeys : Validated(table, file, tables, times)[k] =
           IF k.id \in Clean(statements) \cup Removed(file) THEN 0
           ELSE ApplyChecks(table, statements)[k]
  BY <1>1, <1>2, DeleteAllType
<1> QED BY <1>1, <1>3, <1>4 DEF Wiped

LEMMA FileChecksType ==
  ASSUME NEW file \in Files, NEW tables \in StoredWays
  PROVE  /\ FileChecks(file, tables) \subseteq CheckSet
         /\ \A x : x \in FileChecks(file, tables) <=>
              \/ \E c \in DirectWays(file) \cup MovedWays(file, tables) : x = CheckOfWay(c, tables)
              \/ \E c \in NodesOf(file) : \E type \in TypesOf(c.tags) : x = NodeCheck(c, type)
<1>1. /\ WayChecks(file, tables) \in Seq(CheckSet) /\ NodeChecks(file) \in Seq(CheckSet)
      /\ ToSet(WayChecks(file, tables)) =
           {CheckOfWay(c, tables) : c \in DirectWays(file) \cup MovedWays(file, tables)}
      /\ \A x : x \in ToSet(NodeChecks(file)) <=>
           \E c \in NodesOf(file) : \E type \in TypesOf(c.tags) : x = NodeCheck(c, type)
  BY WayChecksFacts, NodeChecksFacts
<1>2. \A s \in Seq(CheckSet) : ToSet(s) \subseteq CheckSet
  BY DEF ToSet
<1>3. FileChecks(file, tables) \subseteq CheckSet
  BY <1>1, <1>2 DEF FileChecks
<1>4. \A x : x \in FileChecks(file, tables) <=>
        x \in ToSet(WayChecks(file, tables)) \/ x \in ToSet(NodeChecks(file))
  BY DEF FileChecks
<1> QED BY <1>1, <1>3, <1>4

LEMMA ChangesOf ==
  ASSUME NEW file \in Files
  PROVE  ToSet(file.changes) \subseteq ChangeSet
<1>1. file.changes \in Seq(ChangeSet)
  BY DEF Files
<1> QED BY <1>1 DEF ToSet

\* A file gives a row no version but that of a check that finds its status.
LEMMA RowBound ==
  ASSUME NEW table \in Tables, NEW file \in Files,
         NEW tables \in StoredWays, NEW times \in 1 .. 2
  PROVE  /\ Validated(table, file, tables, times) \in Tables
         /\ \A k \in RowKeys :
              \/ Validated(table, file, tables, times)[k] \in {0, table[k]}
              \/ \E c \in FileChecks(file, tables) :
                   /\ c.id = k.id /\ c.source = k.source /\ k.status \in c.status
                   /\ Validated(table, file, tables, times)[k] = c.version
<1> DEFINE after == Validated(table, file, tables, times)
<1>1. CASE ~file.written
  <2>1. after = DeleteAll(table, Removed(file))
    BY <1>1 DEF Validated
  <2> HIDE DEF after
  <2>2. after \in Tables /\ \A k \in RowKeys : after[k] \in {0, table[k]}
    BY <2>1, DeleteAllType
  <2> QED BY <2>2 DEF after
<1>2. CASE file.written
  <2>1. PICK statements \in Seq(CheckSet) :
          /\ ToSet(statements) = FileChecks(file, tables)
          /\ after \in Tables
          /\ \A x \in RowKeys :
               after[x] = IF Wiped(file, tables, x.id) THEN 0 ELSE ApplyChecks(table, statements)[x]
    BY <1>2, ValidatedRow
  <2> HIDE DEF after
  <2>2. ASSUME NEW k \in RowKeys
        PROVE  \/ after[k] \in {0, table[k]}
               \/ \E c \in FileChecks(file, tables) :
                    /\ c.id = k.id /\ c.source = k.source /\ k.status \in c.status
                    /\ after[k] = c.version
    <3> DEFINE found == {c \in FileChecks(file, tables) :
                           c.id = k.id /\ c.source = k.source /\ k.status \in c.status}
               U == {0, table[k]} \cup {c.version : c \in found}
    <3>1. ASSUME NEW c \in ToSet(statements), NEW x \in U PROVE Turn(k, x, c) \in U
      BY <2>1 DEF Turn, Upserted
    <3>2. table[k] \in U
      OBVIOUS
    <3> HIDE DEF U
    <3>3. ApplyChecks(table, statements)[k] \in U
      BY <3>1, <3>2, AppliedIn
    <3>4. after[k] \in U
      <4>1. 0 \in U
        BY DEF U
      <4> QED BY <2>1, <3>3, <4>1
    <3> QED BY <3>4 DEF U
  <2> QED BY <2>1, <2>2 DEF after
<1> QED BY <1>1, <1>2

\* The rows of an identifier that the file does not name.
LEMMA RowKept ==
  ASSUME NEW table \in Tables, NEW file \in Files, file.written,
         NEW tables \in StoredWays, NEW times \in 1 .. 2, NEW k \in RowKeys,
         \A c \in ToSet(file.changes) : c.id # k.id
  PROVE  Validated(table, file, tables, times)[k] = table[k]
<1>1. PICK statements \in Seq(CheckSet) :
        /\ ToSet(statements) = FileChecks(file, tables)
        /\ Validated(table, file, tables, times) \in Tables
        /\ \A x \in RowKeys :
             Validated(table, file, tables, times)[x] =
               IF Wiped(file, tables, x.id) THEN 0 ELSE ApplyChecks(table, statements)[x]
  BY ValidatedRow
<1>2. ASSUME NEW x \in FileChecks(file, tables) PROVE x.id # k.id
  <2>1. CASE \E c \in DirectWays(file) \cup MovedWays(file, tables) : x = CheckOfWay(c, tables)
    <3>1. PICK c \in DirectWays(file) \cup MovedWays(file, tables) : x = CheckOfWay(c, tables)
      BY <2>1
    <3>2. c \in ToSet(file.changes)
      BY DEF DirectWays, MovedWays, WaysOf
    <3> QED BY <3>1, <3>2 DEF CheckOfWay, Check
  <2>2. CASE \E c \in NodesOf(file) : \E type \in TypesOf(c.tags) : x = NodeCheck(c, type)
    <3>1. PICK c \in NodesOf(file) : \E type \in TypesOf(c.tags) : x = NodeCheck(c, type)
      BY <2>2
    <3>2. c \in ToSet(file.changes)
      BY DEF NodesOf
    <3>3. x.id = c.id
      BY <3>1, NodeCheckFields
    <3> QED BY <3>2, <3>3
  <2> QED BY <2>1, <2>2, FileChecksType
<1>3. k.id \notin Removed(file)
  BY DEF Removed
<1>4. ApplyChecks(table, statements)[k] = table[k]
  <2> DEFINE U == {table[k]}
  <2>1. \A c \in ToSet(statements), x \in U : Turn(k, x, c) \in U
    BY <1>1, <1>2 DEF Turn
  <2>2. table[k] \in U
    OBVIOUS
  <2> HIDE DEF U
  <2>3. ApplyChecks(table, statements)[k] \in U
    BY <2>1, <2>2, AppliedIn
  <2> QED BY <2>3 DEF U
<1> QED BY <1>1, <1>2, <1>3, <1>4 DEF Wiped

\* Only: the change is the only one of its identifier in the file.
Only(c, file) ==
  c \in ToSet(file.changes) /\ \A d \in ToSet(file.changes) : d.id = c.id => d = c

Newer(x, v) == IF x < v THEN v ELSE x

LEMMA NewerFacts ==
  ASSUME NEW x \in Nat, NEW v \in Nat
  PROVE  /\ Newer(x, v) \in Nat /\ ~(Newer(x, v) < v) /\ x <= Newer(x, v)
         /\ Newer(Newer(x, v), v) = Newer(x, v)
<1>1. \A y : ~(y < v) => Newer(y, v) = y
  BY DEF Newer
<1>2. Newer(x, v) \in Nat /\ ~(Newer(x, v) < v) /\ x <= Newer(x, v)
  BY DEF Newer
<1> QED BY <1>1, <1>2

\* A way that the file changes once.
LEMMA WayAfter ==
  ASSUME NEW table \in Tables, NEW file \in Files, file.written,
         NEW tables \in StoredWays, NEW times \in 1 .. 2, NEW k \in RowKeys,
         NEW c, Only(c, file), c.kind = "way", k.id = c.id, k.source = "building",
         c.action = "move" => tables[c.id].version > 0
  PROVE  Validated(table, file, tables, times)[k] =
           LET check == CheckOfWay(c, tables)
           IN  IF check.status = {} THEN 0
               ELSE IF k.status \in check.status THEN Newer(table[k], check.version)
               ELSE IF k.status \in {"badvalue", "badgeom"} THEN 0
               ELSE table[k]
<1> DEFINE check == CheckOfWay(c, tables)
           after == Validated(table, file, tables, times)
<1>1. PICK statements \in Seq(CheckSet) :
        /\ ToSet(statements) = FileChecks(file, tables)
        /\ after \in Tables
        /\ \A x \in RowKeys :
             after[x] =
               IF Wiped(file, tables, x.id) THEN 0 ELSE ApplyChecks(table, statements)[x]
  BY ValidatedRow
<1>2. c \in ChangeSet /\ c \in WaysOf(file)
  BY ChangesOf DEF Only, WaysOf
<1>3. check \in CheckSet /\ check.id = k.id /\ check.source = "building"
  BY <1>2, CheckOfWayType
<1>4. check \in FileChecks(file, tables)
  <2>1. c \in DirectWays(file) \cup MovedWays(file, tables)
    BY <1>2 DEF DirectWays, MovedWays, WaysOf, Only
  <2> QED BY <2>1, FileChecksType
<1>5. ASSUME NEW x \in FileChecks(file, tables), x.id = k.id PROVE x = check
  <2>1. CASE \E d \in DirectWays(file) \cup MovedWays(file, tables) : x = CheckOfWay(d, tables)
    <3>1. PICK d \in DirectWays(file) \cup MovedWays(file, tables) : x = CheckOfWay(d, tables)
      BY <2>1
    <3>2. d \in ToSet(file.changes)
      BY DEF DirectWays, MovedWays, WaysOf
    <3>3. d.id = c.id
      BY <1>5, <3>1 DEF CheckOfWay, Check
    <3> QED BY <3>1, <3>2, <3>3 DEF Only
  <2>2. CASE \E d \in NodesOf(file) : \E type \in TypesOf(d.tags) : x = NodeCheck(d, type)
    <3>1. PICK d \in NodesOf(file) : \E type \in TypesOf(d.tags) : x = NodeCheck(d, type)
      BY <2>2
    <3>2. d \in ToSet(file.changes) /\ d.kind = "node"
      BY DEF NodesOf
    <3>3. d.id = c.id
      BY <1>5, <3>1, NodeCheckFields
    <3> QED BY <3>2, <3>3 DEF Only
  <2> QED BY <2>1, <2>2, FileChecksType
<1>6. k.id \in Removed(file) => check.status = {}
  <2> SUFFICES ASSUME k.id \in Removed(file) PROVE check.status = {}
    OBVIOUS
  <2>1. PICK d \in ToSet(file.changes) : d.action = "remove" /\ d.id = k.id
    BY DEF Removed
  <2>2. c.action = "remove"
    BY <2>1 DEF Only
  <2> QED BY <2>2 DEF CheckOfWay, Check
<1>7. CASE check.status = {}
  BY <1>1, <1>3, <1>4, <1>7 DEF Wiped
<1>8. CASE check.status # {}
  <2>1. after[k] = ApplyChecks(table, statements)[k]
    BY <1>1, <1>5, <1>6, <1>8 DEF Wiped
  <2>2. table[k] \in Nat /\ check.version \in Nat
    BY <1>3 DEF Tables, CheckSet
  <2>3. \A d \in ToSet(statements) : \A x : Turn(k, x, d) = IF d = check THEN Turn(k, x, check) ELSE x
    BY <1>1, <1>3, <1>5 DEF Turn
  <2> HIDE DEF check, after
  <2>4. CASE k.status \in check.status
    <3>1. \A x : Turn(k, x, check) = Newer(x, check.version)
      BY <1>3, <1>8, <2>4 DEF Turn, Deleted, Upserted, Newer
    <3> DEFINE T == {Newer(table[k], check.version)}
               U == {table[k]} \cup T
    <3>2. \A x \in U : Turn(k, x, check) \in T
      BY <2>2, <3>1 DEF Newer
    <3>3. \A d \in ToSet(statements), x \in U : Turn(k, x, d) \in U
      BY <2>3, <3>2
    <3>4. \A d \in ToSet(statements), x \in T : Turn(k, x, d) \in T
      BY <2>3, <3>2
    <3>5. table[k] \in U /\ check \in ToSet(statements)
      BY <1>1, <1>4
    <3> HIDE DEF T, U
    <3>6. ApplyChecks(table, statements)[k] \in T
      BY <3>2, <3>3, <3>4, <3>5, AppliedReaches
    <3>7. after[k] = Newer(table[k], check.version)
      BY <2>1, <3>6 DEF T
    <3> QED BY <1>8, <2>4, <3>7 DEF check, after
  <2>5. CASE k.status \notin check.status /\ k.status \in {"badvalue", "badgeom"}
    <3>1. \A x : Turn(k, x, check) = 0
      BY <1>3, <1>8, <2>5 DEF Turn, Deleted
    <3> DEFINE T == {0}
               U == {table[k], 0}
    <3>2. \A x \in U : Turn(k, x, check) \in T
      BY <3>1
    <3>3. \A d \in ToSet(statements), x \in U : Turn(k, x, d) \in U
      BY <2>3, <3>2
    <3>4. \A d \in ToSet(statements), x \in T : Turn(k, x, d) \in T
      BY <2>3, <3>2
    <3>5. table[k] \in U /\ check \in ToSet(statements)
      BY <1>1, <1>4
    <3> HIDE DEF T, U
    <3>6. ApplyChecks(table, statements)[k] \in T
      BY <3>2, <3>3, <3>4, <3>5, AppliedReaches
    <3>7. after[k] = 0
      BY <2>1, <3>6 DEF T
    <3> QED BY <1>8, <2>5, <3>7 DEF check, after
  <2>6. CASE k.status \notin check.status /\ k.status \notin {"badvalue", "badgeom"}
    <3>1. \A x : Turn(k, x, check) = x
      BY <1>3, <1>8, <2>6 DEF Turn, Deleted, Upserted
    <3> DEFINE U == {table[k]}
    <3>2. \A d \in ToSet(statements), x \in U : Turn(k, x, d) \in U
      BY <2>3, <3>1
    <3>3. table[k] \in U
      OBVIOUS
    <3> HIDE DEF U
    <3>4. ApplyChecks(table, statements)[k] \in U
      BY <3>2, <3>3, AppliedIn
    <3>5. after[k] = table[k]
      BY <2>1, <3>4 DEF U
    <3> QED BY <1>8, <2>6, <3>5 DEF check, after
  <2> QED BY <2>4, <2>5, <2>6
<1> QED BY <1>7, <1>8

NodeRowAfter(c, status, before, after) ==
  LET found == {CheckNode(c.tags, type) : type \in TypesOf(c.tags)}
  IN  IF c.action = "remove" \/ {} \in found THEN after = 0
      ELSE /\ status \in UNION found => after = Newer(before, c.version)
           /\ found # {} /\ status \notin UNION found /\ status = "badvalue" => after = 0

\* A node that the file changes once.
LEMMA NodeAfter ==
  ASSUME NEW table \in Tables, NEW file \in Files, file.written,
         NEW tables \in StoredWays, NEW times \in 1 .. 2, NEW k \in RowKeys,
         NEW c, Only(c, file), c.kind = "node", k.id = c.id, k.source = ""
  PROVE  NodeRowAfter(c, k.status, table[k], Validated(table, file, tables, times)[k])
<1> SUFFICES LET after == Validated(table, file, tables, times)[k]
                 found == {CheckNode(c.tags, type) : type \in TypesOf(c.tags)}
             IN  IF c.action = "remove" \/ {} \in found THEN after = 0
                 ELSE /\ k.status \in UNION found => after = Newer(table[k], c.version)
                      /\ found # {} /\ k.status \notin UNION found /\ k.status = "badvalue" =>
                           after = 0
  BY DEF NodeRowAfter
<1> DEFINE found == {CheckNode(c.tags, type) : type \in TypesOf(c.tags)}
           after == Validated(table, file, tables, times)
<1>0. \A x : x \in FileChecks(file, tables) <=>
        \/ \E d \in DirectWays(file) \cup MovedWays(file, tables) : x = CheckOfWay(d, tables)
        \/ \E d \in NodesOf(file) : \E type \in TypesOf(d.tags) : x = NodeCheck(d, type)
  BY FileChecksType
<1>1. PICK statements \in Seq(CheckSet) :
        /\ ToSet(statements) = FileChecks(file, tables)
        /\ after \in Tables
        /\ \A x \in RowKeys :
             after[x] =
               IF Wiped(file, tables, x.id) THEN 0 ELSE ApplyChecks(table, statements)[x]
  BY ValidatedRow
<1>2. c \in ChangeSet /\ c \in ToSet(file.changes)
  BY ChangesOf DEF Only
<1>3. CASE c.action = "remove"
  <2>1. k.id \in Removed(file)
    BY <1>2, <1>3 DEF Removed
  <2> QED BY <1>1, <1>3, <2>1 DEF Wiped
<1>4. CASE c.action # "remove"
  <2>1. c \in NodesOf(file)
    BY <1>2, <1>4 DEF NodesOf
  <2>2. \A type \in TypesOf(c.tags) : NodeCheck(c, type) \in FileChecks(file, tables)
    BY <2>1, FileChecksType
  <2>3. ASSUME NEW x \in FileChecks(file, tables), x.id = k.id
        PROVE  \E type \in TypesOf(c.tags) : x = NodeCheck(c, type)
    <3>1. CASE \E d \in DirectWays(file) \cup MovedWays(file, tables) : x = CheckOfWay(d, tables)
      <4>1. PICK d \in DirectWays(file) \cup MovedWays(file, tables) : x = CheckOfWay(d, tables)
        BY <3>1
      <4>2. d \in ToSet(file.changes) /\ d.kind = "way"
        BY DEF DirectWays, MovedWays, WaysOf
      <4>3. d.id = c.id
        BY <2>3, <4>1 DEF CheckOfWay, Check
      <4> QED BY <4>2, <4>3 DEF Only
    <3>2. CASE \E d \in NodesOf(file) : \E type \in TypesOf(d.tags) : x = NodeCheck(d, type)
      <4>1. PICK d \in NodesOf(file) : \E type \in TypesOf(d.tags) : x = NodeCheck(d, type)
        BY <3>2
      <4>2. d \in ToSet(file.changes)
        BY DEF NodesOf
      <4>3. d.id = c.id
        BY <2>3, <4>1, NodeCheckFields
      <4>4. d = c
        BY <4>2, <4>3 DEF Only
      <4> QED BY <4>1, <4>4
    <3>3. \/ \E d \in DirectWays(file) \cup MovedWays(file, tables) : x = CheckOfWay(d, tables)
          \/ \E d \in NodesOf(file) : \E type \in TypesOf(d.tags) : x = NodeCheck(d, type)
      BY <1>0, <2>3
    <3> QED BY <3>1, <3>2, <3>3
  <2>4. k.id \notin Removed(file)
    <3> SUFFICES ASSUME NEW d \in ToSet(file.changes), d.action = "remove", d.id = k.id
                 PROVE  FALSE
      BY DEF Removed
    <3> QED BY <1>4 DEF Only
  <2>5. CASE {} \in found
    <3>1. PICK type \in TypesOf(c.tags) : CheckNode(c.tags, type) = {}
      BY <2>5
    <3>2. /\ NodeCheck(c, type) \in FileChecks(file, tables)
          /\ NodeCheck(c, type).id = k.id /\ NodeCheck(c, type).status = {}
      BY <2>2, <3>1, NodeCheckFields
    <3>3. Wiped(file, tables, k.id)
      BY <3>2 DEF Wiped
    <3> QED BY <1>1, <2>5, <3>3
  <2>6. CASE {} \notin found
    <3>1. ASSUME NEW x \in FileChecks(file, tables), x.id = k.id PROVE x.status \in found
      <4>1. PICK type \in TypesOf(c.tags) : x = NodeCheck(c, type)
        BY <2>3, <3>1
      <4>2. x.status = CheckNode(c.tags, type)
        BY <4>1, NodeCheckFields
      <4> QED BY <4>2
    <3>2. ~Wiped(file, tables, k.id)
      BY <2>4, <2>6, <3>1 DEF Wiped
    <3>3. after[k] = ApplyChecks(table, statements)[k]
      BY <1>1, <3>2
    <3>4. ASSUME k.status \in UNION found PROVE after[k] = Newer(table[k], c.version)
      <4>1. PICK one \in TypesOf(c.tags) : k.status \in CheckNode(c.tags, one)
        BY <3>4
      <4>2. k.status = "badvalue" =>
              \A type \in TypesOf(c.tags) : "badvalue" \in CheckNode(c.tags, type)
        BY <2>6, <4>1, BadValueEverywhere DEF TypesOf
      <4>3. table[k] \in Nat /\ c.version \in Nat
        BY <1>2 DEF Tables, ChangeSet
      <4>0. /\ ~(Newer(table[k], c.version) < c.version)
            /\ Newer(Newer(table[k], c.version), c.version) = Newer(table[k], c.version)
        BY <4>3, NewerFacts
      <4> DEFINE T == {Newer(table[k], c.version)}
                 U == {table[k]} \cup T
      <4>4. ASSUME NEW x \in FileChecks(file, tables), NEW y, ~(y < c.version) \/ y = table[k]
            PROVE  Turn(k, y, x) = y \/ Turn(k, y, x) = Newer(y, c.version)
        <5>1. CASE x.id # k.id
          BY <5>1 DEF Turn
        <5>2. CASE x.id = k.id
          <6>1. PICK type \in TypesOf(c.tags) : x = NodeCheck(c, type)
            BY <2>3, <5>2
          <6>2. ~Deleted(k, x)
            BY <4>2, <6>1, NodeCheckFields DEF Deleted
          <6>3. Turn(k, y, x) = y \/ Turn(k, y, x) = Upserted(k, y, x)
            BY <6>2 DEF Turn
          <6> QED BY <6>1, <6>3, NodeCheckFields DEF Upserted, Newer
        <5> QED BY <5>1, <5>2
      <4>5. \A x \in ToSet(statements), y \in U : Turn(k, y, x) \in U
        <5> SUFFICES ASSUME NEW x \in ToSet(statements), NEW y \in U PROVE Turn(k, y, x) \in U
          OBVIOUS
        <5>1. y = table[k] \/ y = Newer(table[k], c.version)
          OBVIOUS
        <5>2. y = table[k] \/ ~(y < c.version)
          BY <4>0, <5>1
        <5>3. Newer(y, c.version) = Newer(table[k], c.version)
          BY <4>0, <5>1
        <5> QED BY <1>1, <4>4, <5>2, <5>3
      <4>6. \A x \in ToSet(statements), y \in T : Turn(k, y, x) \in T
        <5> SUFFICES ASSUME NEW x \in ToSet(statements), NEW y \in T PROVE Turn(k, y, x) \in T
          OBVIOUS
        <5>1. y = Newer(table[k], c.version)
          OBVIOUS
        <5>2. ~(y < c.version) /\ Newer(y, c.version) = y
          BY <4>0, <5>1
        <5> QED BY <1>1, <4>4, <5>2
      <4>7. \A y \in U : Turn(k, y, NodeCheck(c, one)) \in T
        <5> SUFFICES ASSUME NEW y \in U PROVE Turn(k, y, NodeCheck(c, one)) \in T
          OBVIOUS
        <5>1. Turn(k, y, NodeCheck(c, one)) = Newer(y, c.version)
          <6>1. NodeCheck(c, one).status # {} /\ ~Deleted(k, NodeCheck(c, one))
            BY <4>1, NodeCheckFields DEF Deleted
          <6> QED BY <4>1, <6>1, NodeCheckFields DEF Turn, Upserted, Newer
        <5>2. y = table[k] \/ y = Newer(table[k], c.version)
          OBVIOUS
        <5>3. Newer(y, c.version) = Newer(table[k], c.version)
          BY <4>0, <5>2
        <5> QED BY <5>1, <5>3
      <4>8. NodeCheck(c, one) \in ToSet(statements) /\ table[k] \in U
        BY <1>1, <2>2
      <4> HIDE DEF T, U
      <4>9. ApplyChecks(table, statements)[k] \in T
        BY <4>5, <4>6, <4>7, <4>8, AppliedReaches
      <4> QED BY <3>3, <4>9 DEF T
    <3>5. ASSUME found # {}, k.status \notin UNION found, k.status = "badvalue"
          PROVE  after[k] = 0
      <4>1. PICK one \in TypesOf(c.tags) : TRUE
        BY <3>5
      <4>2. \A type \in TypesOf(c.tags) : \A y : Turn(k, y, NodeCheck(c, type)) = 0
        <5> SUFFICES ASSUME NEW type \in TypesOf(c.tags), NEW y
                     PROVE  Turn(k, y, NodeCheck(c, type)) = 0
          OBVIOUS
        <5>1. CheckNode(c.tags, type) # {} /\ k.status \notin CheckNode(c.tags, type)
          BY <2>6, <3>5
        <5> QED BY <3>5, <5>1, NodeCheckFields DEF Turn, Deleted
      <4>3. \A x \in ToSet(statements) : \A y : Turn(k, y, x) = 0 \/ Turn(k, y, x) = y
        BY <1>1, <2>3, <4>2 DEF Turn
      <4> DEFINE T == {0}
                 U == {table[k], 0}
      <4>4. /\ \A x \in ToSet(statements), y \in U : Turn(k, y, x) \in U
            /\ \A x \in ToSet(statements), y \in T : Turn(k, y, x) \in T
            /\ \A y \in U : Turn(k, y, NodeCheck(c, one)) \in T
            /\ NodeCheck(c, one) \in ToSet(statements) /\ table[k] \in U
        BY <1>1, <2>2, <4>2, <4>3
      <4> HIDE DEF T, U
      <4>5. ApplyChecks(table, statements)[k] \in T
        BY <4>4, AppliedReaches
      <4> QED BY <3>3, <4>5 DEF T
    <3> QED BY <1>4, <2>6, <3>4, <3>5
  <2> QED BY <2>5, <2>6
<1> QED BY <1>3, <1>4

-----------------------------------------------------------------------------
(* What a file does to the raw tables.                                     *)

\* What a change does to what is stored of a way w.
Kept(w, x, c) ==
  IF c.kind # "way" \/ c.action = "move" \/ c.id # w THEN x
  ELSE IF c.action = "remove" THEN [version |-> 0, tags |-> {}]
  ELSE IF x.version <= c.version THEN [version |-> c.version, tags |-> c.tags]
  ELSE x

StoreOne(t, c) ==
  IF c.kind # "way" \/ c.action = "move" THEN t
  ELSE IF c.action = "remove" THEN [t EXCEPT ![c.id] = [version |-> 0, tags |-> {}]]
  ELSE IF t[c.id].version <= c.version
    THEN [t EXCEPT ![c.id] = [version |-> c.version, tags |-> c.tags]]
  ELSE t

LEMMA StoreOneTurn ==
  ASSUME NEW t \in StoredWays, NEW c \in ChangeSet
  PROVE  /\ StoreOne(t, c) \in StoredWays
         /\ \A w \in WayIds : StoreOne(t, c)[w] = Kept(w, t[w], c)
<1>1. CASE c.kind # "way" \/ c.action = "move"
  BY <1>1 DEF StoreOne, Kept
<1>2. CASE c.kind = "way" /\ c.action # "move"
  <2>1. c.id \in WayIds /\ c.version \in Nat /\ c.tags \in AllTags /\ {} \in AllTags
    BY <1>2 DEF ChangeSet, AllTags
  <2>2. CASE c.action = "remove"
    <3>1. StoreOne(t, c) = [t EXCEPT ![c.id] = [version |-> 0, tags |-> {}]]
      BY <1>2, <2>2 DEF StoreOne
    <3> QED BY <1>2, <2>1, <2>2, <3>1 DEF Kept, StoredWays
  <2>3. CASE c.action # "remove" /\ t[c.id].version <= c.version
    <3>1. StoreOne(t, c) = [t EXCEPT ![c.id] = [version |-> c.version, tags |-> c.tags]]
      BY <1>2, <2>3 DEF StoreOne
    <3> QED BY <1>2, <2>1, <2>3, <3>1 DEF Kept, StoredWays
  <2>4. CASE c.action # "remove" /\ ~(t[c.id].version <= c.version)
    <3>1. StoreOne(t, c) = t
      BY <1>2, <2>4 DEF StoreOne
    <3> QED BY <1>2, <2>1, <2>4, <3>1 DEF Kept
  <2> QED BY <2>2, <2>3, <2>4
<1> QED BY <1>1, <1>2

\* The raw tables after each change of a file.
LEMMA StoreTurn ==
  ASSUME NEW tables \in StoredWays, NEW file \in Files
  PROVE  \E h \in [0 .. Len(file.changes) -> StoredWays] :
           /\ h[0] = tables
           /\ h[Len(file.changes)] = StoredAfter(tables, file)
           /\ \A i \in 1 .. Len(file.changes) : h[i] = StoreOne(h[i - 1], file.changes[i])
<1> DEFINE changes == file.changes
           N == Len(changes)
           X == StoredWays
           G == [p \in (1 .. N) \X X |-> StoreOne(p[2], changes[p[1]])]
           Def(f) == [i \in 0 .. N |-> IF i = 0 THEN tables ELSE StoreOne(f[i - 1], changes[i])]
           F == CHOOSE f : f = Def(f)
<1>1. N \in Nat /\ \A i \in 1 .. N : changes[i] \in ChangeSet
  BY DEF Files
<1>2. G \in [(1 .. N) \X X -> X]
  BY <1>1, StoreOneTurn
<1>3. \A i \in 1 .. N, t \in X : G[<<i, t>>] = StoreOne(t, changes[i])
  OBVIOUS
<1>4. tables \in X
  OBVIOUS
<1>5. F[N] = StoredAfter(tables, file)
  BY DEF StoredAfter, StoreOne
<1> HIDE DEF changes, N, G, X
<1>6. PICK h \in [0 .. N -> X] :
        h[0] = tables /\ \A i \in 1 .. N : h[i] = G[<<i, h[i - 1]>>]
  <2>1. HasRecursion(N, X, tables, G)
    BY <1>1, <1>2, <1>4, RecursiveFunction
  <2> QED BY <2>1 DEF HasRecursion
<1>7. ASSUME NEW i \in 1 .. N PROVE h[i] = StoreOne(h[i - 1], changes[i])
  <2>1. i - 1 \in 0 .. N
    BY <1>1
  <2> QED BY <1>3, <1>6, <2>1
<1>8. h = Def(h)
  <2> SUFFICES ASSUME NEW i \in 0 .. N
               PROVE  h[i] = IF i = 0 THEN tables ELSE StoreOne(h[i - 1], changes[i])
    OBVIOUS
  <2>1. CASE i = 0
    BY <1>6, <2>1
  <2>2. CASE i # 0
    <3>1. i \in 1 .. N
      BY <1>1, <2>2
    <3> QED BY <1>7, <2>2, <3>1
  <2> QED BY <2>1, <2>2
<1>9. F = Def(F)
  BY <1>8
<1> HIDE DEF F
<1>10. /\ F[0] = tables
       /\ \A i \in 1 .. N : F[i] = StoreOne(F[i - 1], changes[i])
  <2>1. 0 \in 0 .. N /\ \A i \in 1 .. N : i \in 0 .. N /\ i # 0
    BY <1>1
  <2> QED BY <1>9, <2>1
<1>11. F \in [0 .. N -> X]
  <2> DEFINE S == {i \in 0 .. N : F[i] \in X}
  <2>1. 0 \in S
    BY <1>1, <1>4, <1>10
  <2>2. ASSUME NEW i \in 0 .. N - 1, i \in S PROVE i + 1 \in S
    <3>1. i + 1 \in 1 .. N /\ (i + 1) - 1 = i /\ F[i] \in X
      BY <1>1, <2>2
    <3>2. F[i + 1] = StoreOne(F[i], changes[i + 1]) /\ changes[i + 1] \in ChangeSet
      BY <1>1, <1>10, <3>1
    <3> QED BY <3>1, <3>2, StoreOneTurn DEF X
  <2> HIDE DEF S
  <2>3. \A i \in 0 .. N : i \in S
    BY <1>1, <2>1, <2>2, InductiveUpTo
  <2>4. \A i \in 0 .. N : F[i] \in X
    BY <2>3 DEF S
  <2> QED BY <1>9, <2>4
<1> QED BY <1>5, <1>10, <1>11 DEF N, X, changes

\* What is stored of a way stays in a set that no change leads out of.
LEMMA StoredIn ==
  ASSUME NEW tables \in StoredWays, NEW file \in Files, NEW w \in WayIds, NEW U,
         tables[w] \in U, \A c \in ToSet(file.changes), x \in U : Kept(w, x, c) \in U
  PROVE  StoredAfter(tables, file) \in StoredWays /\ StoredAfter(tables, file)[w] \in U
<1>1. PICK h \in [0 .. Len(file.changes) -> StoredWays] :
        /\ h[0] = tables
        /\ h[Len(file.changes)] = StoredAfter(tables, file)
        /\ \A i \in 1 .. Len(file.changes) : h[i] = StoreOne(h[i - 1], file.changes[i])
  BY StoreTurn
<1>2. PICK N \in Nat : N = Len(file.changes) /\ DOMAIN file.changes = 1 .. N
  BY DEF Files
<1> DEFINE S == {i \in 0 .. N : h[i][w] \in U}
<1>3. 0 \in S
  BY <1>1, <1>2
<1>4. ASSUME NEW i \in 0 .. N - 1, i \in S PROVE i + 1 \in S
  <2>1. /\ i + 1 \in 1 .. N /\ (i + 1) - 1 = i /\ h[i] \in StoredWays
        /\ file.changes[i + 1] \in ToSet(file.changes)
    BY <1>2 DEF ToSet
  <2>2. file.changes[i + 1] \in ChangeSet
    BY <2>1, ChangesOf
  <2>3. h[i + 1] = StoreOne(h[i], file.changes[i + 1])
    BY <1>1, <1>2, <2>1
  <2>4. h[i + 1][w] = Kept(w, h[i][w], file.changes[i + 1])
    BY <2>1, <2>2, <2>3, StoreOneTurn
  <2>5. h[i][w] \in U
    BY <1>4
  <2>6. h[i + 1][w] \in U
    BY <2>1, <2>4, <2>5
  <2> QED BY <2>1, <2>6
<1> HIDE DEF S
<1>5. \A i \in 0 .. N : i \in S
  BY <1>3, <1>4, InductiveUpTo
<1>6. N \in S /\ h[N] \in StoredWays
  BY <1>2, <1>5
<1> QED BY <1>1, <1>2, <1>6 DEF S

-----------------------------------------------------------------------------
(* A round, file by file.                                                  *)

\* The next k files are there, and the state is well typed.
CanTake(k) ==
  /\ k \in Nat /\ position \in Nat /\ feed \in Seq(Files) /\ position + k <= Len(feed)
  /\ rows \in Tables /\ stored \in StoredWays

LEMMA RoundFiles ==
  ASSUME NEW k, CanTake(k), NEW i \in 1 .. k
  PROVE  position + i \in DOMAIN feed /\ feed[position + i] \in Files
<1>1. position + i \in 1 .. Len(feed)
  BY DEF CanTake
<1> QED BY <1>1 DEF CanTake

LEMMA ValidatedUpToTurn ==
  ASSUME NEW k, CanTake(k), NEW times \in 1 .. 2
  PROVE  \E h \in [0 .. k -> Tables] :
           /\ h[0] = rows
           /\ h[k] = ValidatedUpTo(k, times)
           /\ \A i \in 1 .. k : h[i] = Validated(h[i - 1], feed[position + i], stored, times)
<1> DEFINE X == Tables
           One(t, i) == Validated(t, feed[position + i], stored, times)
           G == [p \in (1 .. k) \X X |-> One(p[2], p[1])]
           Def(f) == [i \in 0 .. k |-> IF i = 0 THEN rows ELSE One(f[i - 1], i)]
           F == CHOOSE f : f = Def(f)
<1>1. k \in Nat
  BY DEF CanTake
<1>0. ASSUME NEW i \in 1 .. k, NEW t \in X PROVE One(t, i) \in X
  <2>1. feed[position + i] \in Files /\ stored \in StoredWays
    BY RoundFiles DEF CanTake
  <2> QED BY <2>1, RowBound
<1>4. rows \in X
  BY DEF CanTake
<1>5. F[k] = ValidatedUpTo(k, times)
  BY DEF ValidatedUpTo
<1> HIDE DEF One
<1>2. G \in [(1 .. k) \X X -> X]
  BY <1>0
<1>3. \A i \in 1 .. k, t \in X : G[<<i, t>>] = One(t, i)
  OBVIOUS
<1> HIDE DEF G, X
<1>6. PICK h \in [0 .. k -> X] :
        h[0] = rows /\ \A i \in 1 .. k : h[i] = G[<<i, h[i - 1]>>]
  <2>1. HasRecursion(k, X, rows, G)
    BY <1>1, <1>2, <1>4, RecursiveFunction
  <2> QED BY <2>1 DEF HasRecursion
<1>7. ASSUME NEW i \in 1 .. k PROVE h[i] = One(h[i - 1], i)
  <2>1. i - 1 \in 0 .. k
    BY <1>1
  <2> QED BY <1>3, <1>6, <2>1
<1>8. h = Def(h)
  <2> SUFFICES ASSUME NEW i \in 0 .. k
               PROVE  h[i] = IF i = 0 THEN rows ELSE One(h[i - 1], i)
    OBVIOUS
  <2>1. CASE i = 0
    BY <1>6, <2>1
  <2>2. CASE i # 0
    <3>1. i \in 1 .. k
      BY <1>1, <2>2
    <3> QED BY <1>7, <2>2, <3>1
  <2> QED BY <2>1, <2>2
<1>9. F = Def(F)
  BY <1>8
<1> HIDE DEF F
<1>10. /\ F[0] = rows
       /\ \A i \in 1 .. k : F[i] = One(F[i - 1], i)
  <2>1. 0 \in 0 .. k /\ \A i \in 1 .. k : i \in 0 .. k /\ i # 0
    BY <1>1
  <2> QED BY <1>9, <2>1
<1>11. F \in [0 .. k -> X]
  <2> DEFINE S == {i \in 0 .. k : F[i] \in X}
  <2>1. 0 \in S
    BY <1>1, <1>4, <1>10
  <2>2. ASSUME NEW i \in 0 .. k - 1, i \in S PROVE i + 1 \in S
    <3>1. i + 1 \in 1 .. k /\ (i + 1) - 1 = i /\ F[i] \in X
      BY <1>1, <2>2
    <3>2. F[i + 1] = One(F[i], i + 1)
      BY <1>10, <3>1
    <3> QED BY <1>0, <3>1, <3>2
  <2> HIDE DEF S
  <2>3. \A i \in 0 .. k : i \in S
    BY <1>1, <2>1, <2>2, InductiveUpTo
  <2>4. \A i \in 0 .. k : F[i] \in X
    BY <2>3 DEF S
  <2> QED BY <1>9, <2>4
<1> QED BY <1>5, <1>10, <1>11 DEF X, One

LEMMA StoredUpToTurn ==
  ASSUME NEW k, CanTake(k)
  PROVE  \E h \in [0 .. k -> StoredWays] :
           /\ h[0] = stored
           /\ h[k] = StoredUpTo(k)
           /\ \A i \in 1 .. k : h[i] = StoredAfter(h[i - 1], feed[position + i])
<1> DEFINE X == StoredWays
           One(t, i) == StoredAfter(t, feed[position + i])
           G == [p \in (1 .. k) \X X |-> One(p[2], p[1])]
           Def(f) == [i \in 0 .. k |-> IF i = 0 THEN stored ELSE One(f[i - 1], i)]
           F == CHOOSE f : f = Def(f)
<1>1. k \in Nat
  BY DEF CanTake
<1>0. ASSUME NEW i \in 1 .. k, NEW t \in X PROVE One(t, i) \in X
  <2>1. feed[position + i] \in Files
    BY RoundFiles
  <2>2. PICK h \in [0 .. Len(feed[position + i].changes) -> StoredWays] :
          h[Len(feed[position + i].changes)] = One(t, i)
    BY <2>1, StoreTurn
  <2>3. Len(feed[position + i].changes) \in 0 .. Len(feed[position + i].changes)
    BY <2>1 DEF Files
  <2> QED BY <2>2, <2>3
<1>4. stored \in X
  BY DEF CanTake
<1>5. F[k] = StoredUpTo(k)
  BY DEF StoredUpTo
<1> HIDE DEF One
<1>2. G \in [(1 .. k) \X X -> X]
  BY <1>0
<1>3. \A i \in 1 .. k, t \in X : G[<<i, t>>] = One(t, i)
  OBVIOUS
<1> HIDE DEF G, X
<1>6. PICK h \in [0 .. k -> X] :
        h[0] = stored /\ \A i \in 1 .. k : h[i] = G[<<i, h[i - 1]>>]
  <2>1. HasRecursion(k, X, stored, G)
    BY <1>1, <1>2, <1>4, RecursiveFunction
  <2> QED BY <2>1 DEF HasRecursion
<1>7. ASSUME NEW i \in 1 .. k PROVE h[i] = One(h[i - 1], i)
  <2>1. i - 1 \in 0 .. k
    BY <1>1
  <2> QED BY <1>3, <1>6, <2>1
<1>8. h = Def(h)
  <2> SUFFICES ASSUME NEW i \in 0 .. k
               PROVE  h[i] = IF i = 0 THEN stored ELSE One(h[i - 1], i)
    OBVIOUS
  <2>1. CASE i = 0
    BY <1>6, <2>1
  <2>2. CASE i # 0
    <3>1. i \in 1 .. k
      BY <1>1, <2>2
    <3> QED BY <1>7, <2>2, <3>1
  <2> QED BY <2>1, <2>2
<1>9. F = Def(F)
  BY <1>8
<1> HIDE DEF F
<1>10. /\ F[0] = stored
       /\ \A i \in 1 .. k : F[i] = One(F[i - 1], i)
  <2>1. 0 \in 0 .. k /\ \A i \in 1 .. k : i \in 0 .. k /\ i # 0
    BY <1>1
  <2> QED BY <1>9, <2>1
<1>11. F \in [0 .. k -> X]
  <2> DEFINE S == {i \in 0 .. k : F[i] \in X}
  <2>1. 0 \in S
    BY <1>1, <1>4, <1>10
  <2>2. ASSUME NEW i \in 0 .. k - 1, i \in S PROVE i + 1 \in S
    <3>1. i + 1 \in 1 .. k /\ (i + 1) - 1 = i /\ F[i] \in X
      BY <1>1, <2>2
    <3>2. F[i + 1] = One(F[i], i + 1)
      BY <1>10, <3>1
    <3> QED BY <1>0, <3>1, <3>2
  <2> HIDE DEF S
  <2>3. \A i \in 0 .. k : i \in S
    BY <1>1, <2>1, <2>2, InductiveUpTo
  <2>4. \A i \in 0 .. k : F[i] \in X
    BY <2>3 DEF S
  <2> QED BY <1>9, <2>4
<1> QED BY <1>5, <1>10, <1>11 DEF X, One

-----------------------------------------------------------------------------
(* The inductive invariant.                                                *)

TypeInv ==
  /\ world \in
       [ nodes : [NodeIds -> [version : Nat, there : BOOLEAN, tags : AllTags]],
         ways : [WayIds -> [version : Nat, there : BOOLEAN, tags : AllTags, square : BOOLEAN]] ]
  /\ open \in Seq(ChangeSet) /\ feed \in Seq(Files)
  /\ stored \in StoredWays /\ rows \in Tables
  /\ position \in 0 .. Len(feed)

\* The log: the files of the feed, and the one being made after them.
Places == 1 .. Len(feed) + 1

In(i) == IF i \in DOMAIN feed THEN ToSet(feed[i].changes) ELSE ToSet(open)

Of(kind, id, i) == {c \in In(i) : c.kind = kind /\ c.id = id}

Thing(kind, id) == IF kind = "node" THEN world.nodes[id] ELSE world.ways[id]

IsLatest(d) ==
  LET thing == Thing(d.kind, d.id)
  IN  d.version = thing.version /\ d.tags = thing.tags /\ (d.action = "remove" <=> ~thing.there)

\* No change is newer than its object, and none comes after the one that made the
\* object what it is.
FeedInv ==
  \A i \in Places : \A c \in In(i) :
    c.action # "move" =>
      /\ c.version <= Thing(c.kind, c.id).version
      /\ \E j \in Places : i <= j /\ \E d \in Of(c.kind, c.id, j) : d.action # "move" /\ IsLatest(d)

ThereInv ==
  /\ \A n \in NodeIds : world.nodes[n].there => world.nodes[n].version > 0
  /\ \A w \in WayIds : world.ways[w].there => world.ways[w].version > 0

Unedited(w) == \A i \in Places : \A c \in Of("way", w, i) : c.action = "move"

\* The raw tables have no way newer than it is, and a way that was never edited as it is;
\* one whose nodes were moved is there.
StoredInv ==
  \A w \in WayIds :
    /\ stored[w].version <= world.ways[w].version
    /\ Unedited(w) =>
         /\ stored[w].version = world.ways[w].version /\ stored[w].tags = world.ways[w].tags
         /\ (\E i \in Places : Of("way", w, i) # {}) => world.ways[w].there

Bounded(table) ==
  \A k \in RowKeys :
    /\ k.source = "building" /\ k.id \in WayIds => table[k] <= world.ways[k.id].version
    /\ k.source = "" /\ k.id \in NodeIds => table[k] <= world.nodes[k.id].version
    /\ k.source = "" /\ k.status \notin {"badvalue", "incomplete"} => table[k] = 0

AllWritten == \A i \in DOMAIN feed : feed[i].written

\* No change of the feed but of this kind has the identifier, and no file has two.
Single(kind, id) ==
  \A i \in DOMAIN feed : \A c \in ToSet(feed[i].changes) :
    c.id = id => c.kind = kind /\ Only(c, feed[i])

NotMixed(w) ==
  \A i, j \in DOMAIN feed : \A c \in Of("way", w, i) : \A d \in Of("way", w, j) :
    c.action = "move" => d.action = "move"

Touched(kind, id) == \E i \in Places : Of(kind, id, i) # {}

\* Every change of the object is behind the position.
Behind(kind, id) == \A i \in Places : Of(kind, id, i) # {} => i <= position

WayRows(w, table) ==
  LET way == world.ways[w]
      found == IF way.there THEN CheckWay(way.tags, "building", FALSE, TRUE) ELSE {}
  IN  \A k \in RowKeys :
        k.id = w /\ k.source = "building" =>
          IF found = {} THEN table[k] = 0
          ELSE IF k.status \in found THEN table[k] = way.version
          ELSE k.status \in {"badvalue", "badgeom"} => table[k] = 0

WayAsBootstrapped(w, table) ==
  LET way == world.ways[w]
  IN  \A k \in RowKeys :
        k.id = w /\ k.source = "building" =>
          table[k] = IF way.there /\ k.status \in CheckWay(way.tags, "building", TRUE, way.square)
                     THEN 1 ELSE 0

WayInv ==
  \A w \in WayIds :
    AllWritten /\ Single("way", w) /\ NotMixed(w) /\ Behind("way", w) =>
      IF Touched("way", w) THEN WayRows(w, rows) ELSE WayAsBootstrapped(w, rows)

NodeRow(node, status, row) ==
  LET found == {CheckNode(node.tags, type) : type \in TypesOf(node.tags)}
  IN  IF ~node.there \/ {} \in found THEN row = 0
      ELSE /\ status \in UNION found => row = node.version
           /\ found # {} /\ status \notin UNION found /\ status = "badvalue" => row = 0

NodeRows(n, table) ==
  \A k \in RowKeys :
    k.id = n /\ k.source = "" => NodeRow(world.nodes[n], k.status, table[k])

NodeInv ==
  \A n \in NodeIds :
    AllWritten /\ Single("node", n) /\ Behind("node", n) /\ Touched("node", n) =>
      NodeRows(n, rows)

IInv ==
  TypeInv /\ FeedInv /\ ThereInv /\ StoredInv /\ Bounded(rows) /\ WayInv /\ NodeInv

-----------------------------------------------------------------------------
(* The first state.                                                        *)

LEMMA InitInv == Init => IInv
<1> SUFFICES ASSUME Init PROVE IInv
  OBVIOUS
<1>1. PICK there \in BOOLEAN, square \in BOOLEAN, tags \in NodeTags \cap WayTags :
        LET v == IF there THEN 1 ELSE 0
            t == IF there THEN tags ELSE {}
        IN  world =
              [ nodes |-> [n \in NodeIds |-> [version |-> v, there |-> there, tags |-> t]],
                ways |-> [w \in WayIds |->
                  [version |-> v, there |-> there, tags |-> t, square |-> square]] ]
  BY DEF Init
<1>2. PICK v \in Nat, t \in AllTags :
        /\ there => v = 1
        /\ world =
             [ nodes |-> [n \in NodeIds |-> [version |-> v, there |-> there, tags |-> t]],
               ways |-> [w \in WayIds |->
                 [version |-> v, there |-> there, tags |-> t, square |-> square]] ]
  BY <1>1 DEF AllTags
<1>3. /\ open = <<>> /\ feed = <<>> /\ position = 0
      /\ stored = [w \in WayIds |->
           [version |-> world.ways[w].version, tags |-> world.ways[w].tags]]
      /\ rows = Bootstrapped(world)
  BY DEF Init
<1>4. rows \in Tables /\ \A k \in RowKeys : rows[k] \in {0, 1}
  BY <1>3 DEF Bootstrapped, Tables
<1>5. TypeInv
  <2>1. <<>> \in Seq(ChangeSet) /\ <<>> \in Seq(Files) /\ Len(<<>>) = 0
    OBVIOUS
  <2> QED BY <1>2, <1>3, <1>4, <2>1 DEF TypeInv, StoredWays
<1>6. Places = {1} /\ \A i : In(i) = {}
  BY <1>3 DEF Places, In, ToSet
<1>7. \A kind, id, i : Of(kind, id, i) = {}
  BY <1>6 DEF Of
<1>8. FeedInv
  BY <1>6 DEF FeedInv
<1>9. ThereInv
  BY <1>2 DEF ThereInv
<1>10. StoredInv
  BY <1>2, <1>3, <1>7 DEF StoredInv
<1>11. ASSUME NEW k \in RowKeys, k.source = "building"
       PROVE  rows[k] = IF /\ k.id \in WayIds /\ world.ways[k.id].there
                           /\ k.status \in CheckWay(world.ways[k.id].tags, "building", TRUE,
                                                    world.ways[k.id].square)
                        THEN 1 ELSE 0
  BY <1>3, <1>11 DEF Bootstrapped, Check
<1>12. ASSUME NEW k \in RowKeys, k.source = ""
       PROVE  rows[k] = IF /\ k.id \in NodeIds /\ world.nodes[k.id].there
                           /\ \E type \in ToSet(NodeTests) :
                                k.status \in CheckNode(world.nodes[k.id].tags, type)
                        THEN 1 ELSE 0
  BY <1>3, <1>12 DEF Bootstrapped, Check
<1>13. ASSUME NEW k \in RowKeys
       PROVE  /\ k.source = "building" /\ k.id \in WayIds => rows[k] <= world.ways[k.id].version
              /\ k.source = "" /\ k.id \in NodeIds => rows[k] <= world.nodes[k.id].version
              /\ k.source = "" /\ k.status \notin {"badvalue", "incomplete"} => rows[k] = 0
  <2>1. CASE k.source = "building" /\ k.id \in WayIds
    <3>1. world.ways[k.id].version = v /\ world.ways[k.id].there = there
      BY <1>2, <2>1
    <3>2. rows[k] = 0 \/ (rows[k] = 1 /\ there)
      BY <1>11, <2>1, <3>1
    <3> QED BY <1>2, <2>1, <3>1, <3>2
  <2>2. CASE k.source = ""
    <3>1. k.id \in NodeIds => world.nodes[k.id].version = v /\ world.nodes[k.id].there = there
      BY <1>2
    <3>2. k.status \notin {"badvalue", "incomplete"} => rows[k] = 0
      BY <1>12, <2>2, CheckNodeType
    <3>3. k.id \in NodeIds => rows[k] <= world.nodes[k.id].version
      <4>1. k.id \in NodeIds => rows[k] = 0 \/ (rows[k] = 1 /\ there)
        BY <1>12, <2>2, <3>1
      <4> QED BY <1>2, <3>1, <4>1
    <3> QED BY <2>2, <3>2, <3>3
  <2>3. CASE k.source = "building" /\ k.id \notin WayIds
    BY <2>3
  <2> QED BY <2>1, <2>2, <2>3 DEF RowKeys, Sources
<1>14. Bounded(rows)
  BY <1>13 DEF Bounded
<1>15. WayInv
  <2>1. \A w : ~Touched("way", w)
    BY <1>7 DEF Touched
  <2>2. \A w \in WayIds : WayAsBootstrapped(w, rows)
    BY <1>11 DEF WayAsBootstrapped
  <2> QED BY <2>1, <2>2 DEF WayInv
<1>N. NodeInv
  BY <1>7 DEF NodeInv, Touched
<1> QED BY <1>5, <1>8, <1>9, <1>10, <1>14, <1>15, <1>N DEF IInv

-----------------------------------------------------------------------------
(* Edits.                                                                  *)

LEMMA InType ==
  ASSUME TypeInv, NEW i \in Places
  PROVE  In(i) \subseteq ChangeSet
<1>1. CASE i \in DOMAIN feed
  <2>1. feed[i] \in Files
    BY <1>1 DEF TypeInv
  <2> QED BY <1>1, <2>1, ChangesOf DEF In
<1>2. CASE i \notin DOMAIN feed
  <2>1. open \in Seq(ChangeSet)
    BY DEF TypeInv
  <2>2. ToSet(open) \subseteq ChangeSet
    BY <2>1 DEF ToSet
  <2> QED BY <1>2, <2>2 DEF In
<1> QED BY <1>1, <1>2

LEMMA PlacesFacts ==
  ASSUME TypeInv
  PROVE  /\ Len(feed) \in Nat /\ DOMAIN feed = 1 .. Len(feed)
         /\ position \in Nat /\ position <= Len(feed)
         /\ Places \subseteq Nat /\ Len(feed) + 1 \in Places
         /\ \A i \in Places : i \in DOMAIN feed <=> i # Len(feed) + 1
         /\ \A i \in DOMAIN feed : i \in Places /\ feed[i] \in Files
BY DEF TypeInv, Places

\* An edit of one object: the change that says so is the last of the log.
Edited(c) ==
  /\ c \in ChangeSet
  /\ open' = Append(open, c)
  /\ UNCHANGED <<feed, stored, rows, position>>
  /\ world' \in
       [ nodes : [NodeIds -> [version : Nat, there : BOOLEAN, tags : AllTags]],
         ways : [WayIds -> [version : Nat, there : BOOLEAN, tags : AllTags, square : BOOLEAN]] ]
  /\ \A n \in NodeIds : (c.kind = "node" /\ c.id = n) \/ world'.nodes[n] = world.nodes[n]
  /\ \A w \in WayIds : (c.kind = "way" /\ c.id = w) \/ world'.ways[w] = world.ways[w]
  /\ LET now == IF c.kind = "node" THEN world'.nodes[c.id] ELSE world'.ways[c.id]
         thing == Thing(c.kind, c.id)
     IN  /\ now.there => now.version > 0
         /\ IF c.action = "move"
              THEN /\ thing.there /\ now.there /\ now.version = thing.version
                   /\ now.tags = thing.tags
            ELSE /\ c.version > thing.version /\ c.version = now.version
                 /\ c.tags = now.tags /\ (c.action = "remove" <=> ~now.there)

LEMMA EditedInv ==
  ASSUME IInv, NEW c, Edited(c)
  PROVE  IInv'
<1>1. TypeInv /\ FeedInv /\ ThereInv /\ StoredInv /\ Bounded(rows) /\ WayInv /\ NodeInv
  BY DEF IInv
<1>2. /\ c \in ChangeSet /\ open' = Append(open, c) /\ open \in Seq(ChangeSet)
      /\ feed' = feed /\ stored' = stored /\ rows' = rows /\ position' = position
  BY <1>1 DEF Edited, TypeInv
<1>0. PICK last : last = Len(feed) + 1
  OBVIOUS
<1>3. TypeInv'
  <2>1. open' \in Seq(ChangeSet)
    BY <1>2
  <2> QED BY <1>1, <1>2, <2>1 DEF TypeInv, Edited
<1>4. Places' = Places /\ \A i \in Places : In(i)' = IF i = last THEN In(i) \cup {c} ELSE In(i)
  <2>1. ToSet(open') = ToSet(open) \cup {c}
    BY <1>2, ToSetAppend
  <2>2. \A i \in Places : i \in DOMAIN feed <=> i # last
    BY <1>0, <1>1, PlacesFacts
  <2> QED BY <1>2, <2>1, <2>2 DEF Places, In
<1>5. last \in Places /\ Places \subseteq Nat /\ \A i \in Places : i <= last
  BY <1>0, <1>1, PlacesFacts DEF Places
<1>6. \A kind, id : ~(c.kind = kind /\ c.id = id) => \A i \in Places : Of(kind, id, i)' = Of(kind, id, i)
  BY <1>4 DEF Of
<1>7. c \in Of(c.kind, c.id, last)'
  BY <1>4, <1>5 DEF Of
<1>8. \A kind, id, i : i \in Places /\ Of(kind, id, i) # {} => Of(kind, id, i)' # {}
  BY <1>4 DEF Of
\* The object of another change is as it was; this one is not older.
<1>9. ASSUME NEW d \in ChangeSet
      PROVE  /\ ~(d.kind = c.kind /\ d.id = c.id) => Thing(d.kind, d.id)' = Thing(d.kind, d.id)
             /\ Thing(d.kind, d.id).version <= Thing(d.kind, d.id)'.version
             /\ Thing(d.kind, d.id).version \in Nat /\ Thing(d.kind, d.id)'.version \in Nat
  <2>1. CASE d.kind = "node"
    <3>1. d.id \in NodeIds
      BY <2>1 DEF ChangeSet
    <3>2. Thing(d.kind, d.id) = world.nodes[d.id] /\ Thing(d.kind, d.id)' = world'.nodes[d.id]
      BY <2>1 DEF Thing
    <3>3. world.nodes[d.id].version \in Nat /\ world'.nodes[d.id].version \in Nat
      BY <1>1, <1>3, <3>1 DEF TypeInv
    <3>4. CASE c.kind = "node" /\ c.id = d.id
      <4>1. c.version > world.nodes[d.id].version /\ c.version = world'.nodes[d.id].version
        BY <3>4 DEF Edited, Thing, ChangeSet
      <4> QED BY <2>1, <3>2, <3>3, <3>4, <4>1
    <3>5. CASE ~(c.kind = "node" /\ c.id = d.id)
      <4>1. world'.nodes[d.id] = world.nodes[d.id]
        BY <3>1, <3>5 DEF Edited
      <4> QED BY <2>1, <3>2, <3>3, <3>5, <4>1
    <3> QED BY <3>4, <3>5
  <2>2. CASE d.kind = "way"
    <3>1. d.id \in WayIds
      BY <2>2 DEF ChangeSet
    <3>2. Thing(d.kind, d.id) = world.ways[d.id] /\ Thing(d.kind, d.id)' = world'.ways[d.id]
      BY <2>2 DEF Thing
    <3>3. world.ways[d.id].version \in Nat /\ world'.ways[d.id].version \in Nat
      BY <1>1, <1>3, <3>1 DEF TypeInv
    <3>4. CASE c.kind = "way" /\ c.id = d.id
      <4>1. \/ c.version > world.ways[d.id].version /\ c.version = world'.ways[d.id].version
            \/ world'.ways[d.id].version = world.ways[d.id].version
        BY <3>4 DEF Edited, Thing
      <4> QED BY <2>2, <3>2, <3>3, <3>4, <4>1
    <3>5. CASE ~(c.kind = "way" /\ c.id = d.id)
      <4>1. world'.ways[d.id] = world.ways[d.id]
        BY <3>1, <3>5 DEF Edited
      <4> QED BY <2>2, <3>2, <3>3, <3>5, <4>1
    <3> QED BY <3>4, <3>5
  <2> QED BY <2>1, <2>2 DEF ChangeSet
<1>10. c.action # "move" => c.version = Thing(c.kind, c.id)'.version /\ IsLatest(c)'
  BY DEF Edited, IsLatest, Thing
<1>11. ASSUME c.action = "move"
       PROVE  /\ c.kind = "way" /\ c.id \in WayIds
              /\ world.ways[c.id].there /\ world'.ways[c.id].there
              /\ world'.ways[c.id].version = world.ways[c.id].version
              /\ world'.ways[c.id].tags = world.ways[c.id].tags
  <2>1. c.kind = "way" /\ c.id \in WayIds
    BY <1>2, <1>11 DEF ChangeSet
  <2> QED BY <1>11, <2>1 DEF Edited, Thing
<1>12. FeedInv'
  <2> SUFFICES ASSUME NEW i \in Places', NEW d \in In(i)', d.action # "move"
               PROVE  /\ d.version <= Thing(d.kind, d.id)'.version
                      /\ \E j \in Places' : i <= j /\ \E e \in Of(d.kind, d.id, j)' :
                           e.action # "move" /\ IsLatest(e)'
    BY DEF FeedInv
  <2>1. i \in Places /\ Places' = Places /\ i <= last /\ d \in ChangeSet
    <3>1. i \in Places /\ Places' = Places /\ i <= last
      BY <1>4, <1>5
    <3>2. d \in In(i) \cup {c}
      BY <1>4, <3>1
    <3> QED BY <1>1, <1>2, <3>1, <3>2, InType
  <2>2. CASE d = c
    <3>1. d.version <= Thing(d.kind, d.id)'.version
      BY <1>9, <1>10, <2>1, <2>2
    <3> QED BY <1>5, <1>7, <1>10, <2>1, <2>2, <3>1
  <2>3. CASE d # c
    <3>1. d \in In(i)
      BY <1>4, <2>1, <2>3
    <3>2. PICK j \in Places : /\ i <= j
                              /\ \E e \in Of(d.kind, d.id, j) : e.action # "move" /\ IsLatest(e)
      BY <1>1, <2>1, <3>1 DEF FeedInv
    <3>3. PICK e \in Of(d.kind, d.id, j) : e.action # "move" /\ IsLatest(e)
      BY <3>2
    <3>4. d.version <= Thing(d.kind, d.id).version /\ d.version \in Nat
      BY <1>1, <2>1, <3>1 DEF FeedInv, ChangeSet
    <3>5. d.version <= Thing(d.kind, d.id)'.version
      BY <1>9, <2>1, <3>4
    <3>6. CASE d.kind = c.kind /\ d.id = c.id /\ c.action # "move"
      BY <1>5, <1>7, <1>10, <2>1, <3>5, <3>6
    <3>7. CASE d.kind = c.kind /\ d.id = c.id /\ c.action = "move"
      <4>1. e.kind = "way" /\ e.id = c.id /\ e.kind = c.kind
        BY <1>11, <3>7 DEF Of
      <4>2. IsLatest(e)'
        BY <1>11, <3>3, <3>7, <4>1 DEF IsLatest, Thing
      <4>3. e \in Of(d.kind, d.id, j)'
        BY <1>4 DEF Of
      <4> QED BY <1>4, <3>2, <3>3, <3>5, <4>2, <4>3
    <3>8. CASE ~(d.kind = c.kind /\ d.id = c.id)
      <4>1. Of(d.kind, d.id, j)' = Of(d.kind, d.id, j)
        BY <1>6, <3>8
      <4>2. e.kind = d.kind /\ e.id = d.id
        BY DEF Of
      <4>3. IsLatest(e)'
        BY <1>9, <2>1, <3>3, <3>8, <4>2 DEF IsLatest
      <4> QED BY <1>4, <3>2, <3>3, <3>5, <4>1, <4>3
    <3> QED BY <3>6, <3>7, <3>8
  <2> QED BY <2>2, <2>3
<1>13. ThereInv'
  <2>1. ASSUME NEW n \in NodeIds, world'.nodes[n].there PROVE world'.nodes[n].version > 0
    BY <1>1, <2>1 DEF ThereInv, Edited
  <2>2. ASSUME NEW w \in WayIds, world'.ways[w].there PROVE world'.ways[w].version > 0
    <3>1. CASE c.kind = "way" /\ c.id = w
      BY <2>2, <3>1 DEF Edited
    <3>2. CASE ~(c.kind = "way" /\ c.id = w)
      BY <1>1, <2>2, <3>2 DEF ThereInv, Edited
    <3> QED BY <3>1, <3>2
  <2> QED BY <2>1, <2>2 DEF ThereInv
<1>14. ASSUME NEW w \in WayIds
       PROVE  /\ world.ways[w].version <= world'.ways[w].version
              /\ world.ways[w].version \in Nat /\ world'.ways[w].version \in Nat
  <2>1. world.ways[w].version \in Nat /\ world'.ways[w].version \in Nat
    BY <1>1, <1>3 DEF TypeInv
  <2>2. CASE c.kind = "way" /\ c.id = w
    <3>1. Thing(c.kind, c.id) = world.ways[w] /\ Thing(c.kind, c.id)' = world'.ways[w]
      BY <2>2 DEF Thing
    <3> QED BY <1>2, <1>9, <2>1, <3>1
  <2>3. CASE ~(c.kind = "way" /\ c.id = w)
    <3>1. world'.ways[w] = world.ways[w]
      BY <2>3 DEF Edited
    <3> QED BY <2>1, <3>1
  <2> QED BY <2>2, <2>3
<1>15. ASSUME NEW n \in NodeIds
       PROVE  /\ world.nodes[n].version <= world'.nodes[n].version
              /\ world.nodes[n].version \in Nat /\ world'.nodes[n].version \in Nat
  <2>1. world.nodes[n].version \in Nat /\ world'.nodes[n].version \in Nat
    BY <1>1, <1>3 DEF TypeInv
  <2>2. CASE c.kind = "node" /\ c.id = n
    <3>1. Thing(c.kind, c.id) = world.nodes[n] /\ Thing(c.kind, c.id)' = world'.nodes[n]
      BY <2>2 DEF Thing
    <3> QED BY <1>2, <1>9, <2>1, <3>1
  <2>3. CASE ~(c.kind = "node" /\ c.id = n)
    <3>1. world'.nodes[n] = world.nodes[n]
      BY <2>3 DEF Edited
    <3> QED BY <2>1, <3>1
  <2> QED BY <2>2, <2>3
<1>N. StoredInv'
  <2> SUFFICES ASSUME NEW w \in WayIds
               PROVE  /\ stored'[w].version <= world'.ways[w].version
                      /\ Unedited(w)' =>
                           /\ stored'[w].version = world'.ways[w].version
                           /\ stored'[w].tags = world'.ways[w].tags
                           /\ (\E i \in Places' : Of("way", w, i)' # {}) => world'.ways[w].there
    BY DEF StoredInv
  <2>1. stored'[w].version <= world'.ways[w].version
    <3>1. stored[w].version \in Nat /\ stored[w].version <= world.ways[w].version
      BY <1>1 DEF TypeInv, StoredWays, StoredInv
    <3> QED BY <1>2, <1>14, <3>1
  <2>2. ASSUME Unedited(w)'
        PROVE  /\ stored'[w].version = world'.ways[w].version
               /\ stored'[w].tags = world'.ways[w].tags
               /\ (\E i \in Places' : Of("way", w, i)' # {}) => world'.ways[w].there
    <3>1. Unedited(w)
      BY <1>4, <2>2 DEF Unedited, Of
    <3>2. CASE c.kind = "way" /\ c.id = w
      <4>1. c.action = "move"
        BY <1>4, <1>5, <1>7, <2>2, <3>2 DEF Unedited
      <4> QED BY <1>1, <1>2, <1>11, <3>1, <3>2, <4>1 DEF StoredInv
    <3>3. CASE ~(c.kind = "way" /\ c.id = w)
      <4>1. world'.ways[w] = world.ways[w]
        BY <3>3 DEF Edited
      <4>2. \A i \in Places : Of("way", w, i)' = Of("way", w, i)
        BY <1>6, <3>3
      <4> QED BY <1>1, <1>2, <1>4, <3>1, <4>1, <4>2 DEF StoredInv
    <3> QED BY <3>2, <3>3
  <2> QED BY <2>1, <2>2
<1>17. Bounded(rows)'
  <2> SUFFICES ASSUME NEW k \in RowKeys
               PROVE  /\ k.source = "building" /\ k.id \in WayIds =>
                           rows'[k] <= world'.ways[k.id].version
                      /\ k.source = "" /\ k.id \in NodeIds => rows'[k] <= world'.nodes[k.id].version
                      /\ k.source = "" /\ k.status \notin {"badvalue", "incomplete"} => rows'[k] = 0
    BY DEF Bounded
  <2>1. rows[k] \in Nat /\ rows' = rows
    BY <1>1, <1>2 DEF TypeInv, Tables
  <2>2. ASSUME k.source = "building", k.id \in WayIds PROVE rows'[k] <= world'.ways[k.id].version
    <3>1. rows[k] <= world.ways[k.id].version
      BY <1>1, <2>2 DEF Bounded
    <3>2. /\ world.ways[k.id].version <= world'.ways[k.id].version
          /\ world.ways[k.id].version \in Nat /\ world'.ways[k.id].version \in Nat
      BY <1>14, <2>2
    <3> QED BY <2>1, <3>1, <3>2
  <2>3. ASSUME k.source = "", k.id \in NodeIds PROVE rows'[k] <= world'.nodes[k.id].version
    <3>1. rows[k] <= world.nodes[k.id].version
      BY <1>1, <2>3 DEF Bounded
    <3>2. /\ world.nodes[k.id].version <= world'.nodes[k.id].version
          /\ world.nodes[k.id].version \in Nat /\ world'.nodes[k.id].version \in Nat
      BY <1>15, <2>3
    <3> QED BY <2>1, <3>1, <3>2
  <2>4. k.source = "" /\ k.status \notin {"badvalue", "incomplete"} => rows'[k] = 0
    BY <1>1, <2>1 DEF Bounded
  <2> QED BY <2>2, <2>3, <2>4
\* What the invariants of the rows are about, but for the object that was edited: the last
\* change of that one is not behind the position.
<1>18. ASSUME NEW kind, NEW id
       PROVE  /\ Behind(kind, id)' => ~(c.kind = kind /\ c.id = id)
              /\ ~(c.kind = kind /\ c.id = id) =>
                   /\ Behind(kind, id)' <=> Behind(kind, id)
                   /\ Touched(kind, id)' <=> Touched(kind, id)
  <2>1. ASSUME Behind(kind, id)', c.kind = kind, c.id = id PROVE FALSE
    <3>1. last <= position'
      BY <1>4, <1>5, <1>7, <2>1 DEF Behind
    <3>2. position' \in Nat /\ position' <= Len(feed) /\ Len(feed) \in Nat
      BY <1>1, <1>2, PlacesFacts
    <3> QED BY <1>0, <3>1, <3>2
  <2>2. ~(c.kind = kind /\ c.id = id) =>
          /\ Behind(kind, id)' <=> Behind(kind, id)
          /\ Touched(kind, id)' <=> Touched(kind, id)
    BY <1>2, <1>4, <1>6 DEF Behind, Touched
  <2> QED BY <2>1, <2>2
<1>19. /\ AllWritten' <=> AllWritten
       /\ \A kind, id : Single(kind, id)' <=> Single(kind, id)
       /\ \A w : NotMixed(w)' <=> NotMixed(w)
  <2>1. \A i \in DOMAIN feed : \A kind, id : Of(kind, id, i)' = Of(kind, id, i)
    BY <1>2 DEF Of, In
  <2> QED BY <1>2, <2>1 DEF AllWritten, Single, NotMixed, Only
<1>20. WayInv'
  <2> SUFFICES ASSUME NEW w \in WayIds, AllWritten', Single("way", w)', NotMixed(w)',
                      Behind("way", w)'
               PROVE  IF Touched("way", w)' THEN WayRows(w, rows)' ELSE WayAsBootstrapped(w, rows)'
    BY DEF WayInv
  <2>1. /\ ~(c.kind = "way" /\ c.id = w) /\ Behind("way", w)
        /\ Touched("way", w)' <=> Touched("way", w)
    BY <1>18
  <2>2. world'.ways[w] = world.ways[w]
    BY <2>1 DEF Edited
  <2>3. IF Touched("way", w) THEN WayRows(w, rows) ELSE WayAsBootstrapped(w, rows)
    BY <1>1, <1>19, <2>1 DEF WayInv
  <2> QED BY <1>2, <2>1, <2>2, <2>3 DEF WayRows, WayAsBootstrapped
<1>21. NodeInv'
  <2> SUFFICES ASSUME NEW n \in NodeIds, AllWritten', Single("node", n)', Behind("node", n)',
                      Touched("node", n)'
               PROVE  NodeRows(n, rows)'
    BY DEF NodeInv
  <2>1. /\ ~(c.kind = "node" /\ c.id = n) /\ Behind("node", n)
        /\ Touched("node", n)' <=> Touched("node", n)
    BY <1>18
  <2>2. world'.nodes[n] = world.nodes[n]
    BY <2>1 DEF Edited
  <2>3. NodeRows(n, rows)
    BY <1>1, <1>19, <2>1 DEF NodeInv
  <2> QED BY <1>2, <2>2, <2>3 DEF NodeRows
<1> QED BY <1>3, <1>12, <1>13, <1>N, <1>17, <1>20, <1>21 DEF IInv

\* The five ways to edit are edits in this sense.
LEMMA EditsAreEdits ==
  ASSUME IInv,
         \/ \E n \in NodeIds : DropNode(n) \/ \E tags \in NodeTags : EditNode(n, tags)
         \/ \E w \in WayIds : DropWay(w) \/ MoveWay(w) \/ \E tags \in WayTags : EditWay(w, tags)
  PROVE  \E c : Edited(c)
<1>1. TypeInv
  BY DEF IInv
<1>2. /\ world \in
           [ nodes : [NodeIds -> [version : Nat, there : BOOLEAN, tags : AllTags]],
             ways : [WayIds -> [version : Nat, there : BOOLEAN, tags : AllTags, square : BOOLEAN]] ]
      /\ {} \in AllTags /\ NodeTags \subseteq AllTags /\ WayTags \subseteq AllTags
  BY <1>1 DEF TypeInv, AllTags
<1>3. ASSUME NEW n \in NodeIds, NEW action \in {"modify", "remove"}, NEW tags \in AllTags,
             LET v == world.nodes[n].version + 1
             IN  /\ world' = [world EXCEPT !.nodes[n] =
                      [version |-> v, there |-> action = "modify", tags |-> tags]]
                 /\ open' = Append(open, Change("node", n, action, v, tags)),
             UNCHANGED <<feed, program>>
      PROVE  \E c : Edited(c)
  <2> DEFINE v == world.nodes[n].version + 1
             c == Change("node", n, action, v, tags)
             new == [version |-> v, there |-> action = "modify", tags |-> tags]
  <2>1. v \in Nat /\ v > 0 /\ v > world.nodes[n].version /\ new.there \in BOOLEAN
    BY <1>2
  <2>2. world' = [world EXCEPT !.nodes[n] = new] /\ open' = Append(open, c)
    BY <1>3
  <2>3. /\ c.kind = "node" /\ c.id = n /\ c.action = action /\ c.version = v /\ c.tags = tags
        /\ new.version = v /\ new.tags = tags /\ (new.there <=> action = "modify")
    BY DEF Change
  <2>4. c \in ChangeSet
    BY <2>1 DEF Change, ChangeSet
  <2>5. new \in [version : Nat, there : BOOLEAN, tags : AllTags]
    BY <2>1
  <2> HIDE DEF v, c, new
  <2>6. /\ world' \in
             [ nodes : [NodeIds -> [version : Nat, there : BOOLEAN, tags : AllTags]],
               ways : [WayIds -> [version : Nat, there : BOOLEAN, tags : AllTags, square : BOOLEAN]] ]
        /\ world'.nodes[n] = new /\ world'.ways = world.ways
        /\ \A m \in NodeIds : m # n => world'.nodes[m] = world.nodes[m]
    BY <1>2, <2>2, <2>5
  <2>7. Edited(c)
    BY <1>3, <2>1, <2>2, <2>3, <2>4, <2>6 DEF Edited, Thing, program
  <2> QED BY <2>7
<1>4. ASSUME NEW w \in WayIds, NEW c \in ChangeSet, c.kind = "way", c.id = w,
             NEW new \in [version : Nat, there : BOOLEAN, tags : AllTags, square : BOOLEAN],
             world' = [world EXCEPT !.ways[w] = new], open' = Append(open, c),
             UNCHANGED <<feed, program>>,
             new.there => new.version > 0,
             IF c.action = "move"
               THEN /\ world.ways[w].there /\ new.there /\ new.version = world.ways[w].version
                    /\ new.tags = world.ways[w].tags
             ELSE /\ c.version > world.ways[w].version /\ c.version = new.version
                  /\ c.tags = new.tags /\ (c.action = "remove" <=> ~new.there)
      PROVE  Edited(c)
  <2>1. /\ world' \in
             [ nodes : [NodeIds -> [version : Nat, there : BOOLEAN, tags : AllTags]],
               ways : [WayIds -> [version : Nat, there : BOOLEAN, tags : AllTags, square : BOOLEAN]] ]
        /\ world'.ways[w] = new /\ world'.nodes = world.nodes
        /\ \A x \in WayIds : x # w => world'.ways[x] = world.ways[x]
    BY <1>2, <1>4
  <2> QED BY <1>4, <2>1 DEF Edited, Thing, program
<1>5. ASSUME NEW n \in NodeIds, DropNode(n) PROVE \E c : Edited(c)
  <2> DEFINE v == world.nodes[n].version + 1
  <2>1. "modify" # "remove" /\ ("remove" = "modify") = FALSE
    OBVIOUS
  <2>2. /\ world' = [world EXCEPT !.nodes[n] =
              [version |-> v, there |-> "remove" = "modify", tags |-> {}]]
        /\ open' = Append(open, Change("node", n, "remove", v, {}))
        /\ UNCHANGED <<feed, program>>
    BY <1>5, <2>1 DEF DropNode
  <2> QED BY <1>2, <1>3, <2>2
<1>6. ASSUME NEW n \in NodeIds, NEW tags \in NodeTags, EditNode(n, tags) PROVE \E c : Edited(c)
  <2> DEFINE v == world.nodes[n].version + 1
  <2>1. ("modify" = "modify") = TRUE
    OBVIOUS
  <2>2. /\ world' = [world EXCEPT !.nodes[n] =
              [version |-> v, there |-> "modify" = "modify", tags |-> tags]]
        /\ open' = Append(open, Change("node", n, "modify", v, tags))
        /\ UNCHANGED <<feed, program>>
    BY <1>6, <2>1 DEF EditNode
  <2> QED BY <1>2, <1>3, <2>2
<1>7. ASSUME NEW w \in WayIds, DropWay(w) PROVE \E c : Edited(c)
  <2> DEFINE v == world.ways[w].version + 1
             c == Change("way", w, "remove", v, {})
             new == [world.ways[w] EXCEPT !.version = v, !.there = FALSE, !.tags = {}]
  <2>1. world.ways[w] \in [version : Nat, there : BOOLEAN, tags : AllTags, square : BOOLEAN]
    BY <1>2
  <2>2. v \in Nat /\ v > 0 /\ v > world.ways[w].version
    BY <2>1
  <2>3. world' = [world EXCEPT !.ways[w] = new] /\ open' = Append(open, c)
        /\ UNCHANGED <<feed, program>>
    BY <1>2, <1>7 DEF DropWay
  <2>4. /\ new \in [version : Nat, there : BOOLEAN, tags : AllTags, square : BOOLEAN]
        /\ new.version = v /\ new.there = FALSE /\ new.tags = {}
    BY <1>2, <2>1, <2>2
  <2>5. /\ c.kind = "way" /\ c.id = w /\ c.action = "remove" /\ c.version = v /\ c.tags = {}
        /\ c \in ChangeSet
    BY <1>2, <2>2 DEF Change, ChangeSet
  <2> HIDE DEF v, c, new
  <2> QED BY <1>4, <2>2, <2>3, <2>4, <2>5
<1>8. ASSUME NEW w \in WayIds, NEW tags \in WayTags, EditWay(w, tags) PROVE \E c : Edited(c)
  <2> DEFINE v == world.ways[w].version + 1
             c == Change("way", w, "modify", v, tags)
             new == [world.ways[w] EXCEPT !.version = v, !.there = TRUE, !.tags = tags]
  <2>1. world.ways[w] \in [version : Nat, there : BOOLEAN, tags : AllTags, square : BOOLEAN]
    BY <1>2
  <2>2. v \in Nat /\ v > 0 /\ v > world.ways[w].version /\ tags \in AllTags
    BY <1>2, <2>1
  <2>3. world' = [world EXCEPT !.ways[w] = new] /\ open' = Append(open, c)
        /\ UNCHANGED <<feed, program>>
    BY <1>2, <1>8 DEF EditWay
  <2>4. /\ new \in [version : Nat, there : BOOLEAN, tags : AllTags, square : BOOLEAN]
        /\ new.version = v /\ new.there = TRUE /\ new.tags = tags
    BY <2>1, <2>2
  <2>5. /\ c.kind = "way" /\ c.id = w /\ c.action = "modify" /\ c.version = v /\ c.tags = tags
        /\ c \in ChangeSet
    BY <2>2 DEF Change, ChangeSet
  <2> HIDE DEF v, c, new
  <2> QED BY <1>4, <2>2, <2>3, <2>4, <2>5
<1>9. ASSUME NEW w \in WayIds, MoveWay(w) PROVE \E c : Edited(c)
  <2>1. PICK square \in BOOLEAN : world' = [world EXCEPT !.ways[w].square = square]
    BY <1>9 DEF MoveWay
  <2> DEFINE c == Change("way", w, "move", 0, {})
             new == [world.ways[w] EXCEPT !.square = square]
  <2>2. world.ways[w] \in [version : Nat, there : BOOLEAN, tags : AllTags, square : BOOLEAN]
    BY <1>2
  <2>3. world' = [world EXCEPT !.ways[w] = new] /\ open' = Append(open, c)
        /\ world.ways[w].there /\ UNCHANGED <<feed, program>>
    BY <1>2, <1>9, <2>1 DEF MoveWay
  <2>4. /\ new \in [version : Nat, there : BOOLEAN, tags : AllTags, square : BOOLEAN]
        /\ new.version = world.ways[w].version /\ new.there = world.ways[w].there
        /\ new.tags = world.ways[w].tags
    BY <2>2
  <2>5. c.kind = "way" /\ c.id = w /\ c.action = "move" /\ c \in ChangeSet
    BY <1>2 DEF Change, ChangeSet
  <2>6. world.ways[w].version > 0
    BY <2>3 DEF IInv, ThereInv
  <2> HIDE DEF c, new
  <2> QED BY <1>4, <2>3, <2>4, <2>5, <2>6
<1> QED BY <1>5, <1>6, <1>7, <1>8, <1>9

-----------------------------------------------------------------------------
(* Files are published, and the program starts again.                      *)

\* A published file's changes keep their place in the log.
LEMMA PublishInv == ASSUME IInv, Publish PROVE IInv'
<1>1. TypeInv /\ FeedInv /\ ThereInv /\ StoredInv /\ Bounded(rows) /\ WayInv /\ NodeInv
  BY DEF IInv
<1>2. PICK written \in BOOLEAN : feed' = Append(feed, [changes |-> open, written |-> written])
  BY DEF Publish
<1>3. /\ open' = <<>> /\ world' = world /\ stored' = stored /\ rows' = rows /\ position' = position
  BY DEF Publish, program
<1>4. /\ feed \in Seq(Files) /\ open \in Seq(ChangeSet) /\ Len(feed) \in Nat
      /\ DOMAIN feed = 1 .. Len(feed)
  BY <1>1 DEF TypeInv
<1> DEFINE file == [changes |-> open, written |-> written]
<1>5. file \in Files
  BY <1>4 DEF Files
<1>6. PICK last : last = Len(feed) + 1
  OBVIOUS
<1>7. /\ feed' \in Seq(Files) /\ Len(feed') = last /\ DOMAIN feed' = 1 .. last
      /\ \A i \in DOMAIN feed : feed'[i] = feed[i] /\ i \in DOMAIN feed'
      /\ feed'[last] = file
  BY <1>2, <1>4, <1>5, <1>6, AppendProperties
<1>8. TypeInv'
  <2>1. <<>> \in Seq(ChangeSet)
    OBVIOUS
  <2>2. position \in 0 .. last
    BY <1>1, <1>4, <1>6 DEF TypeInv
  <2> QED BY <1>1, <1>3, <1>7, <2>1, <2>2 DEF TypeInv
<1>9. /\ Places \subseteq Places' /\ Places' = Places \cup {last + 1}
      /\ \A i \in Places : In(i)' = In(i)
      /\ In(last + 1)' = {}
  <2>1. /\ Places = 1 .. last /\ Places' = 1 .. last + 1 /\ last \in Nat
        /\ last + 1 \notin DOMAIN feed' /\ last \notin DOMAIN feed
    BY <1>4, <1>6, <1>7 DEF Places
  <2>2. In(last + 1)' = {}
    BY <1>3, <2>1 DEF In, ToSet
  <2>3. ASSUME NEW i \in Places PROVE In(i)' = In(i)
    <3>1. CASE i = last
      BY <1>7, <2>1, <3>1 DEF In
    <3>2. CASE i # last
      <4>1. i \in DOMAIN feed
        BY <1>4, <1>6, <2>1, <3>2
      <4> QED BY <1>7, <4>1 DEF In
    <3> QED BY <3>1, <3>2
  <2> QED BY <2>1, <2>2, <2>3
<1>10. /\ \A kind, id : \A i \in Places : Of(kind, id, i)' = Of(kind, id, i)
       /\ \A kind, id : Of(kind, id, last + 1)' = {}
  BY <1>9 DEF Of
<1>11. \A kind, id : Thing(kind, id)' = Thing(kind, id)
  BY <1>3 DEF Thing
<1>12. FeedInv'
  <2> SUFFICES ASSUME NEW i \in Places', NEW d \in In(i)', d.action # "move"
               PROVE  /\ d.version <= Thing(d.kind, d.id)'.version
                      /\ \E j \in Places' : i <= j /\ \E e \in Of(d.kind, d.id, j)' :
                           e.action # "move" /\ IsLatest(e)'
    BY DEF FeedInv
  <2>1. i \in Places /\ d \in In(i)
    BY <1>9
  <2>2. /\ d.version <= Thing(d.kind, d.id).version
        /\ \E j \in Places : i <= j /\ \E e \in Of(d.kind, d.id, j) :
             e.action # "move" /\ IsLatest(e)
    BY <1>1, <2>1 DEF FeedInv
  <2>3. \A e : IsLatest(e)' <=> IsLatest(e)
    BY <1>11 DEF IsLatest
  <2> QED BY <1>9, <1>10, <1>11, <2>2, <2>3
<1>13. ThereInv'
  BY <1>1, <1>3 DEF ThereInv
<1>14. \A kind, id : /\ Touched(kind, id)' <=> Touched(kind, id)
                     /\ Behind(kind, id)' => Behind(kind, id)
  BY <1>3, <1>9, <1>10 DEF Touched, Behind
<1>15. StoredInv'
  <2>1. \A w : Unedited(w)' => Unedited(w)
    BY <1>9, <1>10 DEF Unedited
  <2>2. \A w : (\E i \in Places' : Of("way", w, i)' # {}) => \E i \in Places : Of("way", w, i) # {}
    BY <1>9, <1>10
  <2> QED BY <1>1, <1>3, <2>1, <2>2 DEF StoredInv
<1>N. Bounded(rows)'
  BY <1>1, <1>3 DEF Bounded
<1>17. /\ AllWritten' => AllWritten
       /\ \A kind, id : Single(kind, id)' => Single(kind, id)
       /\ \A w : NotMixed(w)' => NotMixed(w)
  <2>1. \A i \in DOMAIN feed : i \in Places
    BY <1>1, PlacesFacts
  <2> QED BY <1>7, <1>10, <2>1 DEF AllWritten, Single, NotMixed, Only
<1>18. WayInv'
  BY <1>1, <1>3, <1>14, <1>17 DEF WayInv, WayRows, WayAsBootstrapped
<1>19. NodeInv'
  <2>1. \A n : NodeRows(n, rows)' <=> NodeRows(n, rows)
    BY <1>3 DEF NodeRows
  <2> QED BY <1>1, <1>14, <1>17, <2>1 DEF NodeInv
<1> QED BY <1>8, <1>12, <1>13, <1>15, <1>N, <1>18, <1>19 DEF IInv

\* The position goes back, or a worker hangs: nothing else changes.
LEMMA BackInv ==
  ASSUME IInv, UNCHANGED <<world, open, feed, stored, rows>>,
         position' \in 0 .. position
  PROVE  IInv'
<1>1. TypeInv /\ FeedInv /\ ThereInv /\ StoredInv /\ Bounded(rows) /\ WayInv /\ NodeInv
  BY DEF IInv
<1>2. position' \in Nat /\ position' <= position /\ position \in Nat /\ Places \subseteq Nat
  BY <1>1, PlacesFacts
<1>3. TypeInv'
  BY <1>1, <1>2 DEF TypeInv
<1>4. /\ Places' = Places /\ \A i : In(i)' = In(i)
      /\ \A kind, id, i : Of(kind, id, i)' = Of(kind, id, i)
      /\ \A kind, id : Thing(kind, id)' = Thing(kind, id)
  BY DEF Places, In, Of, Thing
<1>5. FeedInv'
  BY <1>1, <1>4 DEF FeedInv, IsLatest
<1>6. ThereInv' /\ Bounded(rows)'
  BY <1>1 DEF ThereInv, Bounded
<1>7. StoredInv'
  BY <1>1, <1>4 DEF StoredInv, Unedited
<1>8. \A kind, id : Behind(kind, id)' => Behind(kind, id)
  <2> SUFFICES ASSUME NEW kind, NEW id, Behind(kind, id)', NEW i \in Places,
                      Of(kind, id, i) # {}
               PROVE  i <= position
    BY DEF Behind
  <2>1. i <= position' /\ i \in Nat
    BY <1>2, <1>4 DEF Behind
  <2> QED BY <1>2, <2>1
<1>9. \A kind, id : Touched(kind, id)' <=> Touched(kind, id)
  BY <1>4 DEF Touched
<1>10. /\ AllWritten' <=> AllWritten
       /\ \A kind, id : Single(kind, id)' <=> Single(kind, id)
       /\ \A w : NotMixed(w)' <=> NotMixed(w)
  BY <1>4 DEF AllWritten, Single, NotMixed, Only
<1>11. WayInv'
  BY <1>1, <1>8, <1>9, <1>10 DEF WayInv, WayRows, WayAsBootstrapped
<1>12. NodeInv'
  <2>1. \A n : NodeRows(n, rows)' <=> NodeRows(n, rows)
    BY DEF NodeRows
  <2> QED BY <1>1, <1>8, <1>9, <1>10, <2>1 DEF NodeInv
<1> QED BY <1>3, <1>5, <1>6, <1>7, <1>11, <1>12 DEF IInv

-----------------------------------------------------------------------------
(* A round.                                                                *)

\* A change of the feed that edits is no newer than its object.
LEMMA FeedBound ==
  ASSUME IInv, NEW i \in DOMAIN feed, NEW c \in ToSet(feed[i].changes), c.action # "move"
  PROVE  c \in ChangeSet /\ c.version <= Thing(c.kind, c.id).version
<1>1. TypeInv /\ FeedInv
  BY DEF IInv
<1>2. i \in Places /\ c \in In(i)
  BY <1>1, PlacesFacts DEF In
<1> QED BY <1>1, <1>2, InType DEF FeedInv

\* A file keeps the rows no newer than their objects.
LEMMA BoundedAfter ==
  ASSUME IInv, NEW i \in DOMAIN feed, NEW table \in Tables, Bounded(table), NEW times \in 1 .. 2
  PROVE  Bounded(Validated(table, feed[i], stored, times))
<1> DEFINE file == feed[i]
           after == Validated(table, file, stored, times)
<1>1. TypeInv /\ FeedInv /\ StoredInv
  BY DEF IInv
<1>2. file \in Files /\ stored \in StoredWays
  BY <1>1 DEF TypeInv
<1>3. /\ after \in Tables
      /\ \A k \in RowKeys :
           \/ after[k] \in {0, table[k]}
           \/ \E c \in FileChecks(file, stored) :
                /\ c.id = k.id /\ c.source = k.source /\ k.status \in c.status
                /\ after[k] = c.version
  BY <1>2, RowBound
<1>4. \A c \in FileChecks(file, stored) :
        \/ \E d \in DirectWays(file) \cup MovedWays(file, stored) : c = CheckOfWay(d, stored)
        \/ \E d \in NodesOf(file) : \E type \in TypesOf(d.tags) : c = NodeCheck(d, type)
  BY <1>2, FileChecksType
<1> HIDE DEF after
<1>5. ASSUME NEW d \in DirectWays(file) \cup MovedWays(file, stored)
      PROVE  /\ CheckOfWay(d, stored).id = d.id /\ d.id \in WayIds
             /\ CheckOfWay(d, stored).source = "building"
             /\ CheckOfWay(d, stored).version <= world.ways[d.id].version
  <2>1. d \in ToSet(file.changes) /\ d.kind = "way"
    BY DEF DirectWays, MovedWays, WaysOf
  <2>2. d \in ChangeSet
    BY <1>2, <2>1, ChangesOf
  <2>3. d.id \in WayIds
    BY <2>1, <2>2 DEF ChangeSet
  <2>4. /\ CheckOfWay(d, stored).id = d.id /\ CheckOfWay(d, stored).source = "building"
        /\ CheckOfWay(d, stored).version =
             IF d.action = "move" THEN stored[d.id].version ELSE d.version
    BY DEF CheckOfWay, Check
  <2>5. CASE d.action = "move"
    BY <1>1, <2>3, <2>4, <2>5 DEF StoredInv
  <2>6. CASE d.action # "move"
    <3>1. d.version <= Thing(d.kind, d.id).version
      BY <2>1, <2>6, FeedBound
    <3> QED BY <2>1, <2>3, <2>4, <2>6, <3>1 DEF Thing
  <2> QED BY <2>5, <2>6
<1>6. ASSUME NEW d \in NodesOf(file), NEW type
      PROVE  /\ NodeCheck(d, type).id = d.id /\ NodeCheck(d, type).source = ""
             /\ NodeCheck(d, type).version <= world.nodes[d.id].version
             /\ NodeCheck(d, type).status \subseteq {"badvalue", "incomplete"}
  <2>1. d \in ToSet(file.changes) /\ d.kind = "node"
    BY DEF NodesOf
  <2>2. d \in ChangeSet
    BY <1>2, <2>1, ChangesOf
  <2>3. d.action # "move" /\ d.id \in NodeIds
    BY <2>1, <2>2 DEF ChangeSet
  <2>4. d.version <= Thing(d.kind, d.id).version
    BY <2>1, <2>3, FeedBound
  <2>5. d.version <= world.nodes[d.id].version
    BY <2>1, <2>4 DEF Thing
  <2>6. CheckNode(d.tags, type) \in SUBSET {"badvalue", "incomplete"}
    BY CheckNodeType
  <2>7. /\ NodeCheck(d, type).id = d.id /\ NodeCheck(d, type).source = ""
        /\ NodeCheck(d, type).version = d.version
        /\ NodeCheck(d, type).status = CheckNode(d.tags, type)
    BY NodeCheckFields
  <2> QED BY <2>5, <2>6, <2>7
<1> SUFFICES ASSUME NEW k \in RowKeys
             PROVE  /\ k.source = "building" /\ k.id \in WayIds => after[k] <= world.ways[k.id].version
                    /\ k.source = "" /\ k.id \in NodeIds => after[k] <= world.nodes[k.id].version
                    /\ k.source = "" /\ k.status \notin {"badvalue", "incomplete"} => after[k] = 0
  BY DEF Bounded, after
<1>7. /\ k.id \in WayIds => world.ways[k.id].version \in Nat
      /\ k.id \in NodeIds => world.nodes[k.id].version \in Nat
  BY <1>1 DEF TypeInv
<1>8. CASE after[k] \in {0, table[k]}
  <2>1. /\ k.source = "building" /\ k.id \in WayIds => table[k] <= world.ways[k.id].version
        /\ k.source = "" /\ k.id \in NodeIds => table[k] <= world.nodes[k.id].version
        /\ k.source = "" /\ k.status \notin {"badvalue", "incomplete"} => table[k] = 0
    BY DEF Bounded
  <2>2. CASE after[k] = 0
    <3>1. k.id \in WayIds => 0 <= world.ways[k.id].version
      BY <1>7
    <3>2. k.id \in NodeIds => 0 <= world.nodes[k.id].version
      BY <1>7
    <3> QED BY <2>2, <3>1, <3>2
  <2>3. CASE after[k] = table[k]
    BY <2>1, <2>3
  <2> QED BY <1>8, <2>2, <2>3
<1>9. CASE \E c \in FileChecks(file, stored) :
             /\ c.id = k.id /\ c.source = k.source /\ k.status \in c.status
             /\ after[k] = c.version
  <2>1. PICK c \in FileChecks(file, stored) :
          /\ c.id = k.id /\ c.source = k.source /\ k.status \in c.status
          /\ after[k] = c.version
    BY <1>9
  <2>2. CASE \E d \in DirectWays(file) \cup MovedWays(file, stored) : c = CheckOfWay(d, stored)
    <3>1. PICK d \in DirectWays(file) \cup MovedWays(file, stored) : c = CheckOfWay(d, stored)
      BY <2>2
    <3>2. k.source = "building" /\ d.id = k.id /\ after[k] <= world.ways[k.id].version
      BY <1>5, <2>1, <3>1
    <3> QED BY <3>2
  <2>3. CASE \E d \in NodesOf(file) : \E type \in TypesOf(d.tags) : c = NodeCheck(d, type)
    <3>1. PICK d \in NodesOf(file) : \E type \in TypesOf(d.tags) : c = NodeCheck(d, type)
      BY <2>3
    <3>2. PICK type \in TypesOf(d.tags) : c = NodeCheck(d, type)
      BY <3>1
    <3>3. /\ c.id = d.id /\ c.source = "" /\ c.version <= world.nodes[d.id].version
          /\ c.status \subseteq {"badvalue", "incomplete"}
      BY <1>6, <3>2
    <3>4. /\ k.source = "" /\ d.id = k.id /\ after[k] <= world.nodes[k.id].version
          /\ k.status \in {"badvalue", "incomplete"}
      BY <2>1, <3>3
    <3> QED BY <3>4
  <2> QED BY <1>4, <2>2, <2>3
<1> QED BY <1>3, <1>8, <1>9

\* What the raw tables have of a way after the files of a round.
LEMMA StoredUpToIn ==
  ASSUME NEW k, CanTake(k), NEW w \in WayIds, NEW U, stored[w] \in U,
         \A i \in 1 .. k : \A c \in ToSet(feed[position + i].changes) : \A x \in U :
           Kept(w, x, c) \in U
  PROVE  StoredUpTo(k) \in StoredWays /\ StoredUpTo(k)[w] \in U
<1>1. PICK h \in [0 .. k -> StoredWays] :
        /\ h[0] = stored
        /\ h[k] = StoredUpTo(k)
        /\ \A i \in 1 .. k : h[i] = StoredAfter(h[i - 1], feed[position + i])
  BY StoredUpToTurn
<1>2. k \in Nat
  BY DEF CanTake
<1> DEFINE S == {i \in 0 .. k : h[i][w] \in U}
<1>3. 0 \in S
  BY <1>1, <1>2
<1>4. ASSUME NEW i \in 0 .. k - 1, i \in S PROVE i + 1 \in S
  <2>1. i + 1 \in 1 .. k /\ (i + 1) - 1 = i /\ h[i] \in StoredWays /\ h[i][w] \in U
    BY <1>2, <1>4
  <2>2. feed[position + (i + 1)] \in Files
    BY <2>1, RoundFiles
  <2>3. StoredAfter(h[i], feed[position + (i + 1)])[w] \in U
    BY <2>1, <2>2, StoredIn
  <2>4. h[i + 1] = StoredAfter(h[i], feed[position + (i + 1)])
    BY <1>1, <2>1
  <2> QED BY <2>1, <2>3, <2>4
<1> HIDE DEF S
<1>5. \A i \in 0 .. k : i \in S
  BY <1>2, <1>3, <1>4, InductiveUpTo
<1>6. k \in 0 .. k
  BY <1>2
<1> QED BY <1>1, <1>5, <1>6 DEF S

LEMMA StoredAfterRound ==
  ASSUME IInv, NEW k, CanTake(k), UNCHANGED <<world, open, feed>>, stored' = StoredUpTo(k)
  PROVE  stored' \in StoredWays /\ StoredInv'
<1>1. TypeInv /\ FeedInv /\ StoredInv
  BY DEF IInv
<1>2. stored' \in StoredWays
  <2>1. PICK h \in [0 .. k -> StoredWays] : h[k] = StoredUpTo(k)
    BY StoredUpToTurn
  <2>2. k \in 0 .. k
    BY DEF CanTake
  <2> QED BY <2>1, <2>2
<1>3. /\ Places' = Places /\ \A i : In(i)' = In(i)
      /\ \A kind, id, i : Of(kind, id, i)' = Of(kind, id, i)
  BY DEF Places, In, Of
<1>4. ASSUME NEW w \in WayIds
      PROVE  /\ stored'[w].version <= world'.ways[w].version
             /\ Unedited(w)' =>
                  /\ stored'[w].version = world'.ways[w].version
                  /\ stored'[w].tags = world'.ways[w].tags
                  /\ (\E i \in Places' : Of("way", w, i)' # {}) => world'.ways[w].there
  <2>1. world.ways[w].version \in Nat /\ stored[w] \in [version : Nat, tags : AllTags]
    BY <1>1 DEF TypeInv, StoredWays
  <2>2. stored'[w].version <= world'.ways[w].version
    <3> DEFINE U == {x \in [version : Nat, tags : AllTags] : x.version <= world.ways[w].version}
    <3>1. stored[w] \in U
      BY <1>1, <2>1 DEF StoredInv
    <3>2. ASSUME NEW i \in 1 .. k, NEW c \in ToSet(feed[position + i].changes), NEW x \in U
          PROVE  Kept(w, x, c) \in U
      <4>1. position + i \in DOMAIN feed /\ feed[position + i] \in Files
        BY RoundFiles
      <4>2. c \in ChangeSet
        BY <4>1, ChangesOf
      <4>3. CASE c.kind = "way" /\ c.action # "move" /\ c.id = w
        <5>1. c.version <= world.ways[w].version
          BY <4>1, <4>3, FeedBound DEF Thing
        <5>2. c.version \in Nat /\ c.tags \in AllTags /\ {} \in AllTags
          BY <4>2 DEF ChangeSet, AllTags
        <5>3. /\ [version |-> c.version, tags |-> c.tags] \in U
              /\ [version |-> 0, tags |-> {}] \in U
          BY <2>1, <5>1, <5>2
        <5> QED BY <5>3 DEF Kept
      <4>4. CASE ~(c.kind = "way" /\ c.action # "move" /\ c.id = w)
        BY <4>4 DEF Kept
      <4> QED BY <4>3, <4>4
    <3> HIDE DEF U
    <3>3. StoredUpTo(k)[w] \in U
      BY <3>1, <3>2, StoredUpToIn
    <3> QED BY <3>3 DEF U
  <2>3. ASSUME Unedited(w)'
        PROVE  /\ stored'[w].version = world'.ways[w].version
               /\ stored'[w].tags = world'.ways[w].tags
               /\ (\E i \in Places' : Of("way", w, i)' # {}) => world'.ways[w].there
    <3>1. Unedited(w)
      BY <1>3, <2>3 DEF Unedited
    <3> DEFINE U == {stored[w]}
    <3>2. ASSUME NEW i \in 1 .. k, NEW c \in ToSet(feed[position + i].changes), NEW x \in U
          PROVE  Kept(w, x, c) \in U
      <4>1. position + i \in DOMAIN feed /\ position + i \in Places
        BY <1>1, RoundFiles, PlacesFacts
      <4>2. c \in In(position + i)
        BY <4>1 DEF In
      <4>3. ~(c.kind = "way" /\ c.action # "move" /\ c.id = w)
        BY <3>1, <4>1, <4>2 DEF Unedited, Of
      <4> QED BY <4>3 DEF Kept
    <3>3. stored[w] \in U
      OBVIOUS
    <3> HIDE DEF U
    <3>4. StoredUpTo(k)[w] \in U
      BY <3>2, <3>3, StoredUpToIn
    <3>5. stored'[w] = stored[w]
      BY <3>4 DEF U
    <3> QED BY <1>1, <1>3, <3>1, <3>5 DEF StoredInv
  <2> QED BY <2>2, <2>3
<1>5. StoredInv'
  BY <1>4 DEF StoredInv
<1> QED BY <1>2, <1>5

\* The table after each file of a round.
Rounds(h, k, times) ==
  /\ h \in [0 .. k -> Tables]
  /\ h[0] = rows /\ h[k] = ValidatedUpTo(k, times)
  /\ \A i \in 1 .. k : h[i] = Validated(h[i - 1], feed[position + i], stored, times)

LEMMA RoundsBounded ==
  ASSUME IInv, NEW k, CanTake(k), NEW times \in 1 .. 2, NEW h, Rounds(h, k, times)
  PROVE  \A i \in 0 .. k : h[i] \in Tables /\ Bounded(h[i])
<1>1. k \in Nat /\ Bounded(rows)
  BY DEF CanTake, IInv
<1> DEFINE S == {i \in 0 .. k : Bounded(h[i])}
<1>2. 0 \in S
  BY <1>1 DEF Rounds
<1>3. ASSUME NEW i \in 0 .. k - 1, i \in S PROVE i + 1 \in S
  <2>1. i + 1 \in 1 .. k /\ i + 1 \in 0 .. k /\ (i + 1) - 1 = i /\ i \in 0 .. k
    BY <1>1
  <2>2. h[i] \in Tables /\ Bounded(h[i])
    BY <1>3, <2>1 DEF Rounds
  <2>3. h[i + 1] = Validated(h[i], feed[position + (i + 1)], stored, times)
    BY <2>1 DEF Rounds
  <2>4. position + (i + 1) \in DOMAIN feed
    BY <2>1, RoundFiles
  <2>5. Bounded(Validated(h[i], feed[position + (i + 1)], stored, times))
    BY <2>2, <2>4, BoundedAfter
  <2> QED BY <2>1, <2>3, <2>5
<1> HIDE DEF S
<1>4. \A i \in 0 .. k : i \in S
  BY <1>1, <1>2, <1>3, InductiveUpTo
<1> QED BY <1>4 DEF S, Rounds

\* The files of a round that do not name an identifier keep its rows.
LEMMA RoundsKeep ==
  ASSUME IInv, AllWritten, NEW k, CanTake(k), NEW times \in 1 .. 2, NEW h, Rounds(h, k, times),
         NEW m \in 0 .. k, NEW x \in RowKeys,
         \A i \in 1 .. k : i > m => \A c \in ToSet(feed[position + i].changes) : c.id # x.id
  PROVE  h[k][x] = h[m][x]
<1>1. k \in Nat /\ stored \in StoredWays
  BY DEF CanTake
<1> DEFINE S == {i \in 0 .. k : i >= m => h[i][x] = h[m][x]}
<1>2. 0 \in S
  BY <1>1
<1>3. ASSUME NEW i \in 0 .. k - 1, i \in S PROVE i + 1 \in S
  <2>1. i + 1 \in 1 .. k /\ i + 1 \in 0 .. k /\ (i + 1) - 1 = i /\ i \in 0 .. k
    BY <1>1
  <2>2. CASE i + 1 = m
    BY <2>1, <2>2
  <2>3. CASE i >= m
    <3>1. h[i] \in Tables /\ h[i + 1] = Validated(h[i], feed[position + (i + 1)], stored, times)
      BY <2>1 DEF Rounds
    <3>2. feed[position + (i + 1)] \in Files /\ feed[position + (i + 1)].written
      BY <2>1, RoundFiles DEF AllWritten
    <3>3. \A c \in ToSet(feed[position + (i + 1)].changes) : c.id # x.id
      BY <2>1, <2>3
    <3>4. Validated(h[i], feed[position + (i + 1)], stored, times)[x] = h[i][x]
      BY <1>1, <3>1, <3>2, <3>3, RowKept
    <3> QED BY <1>3, <2>1, <2>3, <3>1, <3>4
  <2>4. CASE i + 1 < m
    BY <2>1, <2>4
  <2> QED BY <2>1, <2>2, <2>3, <2>4
<1> HIDE DEF S
<1>4. \A i \in 0 .. k : i \in S
  BY <1>1, <1>2, <1>3, InductiveUpTo
<1> QED BY <1>1, <1>4 DEF S

\* The rows of an object after the round that takes its last change are those of the
\* file of that change; they are as they were when the round has none.
LEMMA LastChange ==
  ASSUME IInv, AllWritten, NEW k, CanTake(k), NEW times \in 1 .. 2, NEW kind, NEW id,
         Single(kind, id), \A i \in Places : Of(kind, id, i) # {} => i <= position + k
  PROVE  \/ /\ Behind(kind, id)
            /\ \A x \in RowKeys : x.id = id => ValidatedUpTo(k, times)[x] = rows[x]
         \/ \E i \in DOMAIN feed : \E c \in Of(kind, id, i) : \E table \in Tables :
              /\ Bounded(table) /\ Only(c, feed[i]) /\ feed[i] \in Files /\ feed[i].written
              /\ \A j \in Places : Of(kind, id, j) # {} => j <= i
              /\ \A x \in RowKeys : x.id = id =>
                   ValidatedUpTo(k, times)[x] = Validated(table, feed[i], stored, times)[x]
<1>1. TypeInv
  BY DEF IInv
<1>2. k \in Nat /\ position \in Nat
  BY DEF CanTake
<1>3. PICK h : Rounds(h, k, times)
  <2>1. \E h \in [0 .. k -> Tables] :
           /\ h[0] = rows
           /\ h[k] = ValidatedUpTo(k, times)
           /\ \A i \in 1 .. k : h[i] = Validated(h[i - 1], feed[position + i], stored, times)
    BY ValidatedUpToTurn
  <2> QED BY <2>1 DEF Rounds
<1> DEFINE D == {i \in 1 .. k : Of(kind, id, position + i) # {}}
<1>4. ASSUME NEW i \in 1 .. k
      PROVE  /\ position + i \in DOMAIN feed /\ position + i \in Places
             /\ feed[position + i] \in Files /\ feed[position + i].written
             /\ \A c \in ToSet(feed[position + i].changes) :
                  c.id = id => c \in Of(kind, id, position + i) /\ Only(c, feed[position + i])
  <2>1. position + i \in DOMAIN feed /\ feed[position + i] \in Files
    BY RoundFiles
  <2>2. position + i \in Places /\ feed[position + i].written
    BY <1>1, <2>1, PlacesFacts DEF AllWritten
  <2> QED BY <2>1, <2>2 DEF Single, Of, In
<1>5. CASE D = {}
  <2>1. \A i \in 1 .. k : \A c \in ToSet(feed[position + i].changes) : c.id # id
    BY <1>4, <1>5
  <2>2. ASSUME NEW x \in RowKeys, x.id = id PROVE h[k][x] = h[0][x]
    <3>1. 0 \in 0 .. k
      BY <1>2
    <3> QED BY <1>3, <2>1, <2>2, <3>1, RoundsKeep
  <2>3. Behind(kind, id)
    <3> SUFFICES ASSUME NEW j \in Places, Of(kind, id, j) # {}, ~(j <= position) PROVE FALSE
      BY DEF Behind
    <3>1. j \in Nat /\ j <= position + k
      BY <1>1, PlacesFacts
    <3>2. j - position \in 1 .. k /\ position + (j - position) = j
      BY <1>2, <3>1
    <3> QED BY <1>5, <3>2
  <2> QED BY <1>3, <2>2, <2>3 DEF Rounds
<1>6. CASE D # {}
  <2>1. D \subseteq Int /\ IsFiniteSet(D)
    <3>1. IsFiniteSet(1 .. k)
      BY <1>2, FS_Interval
    <3>2. D \subseteq 1 .. k
      OBVIOUS
    <3> HIDE DEF D
    <3>3. IsFiniteSet(D)
      BY <3>1, <3>2, FS_Subset
    <3> QED BY <3>2, <3>3
  <2>2. PICK m \in D : \A y \in D : y <= m
    BY <1>6, <2>1, GreatestOf
  <2>3. m \in 1 .. k /\ Of(kind, id, position + m) # {}
    BY <2>2
  <2> DEFINE i == position + m
  <2>4. PICK c : c \in Of(kind, id, i)
    BY <2>3
  <2>5. /\ i \in DOMAIN feed /\ feed[i] \in Files /\ feed[i].written
        /\ Only(c, feed[i])
    <3>1. i \in DOMAIN feed
      BY <1>4, <2>3
    <3>2. c \in ToSet(feed[i].changes) /\ c.id = id
      BY <2>4, <3>1 DEF Of, In
    <3> QED BY <1>4, <2>3, <3>1, <3>2
  <2>6. \A j \in Places : Of(kind, id, j) # {} => j <= i
    <3> SUFFICES ASSUME NEW j \in Places, Of(kind, id, j) # {}, ~(j <= i) PROVE FALSE
      OBVIOUS
    <3>1. j \in Nat /\ j <= position + k
      BY <1>1, PlacesFacts
    <3>2. j - position \in 1 .. k /\ position + (j - position) = j /\ j - position > m
      BY <1>2, <2>3, <3>1
    <3>3. j - position \in D
      BY <3>2
    <3> QED BY <2>2, <2>3, <3>2, <3>3
  <2>7. m - 1 \in 0 .. k /\ m \in 0 .. k
    BY <1>2, <2>3
  <2>8. h[m - 1] \in Tables /\ Bounded(h[m - 1])
    BY <1>3, <2>7, RoundsBounded
  <2>9. h[m] = Validated(h[m - 1], feed[i], stored, times)
    BY <1>3, <2>3 DEF Rounds
  <2>10. ASSUME NEW x \in RowKeys, x.id = id
         PROVE  ValidatedUpTo(k, times)[x] = Validated(h[m - 1], feed[i], stored, times)[x]
    <3>1. ASSUME NEW j \in 1 .. k, j > m, NEW e \in ToSet(feed[position + j].changes)
          PROVE  e.id # x.id
      <4> SUFFICES ASSUME e.id = id PROVE FALSE
        BY <2>10
      <4>1. j \in D
        BY <1>4
      <4> QED BY <2>2, <2>3, <3>1, <4>1
    <3>2. h[k][x] = h[m][x]
      BY <1>3, <2>7, <3>1, RoundsKeep
    <3> QED BY <1>3, <2>9, <3>2 DEF Rounds
  <2> QED BY <2>4, <2>5, <2>6, <2>8, <2>10
<1> QED BY <1>5, <1>6

\* The file of the last change of a way leaves the rows the way should have.
LEMMA WayRowsAfter ==
  ASSUME IInv, NEW w \in WayIds, NotMixed(w), NEW i \in DOMAIN feed, NEW c \in Of("way", w, i),
         Only(c, feed[i]), feed[i] \in Files, feed[i].written,
         \A j \in Places : Of("way", w, j) # {} => j <= i,
         NEW table \in Tables, Bounded(table), NEW times \in 1 .. 2
  PROVE  WayRows(w, Validated(table, feed[i], stored, times))
<1> DEFINE way == world.ways[w]
           found == IF way.there THEN CheckWay(way.tags, "building", FALSE, TRUE) ELSE {}
           check == CheckOfWay(c, stored)
<1>1. TypeInv /\ FeedInv /\ ThereInv /\ StoredInv
  BY DEF IInv
<1>2. /\ i \in Places /\ Places \subseteq Nat /\ \A j \in Places : j <= i => j \in DOMAIN feed
      /\ stored \in StoredWays
  <2>1. /\ i \in Places /\ Places \subseteq Nat /\ Len(feed) \in Nat /\ DOMAIN feed = 1 .. Len(feed)
        /\ \A j \in Places : j \in DOMAIN feed <=> j # Len(feed) + 1
    BY <1>1, PlacesFacts
  <2> QED BY <1>1, <2>1 DEF TypeInv
<1>3. c \in In(i) /\ c.kind = "way" /\ c.id = w /\ In(i) = ToSet(feed[i].changes)
  BY DEF Of, In
<1>4. c \in ChangeSet
  BY <1>1, <1>2, <1>3, InType
<1>5. Thing("way", w) = way
  BY DEF Thing
<1>6. /\ check.version = way.version /\ check.status = found
      /\ c.action = "move" => stored[c.id].version > 0
  <2>1. CASE c.action = "move"
    <3>1. Unedited(w)
      <4> SUFFICES ASSUME NEW j \in Places, NEW d \in Of("way", w, j) PROVE d.action = "move"
        BY DEF Unedited
      <4>1. j \in DOMAIN feed
        BY <1>2
      <4> QED BY <2>1, <4>1 DEF NotMixed
    <3>2. /\ stored[w].version = way.version /\ stored[w].tags = way.tags /\ way.there
          /\ way.version > 0
      <4>1. \E j \in Places : Of("way", w, j) # {}
        BY <1>2
      <4> QED BY <1>1, <3>1, <4>1 DEF StoredInv, ThereInv
    <3> QED BY <1>3, <2>1, <3>2 DEF CheckOfWay, Check
  <2>2. CASE c.action # "move"
    <3>1. PICK j \in Places : i <= j /\ \E d \in Of("way", w, j) : d.action # "move" /\ IsLatest(d)
      BY <1>1, <1>2, <1>3, <2>2 DEF FeedInv
    <3>2. PICK d \in Of("way", w, j) : IsLatest(d)
      BY <3>1
    <3>3. j = i
      BY <1>2, <3>1
    <3>4. d \in ToSet(feed[i].changes) /\ d.kind = "way" /\ d.id = w
      BY <1>3, <3>2, <3>3 DEF Of
    <3>5. d = c
      BY <1>3, <3>4 DEF Only
    <3>6. c.version = way.version /\ c.tags = way.tags /\ (c.action = "remove" <=> ~way.there)
      BY <1>3, <1>5, <3>2, <3>5 DEF IsLatest
    <3> QED BY <2>2, <3>6 DEF CheckOfWay, Check
  <2> QED BY <2>1, <2>2
<1>7. way.version \in Nat
  BY <1>1 DEF TypeInv
<1> HIDE DEF way, found, check
<1>8. ASSUME NEW k \in RowKeys, k.id = w, k.source = "building"
      PROVE  Validated(table, feed[i], stored, times)[k] =
               IF found = {} THEN 0
               ELSE IF k.status \in found THEN Newer(table[k], way.version)
               ELSE IF k.status \in {"badvalue", "badgeom"} THEN 0
               ELSE table[k]
  <2>1. Validated(table, feed[i], stored, times)[k] =
          LET one == CheckOfWay(c, stored)
          IN  IF one.status = {} THEN 0
              ELSE IF k.status \in one.status THEN Newer(table[k], one.version)
              ELSE IF k.status \in {"badvalue", "badgeom"} THEN 0
              ELSE table[k]
    BY <1>2, <1>3, <1>6, <1>8, WayAfter
  <2> QED BY <1>6, <2>1 DEF check
<1>9. ASSUME NEW k \in RowKeys, k.id = w, k.source = "building"
      PROVE  Newer(table[k], way.version) = way.version
  <2>1. table[k] <= way.version /\ table[k] \in Nat
    BY <1>9 DEF Bounded, way, Tables
  <2> QED BY <1>7, <2>1 DEF Newer
<1>10. ASSUME NEW k \in RowKeys, k.id = w, k.source = "building"
       PROVE  IF found = {} THEN Validated(table, feed[i], stored, times)[k] = 0
              ELSE IF k.status \in found
                THEN Validated(table, feed[i], stored, times)[k] = way.version
              ELSE k.status \in {"badvalue", "badgeom"} =>
                     Validated(table, feed[i], stored, times)[k] = 0
  <2>1. Validated(table, feed[i], stored, times)[k] =
          IF found = {} THEN 0
          ELSE IF k.status \in found THEN way.version
          ELSE IF k.status \in {"badvalue", "badgeom"} THEN 0
          ELSE table[k]
    BY <1>8, <1>9, <1>10
  <2> QED BY <2>1
<1> QED BY <1>10 DEF WayRows, way, found

\* The same of a node.
LEMMA NodeRowsAfter ==
  ASSUME IInv, NEW n \in NodeIds, NEW i \in DOMAIN feed, NEW c \in Of("node", n, i),
         Only(c, feed[i]), feed[i] \in Files, feed[i].written,
         \A j \in Places : Of("node", n, j) # {} => j <= i,
         NEW table \in Tables, Bounded(table), NEW times \in 1 .. 2
  PROVE  NodeRows(n, Validated(table, feed[i], stored, times))
<1> DEFINE node == world.nodes[n]
           found == {CheckNode(node.tags, type) : type \in TypesOf(node.tags)}
           after == Validated(table, feed[i], stored, times)
<1>1. TypeInv /\ FeedInv
  BY DEF IInv
<1>2. i \in Places /\ Places \subseteq Nat /\ stored \in StoredWays
  BY <1>1, PlacesFacts DEF TypeInv
<1>3. c \in In(i) /\ c.kind = "node" /\ c.id = n /\ In(i) = ToSet(feed[i].changes)
  BY DEF Of, In
<1>4. c \in ChangeSet /\ c.action # "move"
  <2>1. c \in ChangeSet
    BY <1>1, <1>2, <1>3, InType
  <2> QED BY <1>3, <2>1 DEF ChangeSet
<1>5. c.version = node.version /\ c.tags = node.tags /\ (c.action = "remove" <=> ~node.there)
  <2>1. PICK j \in Places : i <= j /\ \E d \in Of("node", n, j) : d.action # "move" /\ IsLatest(d)
    BY <1>1, <1>2, <1>3, <1>4 DEF FeedInv
  <2>2. PICK d \in Of("node", n, j) : IsLatest(d)
    BY <2>1
  <2>3. j = i
    BY <1>2, <2>1
  <2>4. d \in ToSet(feed[i].changes) /\ d.kind = "node" /\ d.id = n
    BY <1>3, <2>2, <2>3 DEF Of
  <2>5. d = c
    BY <1>3, <2>4 DEF Only
  <2> QED BY <1>3, <2>2, <2>5 DEF IsLatest, Thing
<1>6. node.version \in Nat
  BY <1>1 DEF TypeInv
<1>7. ASSUME NEW k \in RowKeys, k.id = n, k.source = ""
      PROVE  Newer(table[k], node.version) = node.version
  <2>1. table[k] <= node.version /\ table[k] \in Nat
    BY <1>7 DEF Bounded, Tables
  <2> QED BY <1>6, <2>1 DEF Newer
<1>8. ASSUME NEW k \in RowKeys, k.id = n, k.source = ""
      PROVE  IF c.action = "remove" \/ {} \in found THEN after[k] = 0
             ELSE /\ k.status \in UNION found => after[k] = Newer(table[k], c.version)
                  /\ found # {} /\ k.status \notin UNION found /\ k.status = "badvalue" =>
                       after[k] = 0
  <2>1. NodeRowAfter(c, k.status, table[k], after[k])
    BY <1>2, <1>3, <1>8, NodeAfter
  <2> QED BY <1>5, <2>1 DEF NodeRowAfter
<1> HIDE DEF after, found, node
<1>9. ASSUME NEW k \in RowKeys, k.id = n, k.source = ""
      PROVE  IF ~node.there \/ {} \in found THEN after[k] = 0
             ELSE /\ k.status \in UNION found => after[k] = node.version
                  /\ found # {} /\ k.status \notin UNION found /\ k.status = "badvalue" =>
                       after[k] = 0
  BY <1>5, <1>7, <1>8, <1>9
<1> QED BY <1>9 DEF NodeRows, NodeRow, node, found, after

LEMMA RoundInv ==
  ASSUME IInv, NEW k \in 1 .. FilesAtOnce, Round(k)
  PROVE  IInv'
<1>1. TypeInv /\ FeedInv /\ ThereInv /\ StoredInv /\ Bounded(rows) /\ WayInv /\ NodeInv
  BY DEF IInv
<1>2. PICK times \in 1 .. 2 : rows' = ValidatedUpTo(k, times)
  BY DEF Round
<1>3. /\ stored' = StoredUpTo(k) /\ position' = position + k /\ position + k <= Len(feed)
      /\ world' = world /\ open' = open /\ feed' = feed
  BY DEF Round
<1>4. k \in Nat /\ position \in Nat /\ Len(feed) \in Nat /\ Places \subseteq Nat
  BY <1>1, PlacesFacts, RoundAssumption
<1>5. CanTake(k)
  BY <1>1, <1>3, <1>4 DEF CanTake, TypeInv
<1>6. rows' \in Tables /\ Bounded(ValidatedUpTo(k, times))
  <2>1. \E h \in [0 .. k -> Tables] :
           /\ h[0] = rows
           /\ h[k] = ValidatedUpTo(k, times)
           /\ \A i \in 1 .. k : h[i] = Validated(h[i - 1], feed[position + i], stored, times)
    BY <1>5, ValidatedUpToTurn
  <2>2. PICK h : Rounds(h, k, times)
    BY <2>1 DEF Rounds
  <2>3. k \in 0 .. k
    BY <1>4
  <2>4. h[k] \in Tables /\ Bounded(h[k])
    BY <1>5, <2>2, <2>3, RoundsBounded
  <2> QED BY <1>2, <2>2, <2>4 DEF Rounds
<1>7. Bounded(rows)'
  BY <1>2, <1>3, <1>6 DEF Bounded
<1>8. stored' \in StoredWays /\ StoredInv'
  BY <1>3, <1>5, StoredAfterRound
<1>9. TypeInv'
  <2>1. position' \in 0 .. Len(feed')
    BY <1>3, <1>4
  <2> QED BY <1>1, <1>3, <1>6, <1>8, <2>1 DEF TypeInv
<1>10. /\ Places' = Places /\ \A i : In(i)' = In(i)
       /\ \A kind, id, i : Of(kind, id, i)' = Of(kind, id, i)
       /\ \A kind, id : Thing(kind, id)' = Thing(kind, id)
  BY <1>3 DEF Places, In, Of, Thing
<1>11. FeedInv' /\ ThereInv'
  BY <1>1, <1>3, <1>10 DEF FeedInv, IsLatest, ThereInv
<1>12. /\ AllWritten' <=> AllWritten
       /\ \A kind, id : Single(kind, id)' <=> Single(kind, id)
       /\ \A w : NotMixed(w)' <=> NotMixed(w)
       /\ \A kind, id : Touched(kind, id)' <=> Touched(kind, id)
  BY <1>3, <1>10 DEF AllWritten, Single, NotMixed, Only, Touched
<1>13. \A kind, id : Behind(kind, id)' =>
         \A i \in Places : Of(kind, id, i) # {} => i <= position + k
  BY <1>3, <1>10 DEF Behind
<1>14. WayInv'
  <2> SUFFICES ASSUME NEW w \in WayIds, AllWritten', Single("way", w)', NotMixed(w)',
                      Behind("way", w)'
               PROVE  IF Touched("way", w)' THEN WayRows(w, rows)' ELSE WayAsBootstrapped(w, rows)'
    BY DEF WayInv
  <2>1. /\ AllWritten /\ Single("way", w) /\ NotMixed(w)
        /\ \A i \in Places : Of("way", w, i) # {} => i <= position + k
    BY <1>12, <1>13
  <2>2. CASE /\ Behind("way", w)
             /\ \A x \in RowKeys : x.id = w => ValidatedUpTo(k, times)[x] = rows[x]
    <3>1. \A x \in RowKeys : x.id = w => rows'[x] = rows[x]
      BY <1>2, <2>2
    <3>2. IF Touched("way", w) THEN WayRows(w, rows) ELSE WayAsBootstrapped(w, rows)
      BY <1>1, <2>1, <2>2 DEF WayInv
    <3>3. CASE Touched("way", w)
      <4>1. WayRows(w, rows)'
        BY <1>3, <3>1, <3>2, <3>3 DEF WayRows
      <4> QED BY <1>12, <3>3, <4>1
    <3>4. CASE ~Touched("way", w)
      <4>1. WayAsBootstrapped(w, rows)'
        BY <1>3, <3>1, <3>2, <3>4 DEF WayAsBootstrapped
      <4> QED BY <1>12, <3>4, <4>1
    <3> QED BY <3>3, <3>4
  <2>3. CASE \E i \in DOMAIN feed : \E c \in Of("way", w, i) : \E table \in Tables :
              /\ Bounded(table) /\ Only(c, feed[i]) /\ feed[i] \in Files /\ feed[i].written
              /\ \A j \in Places : Of("way", w, j) # {} => j <= i
              /\ \A x \in RowKeys : x.id = w =>
                   ValidatedUpTo(k, times)[x] = Validated(table, feed[i], stored, times)[x]
    <3>1. PICK i \in DOMAIN feed : \E c \in Of("way", w, i) : \E table \in Tables :
              /\ Bounded(table) /\ Only(c, feed[i]) /\ feed[i] \in Files /\ feed[i].written
              /\ \A j \in Places : Of("way", w, j) # {} => j <= i
              /\ \A x \in RowKeys : x.id = w =>
                   ValidatedUpTo(k, times)[x] = Validated(table, feed[i], stored, times)[x]
      BY <2>3
    <3>2. PICK c \in Of("way", w, i), table \in Tables :
              /\ Bounded(table) /\ Only(c, feed[i]) /\ feed[i] \in Files /\ feed[i].written
              /\ \A j \in Places : Of("way", w, j) # {} => j <= i
              /\ \A x \in RowKeys : x.id = w =>
                   ValidatedUpTo(k, times)[x] = Validated(table, feed[i], stored, times)[x]
      BY <3>1
    <3>3. WayRows(w, Validated(table, feed[i], stored, times))
      BY <2>1, <3>2, WayRowsAfter
    <3>4. \A x \in RowKeys : x.id = w => rows'[x] = Validated(table, feed[i], stored, times)[x]
      BY <1>2, <3>2
    <3>5. WayRows(w, rows)'
      BY <1>3, <3>3, <3>4 DEF WayRows
    <3>6. Touched("way", w)
      BY <1>1, PlacesFacts DEF Touched
    <3> QED BY <1>12, <3>5, <3>6
  <2> QED BY <1>5, <2>1, <2>2, <2>3, LastChange
<1>15. NodeInv'
  <2> SUFFICES ASSUME NEW n \in NodeIds, AllWritten', Single("node", n)', Behind("node", n)',
                      Touched("node", n)'
               PROVE  NodeRows(n, rows)'
    BY DEF NodeInv
  <2>1. /\ AllWritten /\ Single("node", n) /\ Touched("node", n)
        /\ \A i \in Places : Of("node", n, i) # {} => i <= position + k
    BY <1>12, <1>13
  <2>2. CASE /\ Behind("node", n)
             /\ \A x \in RowKeys : x.id = n => ValidatedUpTo(k, times)[x] = rows[x]
    <3>1. \A x \in RowKeys : x.id = n => rows'[x] = rows[x]
      BY <1>2, <2>2
    <3>2. NodeRows(n, rows)
      BY <1>1, <2>1, <2>2 DEF NodeInv
    <3> QED BY <1>3, <3>1, <3>2 DEF NodeRows
  <2>3. CASE \E i \in DOMAIN feed : \E c \in Of("node", n, i) : \E table \in Tables :
              /\ Bounded(table) /\ Only(c, feed[i]) /\ feed[i] \in Files /\ feed[i].written
              /\ \A j \in Places : Of("node", n, j) # {} => j <= i
              /\ \A x \in RowKeys : x.id = n =>
                   ValidatedUpTo(k, times)[x] = Validated(table, feed[i], stored, times)[x]
    <3>1. PICK i \in DOMAIN feed : \E c \in Of("node", n, i) : \E table \in Tables :
              /\ Bounded(table) /\ Only(c, feed[i]) /\ feed[i] \in Files /\ feed[i].written
              /\ \A j \in Places : Of("node", n, j) # {} => j <= i
              /\ \A x \in RowKeys : x.id = n =>
                   ValidatedUpTo(k, times)[x] = Validated(table, feed[i], stored, times)[x]
      BY <2>3
    <3>2. PICK c \in Of("node", n, i), table \in Tables :
              /\ Bounded(table) /\ Only(c, feed[i]) /\ feed[i] \in Files /\ feed[i].written
              /\ \A j \in Places : Of("node", n, j) # {} => j <= i
              /\ \A x \in RowKeys : x.id = n =>
                   ValidatedUpTo(k, times)[x] = Validated(table, feed[i], stored, times)[x]
      BY <3>1
    <3>3. NodeRows(n, Validated(table, feed[i], stored, times))
      BY <2>1, <3>2, NodeRowsAfter
    <3>4. \A x \in RowKeys : x.id = n => rows'[x] = Validated(table, feed[i], stored, times)[x]
      BY <1>2, <3>2
    <3> QED BY <1>3, <3>3, <3>4 DEF NodeRows
  <2> QED BY <1>5, <2>1, <2>2, <2>3, LastChange
<1> QED BY <1>7, <1>8, <1>9, <1>11, <1>14, <1>15 DEF IInv

-----------------------------------------------------------------------------
(* The invariant of the specification.                                     *)

LEMMA NextInv == IInv /\ [Next]_vars => IInv'
<1> SUFFICES ASSUME IInv, [Next]_vars PROVE IInv'
  OBVIOUS
<1>1. position \in Nat
  BY PlacesFacts DEF IInv
<1>2. CASE \/ \E n \in NodeIds : DropNode(n) \/ \E tags \in NodeTags : EditNode(n, tags)
           \/ \E w \in WayIds : DropWay(w) \/ MoveWay(w) \/ \E tags \in WayTags : EditWay(w, tags)
  <2>1. PICK c : Edited(c)
    BY <1>2, EditsAreEdits
  <2> QED BY <2>1, EditedInv
<1>3. CASE Publish
  BY <1>3, PublishInv
<1>4. ASSUME NEW k \in 1 .. FilesAtOnce, Round(k) \/ Hang(k) PROVE IInv'
  <2>1. CASE Round(k)
    BY <2>1, RoundInv
  <2>2. CASE Hang(k)
    <3>1. UNCHANGED <<world, open, feed, stored, rows>> /\ position' \in 0 .. position
      BY <1>1, <2>2 DEF Hang
    <3> QED BY <3>1, BackInv
  <2> QED BY <1>4, <2>1, <2>2
<1>5. CASE Restart
  <2>1. UNCHANGED <<world, open, feed, stored, rows>> /\ position' \in 0 .. position
    BY <1>5 DEF Restart
  <2> QED BY <2>1, BackInv
<1>6. CASE UNCHANGED vars
  <2>1. UNCHANGED <<world, open, feed, stored, rows>> /\ position' \in 0 .. position
    BY <1>1, <1>6 DEF vars
  <2> QED BY <2>1, BackInv
<1> QED BY <1>2, <1>3, <1>4, <1>5, <1>6 DEF Next

\* The invariant holds of every run of the program.
THEOREM Invariance == Spec => []IInv
BY InitInv, NextInv, PTL DEF Spec

-----------------------------------------------------------------------------
(* What the properties say of the feed.                                    *)

LEMMA ChangesAre ==
  ASSUME TypeInv
  PROVE  \A kind, id, c : c \in Changes(kind, id) <=>
           \E i \in DOMAIN feed : c \in ToSet(feed[i].changes) /\ c.kind = kind /\ c.id = id
<1> DEFINE seqs == [i \in DOMAIN feed |-> feed[i].changes]
<1>1. DOMAIN feed = 1 .. Len(feed) /\ Len(feed) \in Nat
  BY PlacesFacts
<1>2. ASSUME NEW i \in DOMAIN feed PROVE feed[i].changes \in Seq(ChangeSet)
  <2>1. feed[i] \in Files
    BY PlacesFacts
  <2> QED BY <2>1 DEF Files
<1>3. /\ seqs \in Seq(Seq(ChangeSet)) /\ DOMAIN seqs = DOMAIN feed
      /\ \A i \in DOMAIN feed : seqs[i] = feed[i].changes
  BY <1>1, <1>2
<1>4. Edits = FlattenSeq(seqs)
  BY DEF Edits
<1> HIDE DEF seqs
<1>5. ToSet(Edits) = UNION {ToSet(seqs[i]) : i \in DOMAIN seqs}
  BY <1>3, <1>4, FlattenHolds
<1>6. \A c : c \in ToSet(Edits) <=> \E i \in DOMAIN feed : c \in ToSet(feed[i].changes)
  BY <1>3, <1>5
<1> QED BY <1>6 DEF Changes

LEMMA SingleOf ==
  ASSUME TypeInv, NEW kind \in {"node", "way"}, NEW other \in {"node", "way"}, other # kind,
         NEW id, Untouched(other, id), ~Twice(kind, id)
  PROVE  Single(kind, id)
<1> SUFFICES ASSUME NEW i \in DOMAIN feed, NEW c \in ToSet(feed[i].changes), c.id = id
             PROVE  c.kind = kind /\ Only(c, feed[i])
  BY DEF Single
<1>1. feed[i] \in Files
  BY PlacesFacts
<1>2. ASSUME NEW d \in ToSet(feed[i].changes), d.id = id PROVE d.kind = kind
  <2>1. d \in ChangeSet
    BY <1>1, ChangesOf
  <2>2. d.kind \in {"node", "way"}
    BY <2>1 DEF ChangeSet
  <2>3. \A x : x \in Changes(other, id) <=>
          \E j \in DOMAIN feed : x \in ToSet(feed[j].changes) /\ x.kind = other /\ x.id = id
    BY ChangesAre
  <2>4. d \notin Changes(other, id)
    BY DEF Untouched
  <2>5. d.kind # other
    BY <1>2, <2>3, <2>4
  <2> QED BY <2>2, <2>5
<1>3. ASSUME NEW d \in ToSet(feed[i].changes), d.id = id PROVE d = c
  <2>1. PICK j \in DOMAIN feed[i].changes : feed[i].changes[j] = c
    BY DEF ToSet
  <2>2. PICK k \in DOMAIN feed[i].changes : feed[i].changes[k] = d
    BY DEF ToSet
  <2>3. c.kind = kind /\ d.kind = kind
    BY <1>2, <1>3
  <2>4. j = k
    BY <1>3, <2>1, <2>2, <2>3 DEF Twice
  <2> QED BY <2>1, <2>2, <2>4
<1> QED BY <1>2, <1>3 DEF Only

LEMMA InStepFacts ==
  ASSUME TypeInv, InStep
  PROVE  \A kind, id :
           /\ Behind(kind, id)
           /\ Touched(kind, id) <=> ~Untouched(kind, id)
<1> TAKE kind, id
<1>1. /\ Len(feed) \in Nat /\ DOMAIN feed = 1 .. Len(feed) /\ Places = 1 .. Len(feed) + 1
      /\ position = Len(feed) /\ open = <<>>
  BY PlacesFacts DEF Places, InStep
<1>2. ASSUME NEW i \in Places, Of(kind, id, i) # {} PROVE i \in DOMAIN feed
  <2> SUFFICES ASSUME i \notin DOMAIN feed PROVE FALSE
    OBVIOUS
  <2>1. In(i) = {}
    BY <1>1 DEF In, ToSet
  <2> QED BY <1>2, <2>1 DEF Of
<1>3. Behind(kind, id)
  BY <1>1, <1>2 DEF Behind
<1>4. Touched(kind, id) <=> \E i \in DOMAIN feed : Of(kind, id, i) # {}
  BY <1>1, <1>2 DEF Touched
<1>5. \A i \in DOMAIN feed : \A c : c \in Of(kind, id, i) <=>
        c \in ToSet(feed[i].changes) /\ c.kind = kind /\ c.id = id
  BY DEF Of, In
<1>6. Touched(kind, id) <=> \E i \in DOMAIN feed : \E c :
        c \in ToSet(feed[i].changes) /\ c.kind = kind /\ c.id = id
  BY <1>4, <1>5
<1>7. Touched(kind, id) <=> Changes(kind, id) # {}
  <2>1. \A c : c \in Changes(kind, id) <=>
          \E i \in DOMAIN feed : c \in ToSet(feed[i].changes) /\ c.kind = kind /\ c.id = id
    BY ChangesAre
  <2> QED BY <1>6, <2>1
<1> QED BY <1>3, <1>7 DEF Untouched

LEMMA RowsOfFacts ==
  ASSUME NEW id \in NodeIds \cup WayIds, NEW source \in Sources
  PROVE  /\ \A s : s \in RowsOf(id, source) <=>
              \E k \in RowKeys : /\ k.id = id /\ k.source = source /\ k.status = s
                                 /\ rows[k] > 0
         /\ \A s \in Statuses : \E k \in RowKeys :
              k.id = id /\ k.source = source /\ k.status = s
<1>1. ASSUME NEW s \in Statuses
      PROVE  \E k \in RowKeys : k.id = id /\ k.source = source /\ k.status = s
  <2> DEFINE k == [id |-> id, status |-> s, source |-> source]
  <2>1. k \in RowKeys /\ k.id = id /\ k.source = source /\ k.status = s
    BY DEF RowKeys
  <2> QED BY <2>1
<1> QED BY <1>1 DEF RowsOf

-----------------------------------------------------------------------------
(* The theorems.                                                           *)

LEMMA WaysHold == IInv => WaysAgree
<1> SUFFICES ASSUME IInv, InStep, ~NotValidated, NEW w \in WayIds, Untouched("node", w),
                    ~Twice("way", w), ~MovedAndEdited(w)
             PROVE  LET way == world.ways[w]
                        found == IF way.there THEN CheckWay(way.tags, "building", FALSE, TRUE)
                                 ELSE {}
                        listed == RowsOf(w, "building")
                    IN  IF Untouched("way", w)
                          THEN listed = IF way.there
                                          THEN CheckWay(way.tags, "building", TRUE, way.square)
                                        ELSE {}
                        ELSE /\ found \subseteq listed
                             /\ listed \subseteq found \cup {"incomplete", "notags"}
                             /\ found = {} => listed = {}
                             /\ \A k \in RowKeys :
                                  k.id = w /\ k.source = "building" /\ k.status \in found =>
                                    rows[k] = way.version
  BY DEF WaysAgree
<1> DEFINE way == world.ways[w]
           found == IF way.there THEN CheckWay(way.tags, "building", FALSE, TRUE) ELSE {}
           first == IF way.there THEN CheckWay(way.tags, "building", TRUE, way.square) ELSE {}
           listed == RowsOf(w, "building")
<1>1. TypeInv /\ ThereInv /\ WayInv
  BY DEF IInv
<1>2. AllWritten
  BY DEF NotValidated, AllWritten
<1>3. Single("way", w)
  BY <1>1, SingleOf
<1>4. NotMixed(w)
  <2> SUFFICES ASSUME NEW i \in DOMAIN feed, NEW j \in DOMAIN feed,
                      NEW c \in Of("way", w, i), NEW d \in Of("way", w, j),
                      c.action = "move"
               PROVE  d.action = "move"
    BY DEF NotMixed
  <2>1. c \in Changes("way", w) /\ d \in Changes("way", w)
    BY <1>1, ChangesAre DEF Of, In
  <2> QED BY <2>1 DEF MovedAndEdited
<1>5. Behind("way", w) /\ (Touched("way", w) <=> ~Untouched("way", w))
  BY <1>1, InStepFacts
<1>6. IF Touched("way", w) THEN WayRows(w, rows) ELSE WayAsBootstrapped(w, rows)
  BY <1>1, <1>2, <1>3, <1>4, <1>5 DEF WayInv
<1>7. /\ \A s : s \in listed <=>
           \E k \in RowKeys : k.id = w /\ k.source = "building" /\ k.status = s /\ rows[k] > 0
      /\ \A s \in Statuses : \E k \in RowKeys :
           k.id = w /\ k.source = "building" /\ k.status = s
  <2>1. "building" \in Sources /\ w \in NodeIds \cup WayIds
    BY DEF Sources
  <2> QED BY <2>1, RowsOfFacts
<1>8. found \subseteq Statuses /\ first \subseteq Statuses
  BY CheckWayType
<1>9. found # {} => way.version > 0
  BY <1>1 DEF ThereInv
<1>10. CASE Untouched("way", w)
  <2>1. \A k \in RowKeys : k.id = w /\ k.source = "building" =>
          rows[k] = IF k.status \in first THEN 1 ELSE 0
    BY <1>5, <1>6, <1>10 DEF WayAsBootstrapped
  <2> HIDE DEF way, first, found, listed
  <2>2. \A s : s \in listed <=> s \in first
    BY <1>7, <1>8, <2>1
  <2>3. listed = first
    BY <2>2
  <2> QED BY <1>10, <2>3 DEF way, first, listed
<1>11. CASE ~Untouched("way", w)
  <2>1. \A k \in RowKeys : k.id = w /\ k.source = "building" =>
          IF found = {} THEN rows[k] = 0
          ELSE IF k.status \in found THEN rows[k] = way.version
          ELSE k.status \in {"badvalue", "badgeom"} => rows[k] = 0
    BY <1>5, <1>6, <1>11 DEF WayRows
  <2> HIDE DEF way, first, found, listed
  <2>2. found \subseteq listed
    BY <1>7, <1>8, <1>9, <2>1
  <2>3. listed \subseteq found \cup {"incomplete", "notags"}
    <3>1. \A k \in RowKeys : k.status \in {"notags", "incomplete", "badvalue", "badgeom"}
      BY DEF RowKeys, Statuses
    <3> QED BY <1>7, <2>1, <3>1
  <2>4. found = {} => listed = {}
    BY <1>7, <2>1
  <2>5. \A k \in RowKeys : k.id = w /\ k.source = "building" /\ k.status \in found =>
          rows[k] = way.version
    BY <2>1
  <2> QED BY <1>11, <2>2, <2>3, <2>4, <2>5 DEF way, found, listed
<1> QED BY <1>10, <1>11

\* When the program has taken every edit, each way has the rows that its tags and its
\* state in OSM call for (queryvalidate.cc, threads.cc): of every feed, whatever the
\* rounds, the restarts and the repeated statements.
THEOREM WaysTheorem == Spec => []WaysAgree
BY Invariance, WaysHold, PTL

LEMMA NodesHold == IInv => NodesAgree
<1> SUFFICES ASSUME IInv, InStep, ~NotValidated, NEW n \in NodeIds, Untouched("way", n),
                    ~Untouched("node", n), ~Twice("node", n)
             PROVE  LET node == world.nodes[n]
                        types == Keys(node.tags) \cap ToSet(NodeTests)
                        found == {CheckNode(node.tags, type) : type \in types}
                        listed == RowsOf(n, "")
                    IN  IF ~node.there \/ {} \in found THEN listed = {}
                        ELSE types # {} =>
                          /\ UNION found \subseteq listed
                          /\ listed \subseteq (UNION found) \cup {"incomplete"}
                          /\ \A k \in RowKeys :
                               k.id = n /\ k.source = "" /\ k.status \in UNION found =>
                                 rows[k] = node.version
  BY DEF NodesAgree
<1> DEFINE node == world.nodes[n]
           types == Keys(node.tags) \cap ToSet(NodeTests)
           found == {CheckNode(node.tags, type) : type \in types}
           listed == RowsOf(n, "")
<1>1. TypeInv /\ ThereInv /\ NodeInv /\ Bounded(rows)
  BY DEF IInv
<1>2. AllWritten
  BY DEF NotValidated, AllWritten
<1>3. Single("node", n)
  BY <1>1, SingleOf
<1>4. Behind("node", n) /\ Touched("node", n)
  BY <1>1, InStepFacts
<1>5. NodeRows(n, rows)
  BY <1>1, <1>2, <1>3, <1>4 DEF NodeInv
<1>6. \A k \in RowKeys : k.id = n /\ k.source = "" => NodeRow(node, k.status, rows[k])
  BY <1>5 DEF NodeRows
<1>7. types = TypesOf(node.tags)
  BY DEF TypesOf
<1>8. /\ \A s : s \in listed <=>
           \E k \in RowKeys : k.id = n /\ k.source = "" /\ k.status = s /\ rows[k] > 0
      /\ \A s \in Statuses : \E k \in RowKeys : k.id = n /\ k.source = "" /\ k.status = s
  <2>1. "" \in Sources /\ n \in NodeIds \cup WayIds
    BY DEF Sources
  <2>2. \A s : s \in RowsOf(n, "") <=>
          \E k \in RowKeys : k.id = n /\ k.source = "" /\ k.status = s /\ rows[k] > 0
    BY DEF RowsOf
  <2>3. \A s \in Statuses : \E k \in RowKeys : k.id = n /\ k.source = "" /\ k.status = s
    BY <2>1, RowsOfFacts
  <2> QED BY <2>2, <2>3
<1>9. node.there => node.version > 0
  BY <1>1 DEF ThereInv
<1>10. UNION found \subseteq {"badvalue", "incomplete"}
  BY CheckNodeType
<1>11. types # {} => found # {}
  OBVIOUS
<1>12. \A k \in RowKeys :
         k.id = n /\ k.source = "" /\ k.status \notin {"badvalue", "incomplete"} => rows[k] = 0
  BY <1>1 DEF Bounded
<1>13. \A status, row : NodeRow(node, status, row) =>
         IF ~node.there \/ {} \in found THEN row = 0
         ELSE /\ status \in UNION found => row = node.version
              /\ found # {} /\ status \notin UNION found /\ status = "badvalue" => row = 0
  BY <1>7 DEF NodeRow
<1>14. ASSUME NEW k \in RowKeys, rows[k] = 0 PROVE ~(rows[k] > 0)
  BY <1>14
<1> HIDE DEF node, types, found, listed
<1>15. CASE ~node.there \/ {} \in found
  <2>1. \A k \in RowKeys : k.id = n /\ k.source = "" => rows[k] = 0
    BY <1>6, <1>13, <1>15
  <2>2. ASSUME NEW s \in listed PROVE FALSE
    <3>1. PICK k \in RowKeys : k.id = n /\ k.source = "" /\ rows[k] > 0
      BY <1>8
    <3> QED BY <1>14, <2>1, <3>1
  <2> QED BY <1>15, <2>2 DEF node, types, found, listed
<1>16. CASE node.there /\ {} \notin found
  <2>1. \A k \in RowKeys : k.id = n /\ k.source = "" =>
          /\ k.status \in UNION found => rows[k] = node.version
          /\ found # {} /\ k.status \notin UNION found /\ k.status = "badvalue" => rows[k] = 0
    BY <1>6, <1>13, <1>16
  <2>2. UNION found \subseteq listed
    <3> SUFFICES ASSUME NEW s \in UNION found PROVE s \in listed
      OBVIOUS
    <3>1. s \in Statuses
      BY <1>10 DEF Statuses
    <3>2. PICK k \in RowKeys : k.id = n /\ k.source = "" /\ k.status = s
      BY <1>8, <3>1
    <3>3. rows[k] > 0
      BY <1>9, <1>16, <2>1, <3>2
    <3> QED BY <1>8, <3>2, <3>3
  <2>3. types # {} => listed \subseteq (UNION found) \cup {"incomplete"}
    <3> SUFFICES ASSUME types # {}, NEW s \in listed, s \notin UNION found
                 PROVE  s = "incomplete"
      OBVIOUS
    <3>1. PICK k \in RowKeys : k.id = n /\ k.source = "" /\ k.status = s /\ rows[k] > 0
      BY <1>8
    <3>2. rows[k] # 0
      BY <1>14, <3>1
    <3>3. k.status \in {"badvalue", "incomplete"}
      BY <1>12, <3>1, <3>2
    <3>4. k.status # "badvalue"
      BY <1>11, <2>1, <3>1, <3>2
    <3> QED BY <3>1, <3>3, <3>4
  <2> QED BY <1>16, <2>1, <2>2, <2>3 DEF node, types, found, listed
<1> QED BY <1>15, <1>16

\* The same of each node that was changed (queryvalidate.cc, threads.cc), but for one
\* that has lost every key there is a check for.
THEOREM NodesTheorem == Spec => []NodesAgree
BY Invariance, NodesHold, PTL
=============================================================================
