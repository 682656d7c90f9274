---------------------- MODULE MonitorChangesetsProofs ----------------------
(***************************************************************************)
(* MonitorChangesets implements FeedFollower, its files are accounted for, *)
(* and its rows are stale by less than a round and settle, for every       *)
(* number of cores, feed, content of its files and set of faults.          *)
(*                                                                         *)
(* The area filter, a loop over a list, is shown by induction over its     *)
(* turns to keep what it should.  IInv carries the refinement and the      *)
(* accounting; OInv the order in which the files of the batches come.      *)
(***************************************************************************)
EXTENDS MonitorChangesets, Induction

\* What a worker can make of a file.
Results == {TaskOf(s, end) : s \in Files, end \in Ends}

Settled(s) == s \in Committed(db) \cup lost

Shape ==
  /\ pc \in PcValues /\ remote \in Files /\ lastStatus \in Statuses
  /\ closest.url \in Files \cup {NoUrl}
  /\ caughtUp \in BOOLEAN /\ cores = (IF caughtUp THEN 1 ELSE Cores)
  /\ jobs \in Seq(Files) /\ ended \subseteq DOMAIN jobs /\ tasks \in Seq(Results)
  /\ db \in Seq(Seq(Nat \cup {NoUrl}))
  /\ fate \in [Files -> Ends \cup {"unseen"}] /\ lost \subseteq Files

\* The jobs of a round are successive files up to the position, or all of them it.
JobsInv ==
  /\ Len(jobs) <= Width
  /\ pc \in {"connect", "round"} => jobs = <<>> /\ tasks = <<>> /\ ended = {}
  /\ pc = "closest" => Len(jobs) = Width /\ ended = DOMAIN jobs
  /\ pc = "post" /\ MustAdvance => remote + (Width - Len(jobs)) <= MaxSeq
  /\ \A k \in DOMAIN jobs :
       jobs[k] = IF MustAdvance THEN remote - Len(jobs) + k ELSE remote
  /\ lastStatus = "none" => remote = Start /\ ~caughtUp
  /\ closest.url # NoUrl => closest.url <= remote

\* A result is that of a job that has ended; the one of a round of one job is what
\* was last heard of the file.
TasksInv ==
  /\ ended = {} => tasks = <<>>
  /\ \A k \in DOMAIN tasks :
       /\ \E j \in ended, end \in Ends : tasks[k] = TaskOf(jobs[j], end)
       /\ caughtUp => tasks[k] = TaskOf(remote, fate[remote])

Pending(s) == pc = "post" /\ \E j \in DOMAIN jobs \ ended : jobs[j] = s

SeenInv ==
  pc # "crashed" /\ (lastStatus # "none" \/ jobs # <<>>) =>
    \A s \in Start .. remote : fate[s] # "unseen" \/ Pending(s)

\* The changes of file s are in the vector of the round, not yet written.
InRound(s) ==
  /\ pc \in {"post", "crashed"}
  /\ \E k \in DOMAIN tasks : tasks[k].url = s /\ tasks[k].query # {}

AccountInv ==
  \A s \in Files : fate[s] = "ok" /\ Mentions[s] # {} => Settled(s) \/ InRound(s)

\* Once caught up, no hashtags are mixed of a file that is not asked for right now.
CleanInv ==
  caughtUp =>
    /\ caughtUpAt.at \in Files
    /\ \A s \in caughtUpAt.at + 1 .. remote :
         fate[s] = "ok" => s \notin mixed \/ (jobs # <<>> /\ ended = {} /\ s = remote)

IInv == Shape /\ JobsInv /\ TasksInv /\ SeenInv /\ AccountInv /\ CleanInv

-----------------------------------------------------------------------------
(* Lemmas about the operators.                                             *)

LEMMA FilesAreNat ==
  /\ \A s \in Files : s \in Nat /\ s \in Int /\ s >= Start /\ s <= MaxSeq
  /\ NoUrl \notin Nat /\ NoUrl \notin Files /\ Start \in Files /\ Start \in Nat
  /\ MaxSeq \in Nat
BY PositionAssumption DEF Files, NoUrl

LEMMA TaskOfFacts ==
  ASSUME NEW s \in Files, NEW end \in Ends
  PROVE  LET t == TaskOf(s, end)
         IN  /\ t.url = s /\ t.status \in Statuses /\ t.status # "none"
             /\ t.status = "success" => end \in {"ok", "readError"}
             /\ end = "ok" /\ Mentions[s] # {} => t.query = {"underpass"}
             /\ t.query # {} => end = "ok" /\ Mentions[s] # {} /\ t.query = {"underpass"}
<1>1. CASE end = "ok"
  <2>1. TaskOf(s, end) = Task(s, TimestampOf(Content[s]), "success",
                              IF Mentions[s] = {} THEN {} ELSE {"underpass"})
    BY <1>1 DEF TaskOf
  <2> QED
    BY <1>1, <2>1 DEF Task, Statuses
<1>2. CASE end = "readError"
  <2>1. TaskOf(s, end) = Task(s, NotADateTime, "success", {})
    BY <1>2 DEF TaskOf
  <2> QED
    BY <1>2, <2>1 DEF Task, Statuses
<1>3. CASE end \notin {"ok", "readError"}
  <2>1. TaskOf(s, end) = Task(s, NotADateTime, end, {})
    BY <1>3 DEF TaskOf
  <2> QED
    BY <1>3, <2>1 DEF Task, Statuses, Ends
<1> QED
  BY <1>1, <1>2, <1>3

\* A batch committed adds its files.
LEMMA CommittedAppend ==
  ASSUME NEW T, NEW log \in Seq(T), NEW batch \in T
  PROVE  Committed(Append(log, batch)) = Committed(log) \cup FilesOf(batch)
<1> DEFINE new == Append(log, batch)
<1>1. /\ DOMAIN new = DOMAIN log \cup {Len(log) + 1}
      /\ new[Len(log) + 1] = batch
      /\ \A b \in DOMAIN log : new[b] = log[b]
  OBVIOUS
<1> HIDE DEF new
<1> QED
  BY <1>1 DEF Committed, new

\* The files of the batch are those of the results with statements.
LEMMA BatchFacts ==
  ASSUME Shape
  PROVE  /\ Batch \in Seq(Nat \cup {NoUrl})
         /\ \A f : f \in FilesOf(Batch) <=>
              \E k \in DOMAIN tasks : tasks[k].url = f /\ tasks[k].query # {}
<1>1. DOMAIN tasks = 1 .. Len(tasks) /\ Len(tasks) \in Nat
  BY DEF Shape
<1>2. ASSUME NEW k \in DOMAIN tasks
      PROVE  /\ tasks[k].url \in Nat /\ tasks[k].url # NoUrl
             /\ tasks[k].query # {} <=> "underpass" \in tasks[k].query
  <2>1. PICK s \in Files, end \in Ends : tasks[k] = TaskOf(s, end)
    BY <1>1 DEF Shape, Results
  <2> QED
    BY <2>1, TaskOfFacts, FilesAreNat
<1>3. /\ DOMAIN Batch = DOMAIN tasks
      /\ \A k \in DOMAIN tasks :
           Batch[k] = IF "underpass" \in tasks[k].query THEN tasks[k].url ELSE NoUrl
  BY DEF Batch, AllTasksQueries
<1>4. Batch \in [1 .. Len(tasks) -> Nat \cup {NoUrl}]
  BY <1>1, <1>2 DEF Batch, AllTasksQueries
<1>5. Batch \in Seq(Nat \cup {NoUrl})
  BY <1>1, <1>4, SeqDef
<1>6. ASSUME NEW f
      PROVE  f \in FilesOf(Batch) <=>
               \E k \in DOMAIN tasks : tasks[k].url = f /\ tasks[k].query # {}
  BY <1>2, <1>3 DEF FilesOf
<1> QED
  BY <1>5, <1>6

\* How wide a round is.
LEMMA WidthFacts ==
  ASSUME Shape
  PROVE  /\ Cores \in Nat \ {0} /\ cores \in Nat \ {0} /\ Width \in Nat \ {0}
         /\ Width = 2 * cores - 1
         /\ caughtUp => Width = 1
         /\ ~caughtUp => Width = 2 * Cores - 1
         /\ Len(jobs) \in Nat /\ DOMAIN jobs = 1 .. Len(jobs)
         /\ remote \in Nat /\ remote >= Start /\ remote <= MaxSeq
BY CoresAssumption, FilesAreNat DEF Shape, Width

-----------------------------------------------------------------------------
(* The area filter, for every list of changesets.                          *)

\* What is kept of the first k changesets.
Kept(changes) ==
  CHOOSE kept : kept = [k \in 0 .. Len(changes) |->
    IF k = 0 THEN <<>>
    ELSE IF changes[k].inside THEN Append(kept[k - 1], changes[k]) ELSE kept[k - 1]]

Turn(changes) ==
  CHOOSE turn : turn = [k \in 0 .. Len(changes) |->
    IF k = 0 THEN [list |-> changes, it |-> NextOf(changes, 0)]
    ELSE FilterStep(turn[k - 1])]

LEMMA KeptFacts ==
  ASSUME NEW changes, NEW T, changes \in Seq(T)
  PROVE  /\ \A k \in 0 .. Len(changes) : Kept(changes)[k] \in Seq(T)
         /\ Kept(changes)[0] = <<>>
         /\ \A k \in 1 .. Len(changes) :
              Kept(changes)[k] = IF changes[k].inside
                                 THEN Append(Kept(changes)[k - 1], changes[k])
                                 ELSE Kept(changes)[k - 1]
         /\ MeetTheArea(changes) = Kept(changes)[Len(changes)]
<1> DEFINE N == Len(changes)
           G == [p \in (1 .. N) \X Seq(T) |->
                   IF changes[p[1]].inside THEN Append(p[2], changes[p[1]]) ELSE p[2]]
           Def(kept) == [k \in 0 .. N |->
             IF k = 0 THEN <<>>
             ELSE IF changes[k].inside THEN Append(kept[k - 1], changes[k]) ELSE kept[k - 1]]
<1>1. N \in Nat /\ <<>> \in Seq(T) /\ \A k \in 1 .. N : changes[k] \in T
  OBVIOUS
<1>2. G \in [(1 .. N) \X Seq(T) -> Seq(T)]
  BY <1>1
<1>3. \A k \in 1 .. N, s \in Seq(T) :
        G[<<k, s>>] = IF changes[k].inside THEN Append(s, changes[k]) ELSE s
  OBVIOUS
<1> HIDE DEF N, G
<1>4. PICK h \in [0 .. N -> Seq(T)] :
        h[0] = <<>> /\ \A k \in 1 .. N : h[k] = G[<<k, h[k - 1]>>]
  <2> DEFINE X == Seq(T)
             base == <<>>
  <2>1. N \in Nat /\ base \in X /\ G \in [(1 .. N) \X X -> X]
    BY <1>1, <1>2
  <2> HIDE DEF X, base
  <2>2. HasRecursion(N, X, base, G)
    BY <2>1, RecursiveFunction
  <2> QED BY <2>2 DEF X, base, HasRecursion
<1>5. ASSUME NEW k \in 1 .. N
      PROVE  h[k] = IF changes[k].inside THEN Append(h[k - 1], changes[k]) ELSE h[k - 1]
  <2>1. k - 1 \in 0 .. N
    BY <1>1
  <2>2. h[k - 1] \in Seq(T)
    BY <2>1
  <2> QED BY <1>3, <1>4, <2>2
<1>6. h = Def(h)
  <2> SUFFICES ASSUME NEW k \in 0 .. N
               PROVE  h[k] = IF k = 0 THEN <<>>
                             ELSE IF changes[k].inside THEN Append(h[k - 1], changes[k]) ELSE h[k - 1]
    OBVIOUS
  <2>1. CASE k = 0
    BY <1>4, <2>1
  <2>2. CASE k # 0
    <3>1. k \in 1 .. N
      BY <1>1, <2>2
    <3> QED BY <1>5, <2>2, <3>1
  <2> QED BY <2>1, <2>2
<1>7. Kept(changes) = Def(Kept(changes))
  BY <1>6 DEF Kept, N
<1>8. /\ Kept(changes)[0] = <<>>
      /\ \A k \in 1 .. N : Kept(changes)[k] = IF changes[k].inside
                                              THEN Append(Kept(changes)[k - 1], changes[k])
                                              ELSE Kept(changes)[k - 1]
  <2>1. PICK K : K = Kept(changes)
    OBVIOUS
  <2>2. K = Def(K)
    BY <1>7, <2>1
  <2>3. K[0] = <<>>
    <3>1. 0 \in 0 .. N
      BY <1>1
    <3> QED BY <2>2, <3>1
  <2>4. ASSUME NEW k \in 1 .. N
        PROVE  K[k] = IF changes[k].inside THEN Append(K[k - 1], changes[k]) ELSE K[k - 1]
    <3>1. k \in 0 .. N /\ k # 0
      BY <1>1
    <3> QED BY <2>2, <3>1
  <2> QED BY <2>1, <2>3, <2>4
<1>9. \A k \in 0 .. N : Kept(changes)[k] \in Seq(T)
  <2> DEFINE S == {k \in 0 .. N : Kept(changes)[k] \in Seq(T)}
  <2>1. 0 \in S
    BY <1>1, <1>8
  <2>2. ASSUME NEW k \in 0 .. N - 1, k \in S PROVE k + 1 \in S
    <3>1. k + 1 \in 1 .. N /\ k + 1 - 1 = k
      BY <1>1
    <3>2. changes[k + 1] \in T /\ Kept(changes)[k] \in Seq(T)
      BY <1>1, <2>2, <3>1
    <3>3. Kept(changes)[k + 1] = IF changes[k + 1].inside
                                 THEN Append(Kept(changes)[k], changes[k + 1])
                                 ELSE Kept(changes)[k]
      BY <1>8, <3>1
    <3>4. Kept(changes)[k + 1] \in Seq(T)
      BY <3>2, <3>3
    <3> QED BY <1>1, <3>1, <3>4
  <2> HIDE DEF S
  <2>3. \A k \in 0 .. N : k \in S
    BY <1>1, <2>1, <2>2, InductiveUpTo
  <2> QED BY <2>3 DEF S
<1>10. MeetTheArea(changes) = Kept(changes)[N]
  BY DEF MeetTheArea, Kept, N
<1> QED BY <1>8, <1>9, <1>10 DEF N

\* A list with the entries of s, then x, then the rest.
Spliced(list, s, x, rest) == list = s \o <<x>> \o rest

LEMMA ErasedAt ==
  ASSUME NEW T, NEW s \in Seq(T), NEW x \in T, NEW rest \in Seq(T),
         NEW list, Spliced(list, s, x, rest)
  PROVE  /\ list \in Seq(T)
         /\ Len(list) = Len(s) + 1 + Len(rest)
         /\ list[Len(s) + 1] = x
         /\ Erase(list, Len(s) + 1) = s \o rest
         /\ list = Append(s, x) \o rest
<1> USE DEF Spliced
<1>1. /\ list \in Seq(T) /\ Len(list) = Len(s) + 1 + Len(rest) /\ list[Len(s) + 1] = x
      /\ Len(s) \in Nat /\ Len(rest) \in Nat
      /\ \A i \in 1 .. Len(s) : list[i] = s[i]
      /\ \A i \in 1 .. Len(rest) : list[Len(s) + 1 + i] = rest[i]
  OBVIOUS
<1>2. list = Append(s, x) \o rest
  OBVIOUS
<1>3. SubSeq(list, 1, Len(s)) = s
  BY <1>1
<1>4. SubSeq(list, Len(s) + 2, Len(list)) = rest
  BY <1>1
<1>5. Erase(list, Len(s) + 1) = s \o rest
  <2>1. (Len(s) + 1) - 1 = Len(s) /\ Len(s) + 1 + 1 = Len(s) + 2
    BY <1>1
  <2>2. Erase(list, Len(s) + 1) =
          SubSeq(list, 1, (Len(s) + 1) - 1) \o SubSeq(list, Len(s) + 1 + 1, Len(list))
    BY DEF Erase
  <2>3. Erase(list, Len(s) + 1) = SubSeq(list, 1, Len(s)) \o SubSeq(list, Len(s) + 2, Len(list))
    BY ONLY <2>1, <2>2, Zenon
  <2> QED BY ONLY <1>3, <1>4, <2>3, Zenon
<1> QED BY <1>1, <1>2, <1>5

\* One turn of the loop on a list whose first entries have been walked.
Turned(s, x, rest) ==
  IF x.inside
  THEN [list |-> Append(s, x) \o rest, it |-> IF Len(rest) = 0 THEN 0 ELSE Len(s) + 2]
  ELSE [list |-> s \o rest, it |-> IF Len(rest) = 0 THEN 0 ELSE Len(s) + 1]

LEMMA TurnStep ==
  ASSUME NEW T, NEW s \in Seq(T), NEW x \in T, NEW rest \in Seq(T),
         NEW list, Spliced(list, s, x, rest),
         NEW turn, turn = [list |-> list, it |-> Len(s) + 1]
  PROVE  FilterStep(turn) = Turned(s, x, rest)
<1> USE DEF Turned
<1> DEFINE left == s \o rest
<1>1. /\ list \in Seq(T) /\ Len(list) = Len(s) + 1 + Len(rest) /\ list[Len(s) + 1] = x
      /\ Erase(list, Len(s) + 1) = left /\ list = Append(s, x) \o rest
  BY ErasedAt
<1>2. Len(s) \in Nat /\ Len(rest) \in Nat /\ Len(left) = Len(s) + Len(rest)
  OBVIOUS
<1> HIDE DEF left
<1>3. turn.it = Len(s) + 1 /\ turn.list = list /\ turn.it # 0 /\ turn.it - 1 = Len(s)
  BY <1>2
<1>4. CASE x.inside
  <2>1. FilterStep(turn) = [turn EXCEPT !.it = NextOf(list, Len(s) + 1)]
    BY <1>1, <1>3, <1>4 DEF FilterStep
  <2>2. NextOf(list, Len(s) + 1) = IF Len(rest) = 0 THEN 0 ELSE Len(s) + 2
    BY <1>1, <1>2 DEF NextOf
  <2>3. FilterStep(turn) = [list |-> list, it |-> IF Len(rest) = 0 THEN 0 ELSE Len(s) + 2]
    BY <2>1, <2>2
  <2> QED BY <1>1, <1>4, <2>3
<1>5. CASE ~x.inside
  <2>1. FilterStep(turn) = [list |-> left, it |-> NextOf(left, Len(s))]
    BY <1>1, <1>3, <1>5 DEF FilterStep
  <2>2. NextOf(left, Len(s)) = IF Len(rest) = 0 THEN 0 ELSE Len(s) + 1
    BY <1>2 DEF NextOf
  <2> QED BY <1>5, <2>1, <2>2 DEF left
<1> QED BY <1>4, <1>5

\* Every list of changesets: the filter leaves those that meet the area, all of
\* them and in their order (areaFilter, with its erase(it--)).
THEOREM FilterKeeps ==
  ASSUME NEW T, NEW changes \in Seq(T)
  PROVE  KeepsInside(changes)
<1> DEFINE N == Len(changes)
           K == Kept(changes)
           h == [k \in 0 .. N |->
                  [list |-> K[k] \o SubSeq(changes, k + 1, N),
                   it   |-> IF k = N THEN 0 ELSE Len(K[k]) + 1]]
           Def(turn) == [k \in 0 .. N |->
             IF k = 0 THEN [list |-> changes, it |-> NextOf(changes, 0)]
             ELSE FilterStep(turn[k - 1])]
<1>1. /\ \A k \in 0 .. N : K[k] \in Seq(T)
      /\ K[0] = <<>>
      /\ \A k \in 1 .. N : K[k] = IF changes[k].inside THEN Append(K[k - 1], changes[k])
                                  ELSE K[k - 1]
      /\ MeetTheArea(changes) = K[N]
  BY KeptFacts
<1>2. N \in Nat /\ \A k \in 1 .. N : changes[k] \in T
  OBVIOUS
<1> HIDE DEF K
<1>3. ASSUME NEW k \in 0 .. N - 1 PROVE h[k + 1] = FilterStep(h[k])
  <2>1. PICK s \in Seq(T), x \in T, rest \in Seq(T) :
          /\ s = K[k] /\ x = changes[k + 1] /\ rest = SubSeq(changes, k + 2, N)
          /\ Len(rest) = N - (k + 1)
    <3>1. k \in 0 .. N /\ k + 1 \in 1 .. N
      BY <1>2
    <3>2. SubSeq(changes, k + 2, N) \in Seq(T) /\ Len(SubSeq(changes, k + 2, N)) = N - (k + 1)
      BY <1>2, <3>1
    <3> QED BY <1>1, <1>2, <3>1, <3>2
  <2>2. SubSeq(changes, k + 1, N) = <<x>> \o rest
    BY <1>2, <2>1
  <2>3. s \o SubSeq(changes, k + 1, N) = s \o <<x>> \o rest
    <3>1. s \o (<<x>> \o rest) = (s \o <<x>>) \o rest
      OBVIOUS
    <3> QED BY <2>2, <3>1
  <2>4. h[k] = [list |-> s \o <<x>> \o rest, it |-> Len(s) + 1]
    <3>1. k \in 0 .. N /\ k # N
      BY <1>2
    <3> QED BY <2>1, <2>3, <3>1
  <2>5. FilterStep(h[k]) = Turned(s, x, rest)
    <3>1. PICK turn, list : turn = h[k] /\ Spliced(list, s, x, rest)
      BY DEF Spliced
    <3>2. turn = [list |-> list, it |-> Len(s) + 1]
      BY ONLY <2>4, <3>1 DEF Spliced
    <3> HIDE DEF h
    <3>3. FilterStep(turn) = Turned(s, x, rest)
      BY <3>1, <3>2, TurnStep
    <3> QED BY <3>1, <3>3
  <2>6. /\ k + 1 \in 0 .. N /\ k + 1 \in 1 .. N /\ (k + 1) + 1 = k + 2 /\ (k + 1) - 1 = k
        /\ k + 1 = N <=> Len(rest) = 0
    BY <1>2, <2>1
  <2>7. K[k + 1] = IF x.inside THEN Append(s, x) ELSE s
    BY <1>1, <2>1, <2>6
  <2>8. h[k + 1] = [list |-> K[k + 1] \o rest,
                    it   |-> IF Len(rest) = 0 THEN 0 ELSE Len(K[k + 1]) + 1]
    BY <2>1, <2>6
  <2> HIDE DEF h
  <2> USE DEF Turned
  <2>9. CASE x.inside
    <3>1. Len(Append(s, x)) + 1 = Len(s) + 2
      BY <2>1
    <3> QED BY <2>5, <2>7, <2>8, <2>9, <3>1
  <2>10. CASE ~x.inside
    BY <2>5, <2>7, <2>8, <2>10
  <2> QED BY <2>9, <2>10
<1>4. h[0] = [list |-> changes, it |-> NextOf(changes, 0)]
  <2>1. 0 \in 0 .. N /\ SubSeq(changes, 1, N) = changes /\ 0 + 1 = 1
    BY <1>2
  <2>2. <<>> \o changes = changes /\ Len(<<>>) = 0
    OBVIOUS
  <2>3. NextOf(changes, 0) = IF 0 = N THEN 0 ELSE 1
    BY <1>2 DEF NextOf
  <2> QED BY <1>1, <2>1, <2>2, <2>3
<1> HIDE DEF h
<1>5. h = Def(h)
  <2>1. h = [k \in 0 .. N |-> h[k]]
    BY DEF h
  <2>2. ASSUME NEW k \in 0 .. N
        PROVE  h[k] = IF k = 0 THEN [list |-> changes, it |-> NextOf(changes, 0)]
                      ELSE FilterStep(h[k - 1])
    <3>1. CASE k = 0
      BY <1>4, <3>1
    <3>2. CASE k # 0
      <4>1. k - 1 \in 0 .. N - 1 /\ (k - 1) + 1 = k
        BY <1>2, <3>2
      <4>2. h[(k - 1) + 1] = FilterStep(h[k - 1])
        BY <1>3, <4>1
      <4> QED BY <3>2, <4>1, <4>2
    <3> QED BY <3>1, <3>2
  <2> QED BY <2>1, <2>2, Zenon
<1>6. PICK t : t = Turn(changes) /\ t = Def(t)
  BY <1>5 DEF Turn
<1>7. \A k \in 0 .. N : t[k] = h[k]
  <2> DEFINE S == {k \in 0 .. N : t[k] = h[k]}
  <2>1. 0 \in S
    <3>1. 0 \in 0 .. N
      BY <1>2
    <3>2. t[0] = [list |-> changes, it |-> NextOf(changes, 0)]
      BY <1>6, <3>1
    <3> QED BY <1>4, <3>1, <3>2
  <2>2. ASSUME NEW k \in 0 .. N - 1, k \in S PROVE k + 1 \in S
    <3>1. k + 1 \in 0 .. N /\ k + 1 # 0 /\ (k + 1) - 1 = k
      BY <1>2
    <3>2. t[k + 1] = FilterStep(t[(k + 1) - 1])
      BY <1>6, <3>1
    <3> QED BY <1>3, <2>2, <3>1, <3>2
  <2> HIDE DEF S
  <2>3. \A k \in 0 .. N : k \in S
    BY <1>2, <2>1, <2>2, InductiveUpTo
  <2> QED BY <2>3 DEF S
<1>8. AreaFilter(changes) = t[N].list
  BY <1>6 DEF AreaFilter, Turn
<1>9. h[N].list = K[N]
  <2>1. N \in 0 .. N /\ SubSeq(changes, N + 1, N) = <<>> /\ K[N] \in Seq(T)
    BY <1>1, <1>2
  <2>2. K[N] \o <<>> = K[N]
    BY <2>1
  <2> QED BY <2>1, <2>2 DEF h
<1>10. N \in 0 .. N
  BY <1>2
<1> QED BY <1>1, <1>7, <1>8, <1>9, <1>10 DEF KeepsInside

-----------------------------------------------------------------------------
(* The invariant, one lemma for each action.                               *)

LEMMA InitInv == Init => IInv
<1> SUFFICES ASSUME Init PROVE IInv
  OBVIOUS
<1> USE DEF Init
<1>1. Shape
  <2>1. closest.url = NoUrl /\ lastStatus \in Statuses /\ pc \in PcValues /\ remote \in Files
    BY FilesAreNat DEF PcValues, Statuses
  <2>2. /\ jobs \in Seq(Files) /\ ended \subseteq DOMAIN jobs /\ tasks \in Seq(Results)
        /\ db \in Seq(Seq(Nat \cup {NoUrl}))
    OBVIOUS
  <2>3. fate \in [Files -> Ends \cup {"unseen"}] /\ lost \subseteq Files
    OBVIOUS
  <2> QED
    BY <2>1, <2>2, <2>3 DEF Shape
<1>2. JobsInv /\ TasksInv
  BY <1>1, WidthFacts DEF JobsInv, TasksInv
<1>3. SeenInv /\ AccountInv /\ CleanInv
  BY DEF SeenInv, AccountInv, CleanInv
<1> QED
  BY <1>1, <1>2, <1>3 DEF IInv

\* Steps that leave the files, the round and what is known of them alone.
LEMMA Aside ==
  ASSUME IInv,
         UNCHANGED <<remote, lastStatus, closest, caughtUp, cores, jobs, ended, tasks,
                     db, fate, lost, mixed, caughtUpAt>>,
         \/ pc' = pc
         \/ pc' = "crashed"
         \/ pc = "connect" /\ pc' = "round"
         \/ /\ pc = "round" /\ pc' = "post"
            /\ MustAdvance => remote + Width <= MaxSeq
  PROVE  IInv'
<1>1. /\ Width' = Width /\ MustAdvance' = MustAdvance
      /\ \A s : Settled(s)' <=> Settled(s)
  BY DEF Width, MustAdvance, Settled
<1>2. Shape /\ Shape' /\ Width \in Nat
  BY WidthFacts DEF IInv, Shape, PcValues
<1>3. JobsInv'
  <2>1. JobsInv /\ Len(jobs) \in Nat /\ remote \in Nat
    BY <1>2, WidthFacts DEF IInv
  <2>2. pc' \in {"connect", "round"} => jobs = <<>> /\ tasks = <<>> /\ ended = {}
    BY <2>1 DEF JobsInv
  <2>3. pc' = "closest" => Len(jobs) = Width /\ ended = DOMAIN jobs
    BY <2>1 DEF JobsInv
  <2>4. pc' = "post" /\ MustAdvance => remote + (Width - Len(jobs)) <= MaxSeq
    <3>1. CASE pc = "post"
      BY <2>1, <3>1 DEF JobsInv
    <3>2. CASE pc = "round"
      <4>1. Len(jobs) = 0
        BY <2>1, <3>2 DEF JobsInv
      <4> QED
        BY <1>2, <3>2, <4>1
    <3> QED
      BY <3>1, <3>2
  <2> QED
    BY <1>1, <2>1, <2>2, <2>3, <2>4 DEF JobsInv
<1>4. TasksInv'
  BY DEF IInv, TasksInv
<1>5. SeenInv'
  BY DEF IInv, SeenInv, Pending, JobsInv
<1>6. AccountInv'
  BY <1>1 DEF IInv, AccountInv, InRound, JobsInv
<1>7. CleanInv'
  BY DEF IInv, CleanInv
<1> QED
  BY <1>2, <1>3, <1>4, <1>5, <1>6, <1>7 DEF IInv

LEMMA PostInv ==
  ASSUME IInv, PostTask
  PROVE  /\ IInv'
         /\ jobs' \in Seq(Files) /\ Len(jobs') = Len(jobs) + 1 /\ remote' \in Files
<1>0. Shape /\ JobsInv /\ TasksInv /\ SeenInv /\ AccountInv /\ CleanInv
  BY DEF IInv
<1>1. /\ pc = "post" /\ Len(jobs) < Width /\ jobs' = Append(jobs, remote')
      /\ remote' = IF MustAdvance THEN remote + 1 ELSE remote
      /\ UNCHANGED <<pc, lastStatus, closest, caughtUp, cores, ended, tasks, db, fate, lost,
                     mixed, caughtUpAt>>
  BY DEF PostTask, history
<1>w. /\ Width \in Nat /\ Width' = Width /\ MustAdvance' = MustAdvance
      /\ caughtUp => Width = 1
      /\ remote \in Nat /\ Start <= remote /\ remote <= MaxSeq /\ Len(jobs) \in Nat
      /\ Start \in Nat /\ MaxSeq \in Nat
  BY <1>0, <1>1, WidthFacts, FilesAreNat DEF Width, MustAdvance
<1>2. remote' \in Files /\ remote' \in Nat /\ remote <= remote' /\ remote' <= remote + 1
  BY <1>0, <1>1, <1>w DEF JobsInv, Files
<1>3. /\ jobs' \in Seq(Files) /\ Len(jobs') = Len(jobs) + 1
      /\ DOMAIN jobs' = 1 .. Len(jobs) + 1 /\ DOMAIN jobs = 1 .. Len(jobs)
      /\ \A k \in DOMAIN jobs : jobs'[k] = jobs[k]
      /\ jobs'[Len(jobs) + 1] = remote'
      /\ jobs' # <<>>
  <2>1. jobs \in Seq(Files)
    BY <1>0 DEF Shape
  <2> QED
    BY <1>1, <1>2, <2>1
<1>4. Shape'
  BY <1>0, <1>1, <1>2, <1>3 DEF Shape
<1>5. JobsInv'
  <2>1. ASSUME NEW k \in DOMAIN jobs'
        PROVE  jobs'[k] = IF MustAdvance' THEN remote' - Len(jobs') + k ELSE remote'
    <3>1. CASE k = Len(jobs) + 1
      BY <1>2, <1>3, <1>w, <3>1
    <3>2. CASE k # Len(jobs) + 1
      <4>1. k \in DOMAIN jobs /\ k \in Nat
        BY <1>3, <1>w, <3>2
      <4>2. jobs[k] = IF MustAdvance THEN remote - Len(jobs) + k ELSE remote
        BY <1>0, <4>1 DEF JobsInv
      <4> QED
        BY <1>1, <1>3, <1>w, <4>1, <4>2
    <3> QED
      BY <3>1, <3>2
  <2>2. /\ Len(jobs') <= Width'
        /\ MustAdvance' => remote' + (Width' - Len(jobs')) <= MaxSeq
    BY <1>0, <1>1, <1>3, <1>w DEF JobsInv
  <2>3. /\ lastStatus' = "none" => remote' = Start /\ ~caughtUp'
        /\ closest'.url # NoUrl => closest'.url <= remote'
    <3>1. closest.url # NoUrl => closest.url \in Nat
      BY <1>0, FilesAreNat DEF Shape
    <3> QED
      BY <1>0, <1>1, <1>2, <1>w, <3>1 DEF JobsInv, MustAdvance
  <2> QED
    BY <1>1, <2>1, <2>2, <2>3 DEF JobsInv
<1>6. TasksInv'
  <2>1. \A j \in ended : jobs'[j] = jobs[j]
    BY <1>0, <1>3 DEF Shape
  <2>2. caughtUp => jobs = <<>> /\ tasks = <<>>
    <3>1. caughtUp => Len(jobs) = 0 /\ DOMAIN jobs = {}
      BY <1>1, <1>3, <1>w
    <3>2. jobs \in Seq(Files)
      BY <1>0 DEF Shape
    <3> QED
      BY <1>0, <3>1, <3>2 DEF Shape, TasksInv
  <2>3. ASSUME NEW k \in DOMAIN tasks
        PROVE  /\ \E j \in ended, end \in Ends : tasks[k] = TaskOf(jobs'[j], end)
               /\ ~caughtUp
    BY <1>0, <2>1, <2>2, <2>3 DEF TasksInv
  <2>4. ended = {} => tasks = <<>>
    BY <1>0 DEF TasksInv
  <2> QED
    BY <1>1, <2>3, <2>4 DEF TasksInv
<1>7. SeenInv'
  <2> SUFFICES ASSUME NEW t \in Start .. remote'
               PROVE  fate'[t] # "unseen" \/ Pending(t)'
    BY DEF SeenInv
  <2>1. CASE t = remote'
    <3>1. Len(jobs) + 1 \in DOMAIN jobs' \ ended
      BY <1>0, <1>3, <1>w DEF Shape
    <3> QED
      BY <1>1, <1>3, <2>1, <3>1 DEF Pending
  <2>2. CASE t # remote'
    <3>1. t \in Start .. remote /\ (lastStatus # "none" \/ jobs # <<>>)
      BY <1>0, <1>1, <1>2, <1>w, <2>2 DEF JobsInv, MustAdvance
    <3>2. fate[t] # "unseen" \/ Pending(t)
      BY <1>0, <1>1, <3>1 DEF SeenInv
    <3>3. Pending(t) => Pending(t)'
      BY <1>1, <1>3 DEF Pending
    <3> QED
      BY <1>1, <3>2, <3>3
  <2> QED
    BY <2>1, <2>2
<1>8. AccountInv'
  BY <1>0, <1>1 DEF AccountInv, InRound, Settled
<1>9. CleanInv'
  <2> SUFFICES ASSUME caughtUp, NEW t \in caughtUpAt.at + 1 .. remote', fate[t] = "ok"
               PROVE  t \notin mixed \/ (jobs' # <<>> /\ ended' = {} /\ t = remote')
    BY <1>0, <1>1 DEF CleanInv
  <2>1. jobs = <<>> /\ ended = {}
    <3>1. Len(jobs) = 0 /\ DOMAIN jobs = {}
      BY <1>1, <1>3, <1>w
    <3>2. jobs \in Seq(Files)
      BY <1>0 DEF Shape
    <3> QED
      BY <1>0, <3>1, <3>2 DEF Shape
  <2>2. CASE t = remote'
    BY <1>1, <1>3, <2>1, <2>2
  <2>3. CASE t # remote'
    <3>1. caughtUpAt.at \in Nat
      BY <1>0, FilesAreNat DEF CleanInv
    <3>2. t \in caughtUpAt.at + 1 .. remote
      BY <1>2, <1>w, <2>3, <3>1
    <3> QED
      BY <1>0, <2>1, <3>2 DEF CleanInv
  <2> QED
    BY <2>2, <2>3
<1> QED
  BY <1>2, <1>3, <1>4, <1>5, <1>6, <1>7, <1>8, <1>9 DEF IInv

\* What a worker does, as the lemmas below need it.
LEMMA ThreadFacts ==
  ASSUME IInv, NEW k \in DOMAIN jobs, ThreadChangeSet(k)
  PROVE  \E f \in Files, end \in Ends :
           /\ f = jobs[k] /\ pc = "post" /\ k \notin ended
           /\ tasks' = Append(tasks, TaskOf(f, end))
           /\ fate' = [fate EXCEPT ![f] = end]
           /\ ended' = ended \cup {k}
           /\ end = "ok" /\ Len(jobs) <= 1 => f \notin mixed'
           /\ \A s : s # f => (s \in mixed' <=> s \in mixed)
           /\ UNCHANGED <<feed, monitor, jobs, db, lost, caughtUpAt>>
<1>1. PICK end \in Downloads(jobs[k]), mixes \in BOOLEAN :
        /\ mixes => end = "ok" /\ MayMix(k)
        /\ tasks' = PushBack(TaskOf(jobs[k], end))
        /\ fate' = [fate EXCEPT ![jobs[k]] = end]
        /\ mixed' = IF mixes THEN mixed \cup {jobs[k]}
                    ELSE IF end = "ok" THEN mixed \ {jobs[k]} ELSE mixed
  BY DEF ThreadChangeSet
<1>2. end \in Ends
  BY DEF Downloads, Ends
<1>3. Len(jobs) \in Nat /\ jobs \in Seq(Files)
  BY WidthFacts DEF IInv, Shape
<1>4. jobs[k] \in Files
  BY <1>3
<1>5. mixes => Len(jobs) > 1
  BY <1>1 DEF MayMix
<1>6. PICK f \in Files : f = jobs[k]
  BY <1>4
<1>7. end = "ok" /\ Len(jobs) <= 1 => f \notin mixed'
  BY <1>1, <1>3, <1>5, <1>6
<1>8. \A s : s # f => (s \in mixed' <=> s \in mixed)
  BY <1>1, <1>6
<1> QED
  BY <1>1, <1>2, <1>6, <1>7, <1>8 DEF ThreadChangeSet, PushBack

LEMMA ThreadInv ==
  ASSUME IInv, NEW k \in DOMAIN jobs, ThreadChangeSet(k)
  PROVE  IInv'
<1>0. Shape /\ JobsInv /\ TasksInv /\ SeenInv /\ AccountInv /\ CleanInv
  BY DEF IInv
<1>1. PICK f \in Files, end \in Ends :
        /\ f = jobs[k] /\ pc = "post" /\ k \notin ended
        /\ tasks' = Append(tasks, TaskOf(f, end))
        /\ fate' = [fate EXCEPT ![f] = end]
        /\ ended' = ended \cup {k}
        /\ end = "ok" /\ Len(jobs) <= 1 => f \notin mixed'
        /\ \A s : s # f => (s \in mixed' <=> s \in mixed)
        /\ UNCHANGED <<feed, monitor, jobs, db, lost, caughtUpAt>>
  BY ThreadFacts
<1>2. /\ UNCHANGED <<pc, remote, lastStatus, closest, caughtUp, cores, jobs, db, lost,
                    caughtUpAt>>
      /\ Width' = Width /\ MustAdvance' = MustAdvance
  BY <1>1 DEF monitor, Width, MustAdvance
<1>w. /\ Width \in Nat
      /\ caughtUp => Width = 1
      /\ remote \in Nat /\ Len(jobs) \in Nat /\ DOMAIN jobs = 1 .. Len(jobs)
      /\ Len(jobs) <= Width
  BY <1>0, WidthFacts DEF JobsInv
<1>3. PICK task \in Results : task = TaskOf(f, end)
  BY DEF Results
<1>4. /\ tasks' \in Seq(Results) /\ Len(tasks') = Len(tasks) + 1 /\ Len(tasks) \in Nat
      /\ DOMAIN tasks' = 1 .. Len(tasks) + 1 /\ DOMAIN tasks = 1 .. Len(tasks)
      /\ \A l \in DOMAIN tasks : tasks'[l] = tasks[l]
      /\ tasks'[Len(tasks) + 1] = task
  <2>1. tasks \in Seq(Results) /\ tasks' = Append(tasks, task)
    BY <1>0, <1>1, <1>3 DEF Shape
  <2> QED
    BY <2>1
<1>5. /\ fate' \in [Files -> Ends \cup {"unseen"}]
      /\ fate'[f] = end
      /\ \A s \in Files : s # f => fate'[s] = fate[s]
  BY <1>0, <1>1 DEF Shape
<1>6. Shape'
  BY <1>0, <1>1, <1>2, <1>4, <1>5 DEF Shape
<1>7. JobsInv'
  <2>1. pc = "post"
    BY <1>1
  <2> QED
    BY <1>0, <1>2, <2>1 DEF JobsInv
<1>8. caughtUp => Len(jobs) = 1 /\ k = 1 /\ ended = {} /\ tasks = <<>> /\ f = remote
  <2> SUFFICES ASSUME caughtUp
               PROVE  Len(jobs) = 1 /\ k = 1 /\ ended = {} /\ tasks = <<>> /\ f = remote
    OBVIOUS
  <2>1. Len(jobs) = 1 /\ k = 1 /\ DOMAIN jobs = {1}
    <3>1. k \in 1 .. Len(jobs) /\ Len(jobs) <= 1
      BY <1>w
    <3>2. Len(jobs) = 1 /\ k = 1
      BY <1>w, <3>1
    <3> QED
      BY <1>w, <3>2
  <2>2. ended = {}
    BY <1>0, <1>1, <2>1 DEF Shape
  <2>3. jobs[k] = IF MustAdvance THEN remote - Len(jobs) + k ELSE remote
    BY <1>0 DEF JobsInv
  <2>4. f = remote
    BY <1>1, <1>w, <2>1, <2>3
  <2> QED
    BY <1>0, <2>1, <2>2, <2>4 DEF TasksInv
<1>9. TasksInv'
  <2>1. ASSUME NEW l \in DOMAIN tasks'
        PROVE  \E j \in ended', e \in Ends : tasks'[l] = TaskOf(jobs[j], e)
    <3>1. CASE l = Len(tasks) + 1
      BY <1>1, <1>3, <1>4, <3>1
    <3>2. CASE l # Len(tasks) + 1
      <4>1. l \in DOMAIN tasks /\ tasks'[l] = tasks[l]
        BY <1>4, <3>2
      <4> QED
        BY <1>0, <1>1, <4>1 DEF TasksInv
    <3> QED
      BY <3>1, <3>2
  <2>2. ASSUME NEW l \in DOMAIN tasks', caughtUp
        PROVE  tasks'[l] = TaskOf(remote, fate'[remote])
    <3>1. l = Len(tasks) + 1
      <4>1. Len(tasks) = 0
        BY <1>8, <2>2
      <4> QED
        BY <1>4, <4>1
    <3> QED
      BY <1>3, <1>4, <1>5, <1>8, <2>2, <3>1
  <2>3. ended' # {}
    BY <1>1
  <2> QED
    BY <1>2, <2>1, <2>2, <2>3 DEF TasksInv
<1>10. SeenInv'
  <2> SUFFICES ASSUME NEW t \in Start .. remote,
                      lastStatus # "none" \/ jobs # <<>>
               PROVE  fate'[t] # "unseen" \/ Pending(t)'
    BY <1>2 DEF SeenInv
  <2>1. fate[t] # "unseen" \/ Pending(t)
    BY <1>0, <1>1 DEF SeenInv
  <2>2. t \in Files
    BY <1>0, <1>w, FilesAreNat DEF Shape, Files
  <2>3. CASE t = f
    BY <1>5, <2>3 DEF Ends
  <2>4. CASE t # f
    BY <1>1, <1>2, <1>5, <2>1, <2>2, <2>4 DEF Pending
  <2> QED
    BY <2>3, <2>4
<1>11. AccountInv'
  <2> SUFFICES ASSUME NEW s \in Files, fate'[s] = "ok", Mentions[s] # {}
               PROVE  Settled(s)' \/ InRound(s)'
    BY DEF AccountInv
  <2>1. CASE s = f
    <3>1. end = "ok"
      BY <1>5, <2>1
    <3>2. task.url = s /\ task.query # {}
      BY <1>3, <2>1, <3>1, TaskOfFacts
    <3>3. Len(tasks) + 1 \in DOMAIN tasks'
      BY <1>4
    <3> QED
      BY <1>1, <1>2, <1>4, <3>2, <3>3 DEF InRound
  <2>2. CASE s # f
    <3>1. Settled(s) \/ InRound(s)
      BY <1>0, <1>5, <2>2 DEF AccountInv
    <3>2. Settled(s) => Settled(s)'
      BY <1>2 DEF Settled
    <3>3. InRound(s) => InRound(s)'
      BY <1>2, <1>4 DEF InRound
    <3> QED
      BY <3>1, <3>2, <3>3
  <2> QED
    BY <2>1, <2>2
<1>12. CleanInv'
  <2> SUFFICES ASSUME caughtUp, NEW s \in caughtUpAt.at + 1 .. remote, fate'[s] = "ok"
               PROVE  s \notin mixed'
    BY <1>0, <1>2 DEF CleanInv
  <2>1. s \in Files
    <3>1. caughtUpAt.at \in Files
      BY <1>0 DEF CleanInv
    <3> QED
      BY <1>0, <1>w, <3>1, FilesAreNat DEF Shape, Files
  <2>2. CASE s = f
    <3>1. end = "ok"
      BY <1>5, <2>2
    <3>2. Len(jobs) <= 1
      <4>1. Len(jobs) = 1
        BY <1>8, Zenon
      <4> QED
        BY <4>1
    <3>3. f \notin mixed'
      BY <1>1, <3>1, <3>2
    <3> QED
      BY <2>2, <3>3
  <2>3. CASE s # f
    <3>1. fate[s] = "ok"
      BY <1>5, <2>1, <2>3
    <3>2. s \notin mixed
      BY <1>0, <1>8, <2>3, <3>1 DEF CleanInv
    <3> QED
      BY <1>1, <2>3, <3>2
  <2> QED
    BY <2>2, <2>3
<1> QED
  BY <1>6, <1>7, <1>9, <1>10, <1>11, <1>12 DEF IInv

LEMMA JoinInv ==
  ASSUME IInv, JoinAndQuery
  PROVE  IInv'
<1>0. Shape /\ JobsInv /\ TasksInv /\ SeenInv /\ AccountInv /\ CleanInv
  BY DEF IInv
<1>1. /\ pc = "post" /\ pc' = "closest" /\ Len(jobs) = Width /\ ended = DOMAIN jobs
      /\ UNCHANGED <<remote, lastStatus, closest, caughtUp, cores, jobs, ended, tasks,
                     fate, mixed, caughtUpAt>>
  BY DEF JoinAndQuery, pool
<1>2. /\ Width' = Width /\ MustAdvance' = MustAdvance
  BY <1>1 DEF Width, MustAdvance
<1>b. /\ Batch \in Seq(Nat \cup {NoUrl})
      /\ \A s : s \in FilesOf(Batch) <=>
           \E k \in DOMAIN tasks : tasks[k].url = s /\ tasks[k].query # {}
  BY <1>0, BatchFacts
<1>f. FilesOf(Batch) \subseteq Files
  <2> SUFFICES ASSUME NEW k \in DOMAIN tasks PROVE tasks[k].url \in Files
    BY <1>b
  <2>1. PICK s \in Files, end \in Ends : tasks[k] = TaskOf(s, end)
    BY <1>0 DEF Shape, Results
  <2> QED
    BY <2>1, TaskOfFacts
<1>q. \/ FilesOf(Batch) = {} /\ UNCHANGED <<db, lost>>
      \/ db' = Append(db, Batch) /\ UNCHANGED lost
      \/ lost' = lost \cup FilesOf(Batch) /\ UNCHANGED db
  BY DEF JoinAndQuery
<1>3. /\ \A s : s \in FilesOf(Batch) \/ Settled(s) => Settled(s)'
      /\ db' \in Seq(Seq(Nat \cup {NoUrl})) /\ lost' \subseteq Files
  <2>1. db \in Seq(Seq(Nat \cup {NoUrl})) /\ lost \subseteq Files
    BY <1>0 DEF Shape
  <2>2. CASE FilesOf(Batch) = {} /\ UNCHANGED <<db, lost>>
    BY <2>1, <2>2 DEF Settled
  <2>3. CASE db' = Append(db, Batch) /\ UNCHANGED lost
    <3>1. Committed(Append(db, Batch)) = Committed(db) \cup FilesOf(Batch)
      BY <1>b, <2>1, CommittedAppend
    <3>2. Append(db, Batch) \in Seq(Seq(Nat \cup {NoUrl}))
      BY <1>b, <2>1
    <3> QED
      BY <2>1, <2>3, <3>1, <3>2 DEF Settled
  <2>4. CASE lost' = lost \cup FilesOf(Batch) /\ UNCHANGED db
    BY <1>f, <2>1, <2>4 DEF Settled
  <2> QED
    BY <1>q, <2>2, <2>3, <2>4
<1>5. Shape'
  BY <1>0, <1>1, <1>3 DEF Shape, PcValues
<1>6. JobsInv'
  BY <1>0, <1>1, <1>2 DEF JobsInv
<1>7. TasksInv'
  BY <1>0, <1>1 DEF TasksInv
<1>8. SeenInv'
  BY <1>0, <1>1 DEF SeenInv, Pending
<1>9. AccountInv'
  <2> SUFFICES ASSUME NEW s \in Files, fate[s] = "ok", Mentions[s] # {} PROVE Settled(s)'
    BY <1>1 DEF AccountInv
  <2>1. Settled(s) \/ InRound(s)
    BY <1>0 DEF AccountInv
  <2> QED
    BY <1>b, <1>3, <2>1 DEF InRound
<1>10. CleanInv'
  BY <1>0, <1>1 DEF CleanInv
<1> QED
  BY <1>5, <1>6, <1>7, <1>8, <1>9, <1>10 DEF IInv

\* What the end of a round does, as the lemmas below need it.
LEMMA UpdateFacts ==
  ASSUME IInv, UpdatePosition
  PROVE  /\ pc = "closest" /\ pc' \in {"round", "stopped", "crashed"}
         /\ jobs' = <<>> /\ ended' = {} /\ tasks' = <<>>
         /\ UNCHANGED <<feed, db, fate, lost, mixed>>
         /\ \E k \in DOMAIN tasks : lastStatus' = tasks[k].status
         /\ lastStatus' \in Statuses /\ lastStatus' # "none"
         /\ closest'.url \in Files \cup {NoUrl}
         /\ closest'.url # NoUrl => closest'.url <= remote
         /\ \/ UNCHANGED <<remote, caughtUp, cores, caughtUpAt>>
            \/ /\ ~caughtUp /\ caughtUp' = TRUE /\ cores' = 1
               /\ closest'.url # NoUrl /\ remote' = closest'.url
               /\ caughtUpAt'.at = closest'.url
<1>0. Shape /\ JobsInv /\ TasksInv
  BY DEF IInv
<1>1. PICK k \in DOMAIN tasks :
        lastStatus' = tasks[k].status /\ closest' = Remember(tasks[k])
  BY DEF UpdatePosition
<1>2. PICK j \in DOMAIN jobs, end \in Ends : tasks[k] = TaskOf(jobs[j], end)
  BY <1>0 DEF TasksInv, Shape
<1>3. jobs[j] \in Files /\ jobs[j] <= remote
  <2>1. jobs[j] = IF MustAdvance THEN remote - Len(jobs) + j ELSE remote
    BY <1>0 DEF JobsInv
  <2>2. j \in 1 .. Len(jobs) /\ remote \in Nat /\ Len(jobs) \in Nat
    BY <1>0, WidthFacts
  <2>3. jobs[j] <= remote
    BY <2>1, <2>2
  <2> QED
    BY <1>0, <2>2, <2>3 DEF Shape
<1>4. tasks[k].url = jobs[j] /\ tasks[k].status \in Statuses /\ tasks[k].status # "none"
  BY <1>2, <1>3, TaskOfFacts
<1>5. closest'.url = tasks[k].url \/ closest' = closest
  BY <1>1 DEF Remember
<1>6. /\ closest'.url \in Files \cup {NoUrl}
      /\ closest'.url # NoUrl => closest'.url <= remote
  BY <1>0, <1>3, <1>4, <1>5 DEF Shape, JobsInv
<1>7. \/ UNCHANGED <<remote, caughtUp, cores, caughtUpAt>>
      \/ /\ ~caughtUp /\ caughtUp' = TRUE /\ cores' = 1
         /\ closest'.url # NoUrl /\ remote' = closest'.url
         /\ caughtUpAt'.at = closest'.url
  BY DEF UpdatePosition, RewindTo, CoresOnceCaughtUp
<1>8. pc = "closest" /\ pc' \in {"round", "stopped", "crashed"}
  BY DEF UpdatePosition
<1> QED
  BY <1>1, <1>4, <1>6, <1>7, <1>8 DEF UpdatePosition

LEMMA UpdateInv ==
  ASSUME IInv, UpdatePosition
  PROVE  IInv'
<1>0. Shape /\ JobsInv /\ TasksInv /\ SeenInv /\ AccountInv /\ CleanInv
  BY DEF IInv
<1> DEFINE Keep == UNCHANGED <<remote, caughtUp, cores, caughtUpAt>>
           Switch ==
             /\ ~caughtUp /\ caughtUp' = TRUE /\ cores' = 1
             /\ closest'.url # NoUrl /\ remote' = closest'.url
             /\ caughtUpAt'.at = closest'.url
<1>1. /\ pc = "closest" /\ pc' \in {"round", "stopped", "crashed"}
      /\ jobs' = <<>> /\ ended' = {} /\ tasks' = <<>>
      /\ UNCHANGED <<db, fate, lost, mixed>>
      /\ lastStatus' \in Statuses /\ lastStatus' # "none"
      /\ closest'.url \in Files \cup {NoUrl}
      /\ closest'.url # NoUrl => closest'.url <= remote
      /\ Keep \/ Switch
  BY UpdateFacts
<1>2. remote \in Nat /\ remote' \in Files /\ remote' \in Nat /\ remote' <= remote
  <2>1. remote \in Files /\ remote \in Nat
    BY <1>0, WidthFacts DEF Shape
  <2>2. CASE Keep
    BY <2>1, <2>2
  <2>3. CASE Switch
    <3>1. closest'.url \in Files /\ closest'.url <= remote /\ remote' = closest'.url
      BY <1>1, <2>3
    <3>2. remote' \in Files
      BY <3>1
    <3> QED
      BY <2>1, <3>1, <3>2, FilesAreNat
  <2> QED
    BY <1>1, <2>2, <2>3
<1>3. /\ Len(jobs) = Width /\ Width \in Nat \ {0} /\ ended = DOMAIN jobs
      /\ DOMAIN jobs = 1 .. Len(jobs)
  BY <1>0, <1>1, WidthFacts DEF JobsInv
<1>4. jobs # <<>> /\ ended # {}
  <2>1. 1 \in DOMAIN jobs
    BY <1>3
  <2> QED
    BY <1>3, <2>1
<1>5. Shape'
  <2>1. cores' = IF caughtUp' THEN 1 ELSE Cores
    BY <1>0, <1>1 DEF Shape
  <2>2. caughtUp' \in BOOLEAN
    BY <1>0, <1>1 DEF Shape
  <2>3. pc' \in PcValues
    BY <1>1 DEF PcValues
  <2>4. jobs' \in Seq(Files) /\ ended' \subseteq DOMAIN jobs' /\ tasks' \in Seq(Results)
    BY <1>1
  <2> QED
    BY <1>0, <1>1, <1>2, <2>1, <2>2, <2>3, <2>4 DEF Shape
<1>6. JobsInv'
  <2>1. Width' \in Nat
    BY <1>5, CoresAssumption DEF Shape, Width
  <2>2. Len(jobs') = 0 /\ DOMAIN jobs' = {}
    BY <1>1
  <2>3. closest'.url # NoUrl => closest'.url <= remote'
    BY <1>1, <1>2
  <2>4. pc' \notin {"closest", "post"}
    BY <1>1
  <2> QED
    BY <1>1, <2>1, <2>2, <2>3, <2>4 DEF JobsInv
<1>7. TasksInv'
  BY <1>1 DEF TasksInv
<1>8. SeenInv'
  <2> SUFFICES ASSUME NEW t \in Start .. remote' PROVE fate[t] # "unseen"
    BY <1>1 DEF SeenInv
  <2>1. t \in Start .. remote
    BY <1>2, FilesAreNat
  <2> QED
    BY <1>0, <1>1, <1>4, <2>1 DEF SeenInv, Pending
<1>9. AccountInv'
  <2> SUFFICES ASSUME NEW s \in Files, fate[s] = "ok", Mentions[s] # {} PROVE Settled(s)'
    BY <1>1 DEF AccountInv
  <2>1. Settled(s)
    BY <1>0, <1>1 DEF AccountInv, InRound
  <2> QED
    BY <1>1, <2>1 DEF Settled
<1>10. CleanInv'
  <2>1. CASE Keep
    BY <1>0, <1>1, <1>4, <2>1 DEF CleanInv
  <2>2. CASE Switch
    <3>1. caughtUpAt'.at = remote'
      BY <2>2
    <3>2. ASSUME NEW n \in Nat, NEW s \in n + 1 .. n PROVE FALSE
      BY <3>2
    <3>3. caughtUpAt'.at + 1 .. remote' = remote' + 1 .. remote'
      BY <3>1
    <3> QED
      BY <1>2, <3>1, <3>2, <3>3 DEF CleanInv
  <2> QED
    BY <1>1, <2>1, <2>2
<1> QED
  BY <1>5, <1>6, <1>7, <1>8, <1>9, <1>10 DEF IInv

LEMMA StepInv == IInv /\ [Next]_vars => IInv'
<1> SUFFICES ASSUME IInv, [Next]_vars PROVE IInv'
  OBVIOUS
<1>1. CASE Tick \/ Publish \/ UNCHANGED vars
  BY <1>1, Aside DEF Tick, Publish, vars, monitor, pool, history
<1>2. CASE Connect
  BY <1>2, Aside DEF Connect, pool, history
<1>3. CASE BeginRound
  <2>1. MustAdvance => remote + Width <= MaxSeq
    BY <1>3 DEF BeginRound
  <2> QED
    BY <1>3, <2>1, Aside DEF BeginRound, pool, history
<1>4. CASE PostTask
  BY <1>4, PostInv
<1>5. CASE \E k \in DOMAIN jobs : ThreadChangeSet(k)
  BY <1>5, ThreadInv
<1>6. CASE \E k \in DOMAIN jobs : WorkerDies(k)
  BY <1>6, Aside DEF WorkerDies, pool, history
<1>7. CASE JoinAndQuery
  BY <1>7, JoinInv
<1>8. CASE UpdatePosition
  BY <1>8, UpdateInv
<1> QED
  BY <1>1, <1>2, <1>3, <1>4, <1>5, <1>6, <1>7, <1>8 DEF Next

LEMMA Invariance == Spec => []IInv
BY InitInv, StepInv, PTL DEF Spec

\* Once caught up, no changeset of a file that was asked for since has hashtags that
\* another worker's strtok cut out of another file: for every number of cores and feed.
THEOREM CleanTheorem == Spec => []CleanOnceSteady
<1>1. IInv => CleanOnceSteady
  BY DEF IInv, CleanInv, CleanOnceSteady, JobsInv
<1> QED
  BY <1>1, Invariance, PTL

\* After every round every file up to the position was asked for, and what it gave, after
\* the area filter, is in the table or was lost with a transaction: for every number of
\* cores, feed, content of its files and set of faults.
THEOREM Accounted == Spec => []EveryFileAccounted
<1>1. ASSUME IInv PROVE EveryFileAccounted
  <2> SUFFICES ASSUME pc = "round", lastStatus # "none", NEW s \in Start .. remote
               PROVE  /\ fate[s] # "unseen"
                      /\ fate[s] = "ok" => KeepsInside(Content[s])
                      /\ fate[s] = "ok" /\ Mentions[s] # {} => Written(s) \/ s \in lost
    BY DEF EveryFileAccounted
  <2>1. s \in Files
    BY <1>1, WidthFacts, FilesAreNat DEF IInv, Files
  <2>2. fate[s] # "unseen"
    BY <1>1 DEF IInv, SeenInv, Pending
  <2>3. fate[s] = "ok" /\ Mentions[s] # {} => Written(s) \/ s \in lost
    BY <1>1, <2>1 DEF IInv, AccountInv, InRound, Settled, Written
  <2>4. KeepsInside(Content[s])
    BY <2>1, ContentAssumption, FilterKeeps DEF IsChangesetFile
  <2> QED
    BY <2>2, <2>3, <2>4
<1> QED
  BY <1>1, Invariance, PTL

-----------------------------------------------------------------------------
(* The refinement: the initial state, then one lemma for each action.      *)

LEMMA FollowerFiles == Follower!Files = Files
BY PositionAssumption DEF Follower!Files, Files

LEMMA InitFollows == Init => Follower!Init
<1> SUFFICES ASSUME Init PROVE Follower!Init
  OBVIOUS
<1> USE DEF Init
<1>1. FollowerPhase = "behind" /\ FollowerNext = Start - 1 + 1
  BY PositionAssumption DEF FollowerPhase, FollowerNext, MustAdvance
<1>2. [s \in Files |-> AnswerOf(fate[s])] = [s \in Follower!Files |-> "unasked"]
  BY FollowerFiles DEF AnswerOf
<1>3. [st \in {"underpass"} |-> Committed(db)] = [st \in {"underpass"} |-> {}]
  BY DEF Committed
<1> QED BY <1>1, <1>2, <1>3 DEF Follower!Init

\* A step that changes nothing the mapping reads is none of the follower's.
LEMMA Stutters ==
  ASSUME FollowerPhase' = FollowerPhase, FollowerNext' = FollowerNext,
         UNCHANGED <<fate, db, lost>>
  PROVE  UNCHANGED Follower!vars
BY DEF Follower!vars

\* The jobs of a round are in the follower's window.
LEMMA JobsInWindow ==
  ASSUME IInv, pc = "post", NEW k \in DOMAIN jobs
  PROVE  jobs[k] \in Follower!Window
<1>0. Shape /\ JobsInv
  BY DEF IInv
<1>1. /\ remote \in Nat /\ Len(jobs) \in Nat /\ k \in 1 .. Len(jobs)
      /\ Len(jobs) <= Width /\ Width \in Nat \ {0}
      /\ Width = IF caughtUp THEN 1 ELSE 2 * Cores - 1
  BY <1>0, WidthFacts DEF JobsInv
<1>2. jobs[k] \in Files
  BY <1>0 DEF Shape
<1>3. jobs[k] = IF MustAdvance THEN remote - Len(jobs) + k ELSE remote
  BY <1>0 DEF JobsInv
<1>4. FollowerPhase = IF caughtUp THEN "steady" ELSE "behind"
  BY DEF FollowerPhase
<1>5. FollowerNext <= jobs[k] /\ jobs[k] < FollowerNext + Width
  BY <1>1, <1>3 DEF FollowerNext
<1>6. Width = IF FollowerPhase = "steady" THEN 1 ELSE 2 * Cores - 1
  BY <1>1, <1>4
<1> QED BY <1>2, <1>5, <1>6, FollowerFiles DEF Follower!Window

LEMMA PostFollows == IInv /\ PostTask => UNCHANGED Follower!vars
<1> SUFFICES ASSUME IInv, PostTask PROVE UNCHANGED Follower!vars
  OBVIOUS
<1>1. remote \in Nat /\ Len(jobs) \in Nat
  BY WidthFacts DEF IInv
<1>2. Len(jobs') = Len(jobs) + 1 /\ remote' = IF MustAdvance THEN remote + 1 ELSE remote
  BY PostInv DEF PostTask
<1>3. MustAdvance' = MustAdvance
  BY DEF PostTask, MustAdvance
<1>4. FollowerNext' = FollowerNext
  BY <1>1, <1>2, <1>3 DEF FollowerNext
<1>5. FollowerPhase' = FollowerPhase
  BY DEF FollowerPhase, PostTask
<1> QED BY <1>4, <1>5, Stutters DEF PostTask, history

LEMMA ThreadFollows ==
  ASSUME IInv, NEW k \in DOMAIN jobs, ThreadChangeSet(k)
  PROVE  Follower!Next
<1>1. PICK f \in Files, end \in Ends :
        /\ f = jobs[k] /\ pc = "post"
        /\ fate' = [fate EXCEPT ![f] = end]
        /\ UNCHANGED <<feed, monitor, jobs, db, lost, caughtUpAt>>
  BY ThreadFacts
<1>2. f \in Follower!Window
  BY <1>1, JobsInWindow
<1>3. FollowerPhase # "ended"
  BY <1>1 DEF FollowerPhase
<1>4. FollowerPhase' = FollowerPhase /\ FollowerNext' = FollowerNext
  BY <1>1 DEF FollowerPhase, FollowerNext, MustAdvance, monitor
<1>5. AnswerOf(end) \in Follower!Answers \ {"unasked"}
  BY DEF Ends, AnswerOf, Follower!Answers
<1>6. [s \in Files |-> AnswerOf(fate'[s])]
        = [[s \in Files |-> AnswerOf(fate[s])] EXCEPT ![f] = AnswerOf(end)]
  BY <1>1 DEF IInv, Shape
<1>7. Follower!Ask(f)
  BY <1>1, <1>2, <1>3, <1>4, <1>5, <1>6 DEF Follower!Ask
<1> QED BY <1>7, FollowerFiles DEF Follower!Next

\* The files of the batch of a round may be written when it is over.
LEMMA BatchWritable ==
  ASSUME IInv, pc = "post", ended = DOMAIN jobs, NEW f \in FilesOf(Batch)
  PROVE  f \in Follower!Writable
<1>0. Shape /\ JobsInv /\ TasksInv /\ SeenInv
  BY DEF IInv
<1>1. PICK k \in DOMAIN tasks : tasks[k].url = f /\ tasks[k].query # {}
  BY <1>0, BatchFacts
<1>2. PICK j \in DOMAIN jobs, end \in Ends : tasks[k] = TaskOf(jobs[j], end)
  BY <1>0 DEF TasksInv
<1>3. jobs[j] \in Files
  BY <1>0 DEF Shape
<1>4. jobs[j] = f /\ Mentions[f] # {} /\ f \in Files
  BY <1>1, <1>2, <1>3, TaskOfFacts
<1>5. f \in Follower!Window
  BY <1>4, JobsInWindow
<1>6. remote \in Nat /\ remote \in Files /\ f <= remote /\ jobs # <<>>
  <2>1. /\ remote \in Nat /\ remote \in Files /\ Len(jobs) \in Nat
        /\ j \in 1 .. Len(jobs)
    BY <1>0, WidthFacts DEF Shape
  <2>2. jobs[j] = IF MustAdvance THEN remote - Len(jobs) + j ELSE remote
    BY <1>0 DEF JobsInv
  <2>3. f <= remote
    BY <1>4, <2>1, <2>2
  <2> QED
    BY <1>2, <2>1, <2>3
<1>7. fate[f] # "unseen"
  <2>1. f \in Start .. remote
    BY <1>4, <1>6, FilesAreNat
  <2> QED
    BY <1>0, <1>6, <2>1 DEF SeenInv, Pending
<1>8. FollowerPhase = IF caughtUp THEN "steady" ELSE "behind"
  BY DEF FollowerPhase
<1>9. CASE caughtUp
  <2>1. tasks[k] = TaskOf(remote, fate[remote])
    BY <1>0, <1>9 DEF TasksInv
  <2>2. fate[remote] \in Ends
    <3>1. remote \in Start .. remote
      BY <1>6, FilesAreNat
    <3>2. fate[remote] # "unseen"
      BY <1>0, <1>6, <3>1 DEF SeenInv, Pending
    <3> QED
      BY <1>0, <1>6, <3>2 DEF Shape
  <2>3. f = remote /\ fate[remote] = "ok"
    BY <1>1, <1>6, <2>1, <2>2, TaskOfFacts
  <2>4. AnswerOf(fate[f]) = "given"
    BY <2>3 DEF AnswerOf
  <2> QED BY <1>4, <1>5, <2>4 DEF Follower!Writable
<1>10. CASE ~caughtUp
  <2>1. AnswerOf(fate[f]) # "unasked"
    BY <1>7 DEF AnswerOf
  <2> QED BY <1>4, <1>5, <1>8, <1>10, <2>1 DEF Follower!Writable
<1> QED BY <1>9, <1>10

LEMMA JoinFollows ==
  ASSUME IInv, JoinAndQuery
  PROVE  Follower!Next \/ UNCHANGED Follower!vars
<1> DEFINE S == FilesOf(Batch)
           written == [st \in {"underpass"} |-> Committed(db)]
           missed == [st \in {"underpass"} |-> lost]
<1>1. /\ FollowerPhase' = FollowerPhase /\ FollowerPhase # "ended"
      /\ FollowerNext' = FollowerNext
  BY DEF JoinAndQuery, FollowerPhase, FollowerNext, MustAdvance, pool
<1>2. db \in Seq(Seq(Nat \cup {NoUrl})) /\ Batch \in Seq(Nat \cup {NoUrl})
  BY BatchFacts DEF IInv, Shape
<1>3. S \subseteq Follower!Writable
  BY BatchWritable DEF JoinAndQuery
<1>4. UNCHANGED fate
  BY DEF JoinAndQuery
<1>5. CASE S = {} /\ UNCHANGED <<db, lost>>
  BY <1>1, <1>4, <1>5, Stutters
<1>6. CASE S # {} /\ db' = Append(db, Batch) /\ UNCHANGED lost
  <2>1. Committed(Append(db, Batch)) = Committed(db) \cup S
    BY <1>2, CommittedAppend
  <2>2. written' = [written EXCEPT !["underpass"] = @ \cup S]
    BY <1>6, <2>1
  <2>3. Follower!Write("underpass")
    BY <1>1, <1>3, <1>4, <1>6, <2>2 DEF Follower!Write
  <2> QED BY <2>3 DEF Follower!Next
<1>7. CASE S # {} /\ lost' = lost \cup S /\ UNCHANGED db
  <2>1. missed' = [missed EXCEPT !["underpass"] = @ \cup S]
    BY <1>7
  <2>2. Follower!Write("underpass")
    BY <1>1, <1>3, <1>4, <1>7, <2>1 DEF Follower!Write
  <2> QED BY <2>2 DEF Follower!Next
<1> QED BY <1>5, <1>6, <1>7 DEF JoinAndQuery

\* At the end of a round, every file up to the position is done with.
LEMMA DoneUpTo ==
  ASSUME IInv, pc = "closest", NEW n \in Int, n <= remote + 1
  PROVE  Follower!DoneBefore(n)
<1>0. Shape /\ JobsInv /\ SeenInv /\ AccountInv
  BY DEF IInv
<1>1. remote \in Nat /\ Len(jobs) = Width /\ Width \in Nat \ {0}
  BY <1>0, WidthFacts DEF JobsInv
<1> SUFFICES ASSUME NEW s \in Files, s < n
             PROVE  /\ AnswerOf(fate[s]) # "unasked"
                    /\ AnswerOf(fate[s]) = "given" /\ Mentions[s] # {} =>
                         s \in Committed(db) \cup lost
  BY FollowerFiles DEF Follower!DoneBefore
<1>2. s \in Start .. remote
  BY <1>1, FilesAreNat
<1>3. jobs # <<>>
  BY <1>1
<1>4. fate[s] # "unseen"
  BY <1>0, <1>2, <1>3 DEF SeenInv, Pending
<1>5. fate[s] = "ok" /\ Mentions[s] # {} => s \in Committed(db) \cup lost
  BY <1>0 DEF AccountInv, InRound, Settled
<1> QED BY <1>4, <1>5 DEF AnswerOf

LEMMA UpdateFollows == IInv /\ UpdatePosition => Follower!Next
<1> SUFFICES ASSUME IInv, UpdatePosition PROVE Follower!Next
  OBVIOUS
<1>0. Shape /\ JobsInv /\ TasksInv /\ SeenInv
  BY DEF IInv
<1> DEFINE Keep == UNCHANGED <<remote, caughtUp>>
           Switch ==
             /\ ~caughtUp /\ caughtUp' = TRUE
             /\ closest'.url # NoUrl /\ remote' = closest'.url
<1>1. /\ pc = "closest" /\ jobs' = <<>> /\ UNCHANGED <<db, fate, lost>>
      /\ pc' \in {"round", "stopped", "crashed"}
      /\ \E k \in DOMAIN tasks : lastStatus' = tasks[k].status
      /\ closest'.url \in Files \cup {NoUrl}
      /\ closest'.url # NoUrl => closest'.url <= remote
      /\ Keep \/ Switch
  BY UpdateFacts
<1>2. /\ remote \in Nat /\ remote \in Files /\ Len(jobs) = Width /\ Width \in Nat \ {0}
      /\ Width = IF caughtUp THEN 1 ELSE 2 * Cores - 1
      /\ Cores \in Nat \ {0} /\ Start \in Nat
  BY <1>0, <1>1, WidthFacts, FilesAreNat DEF JobsInv, Shape
<1>3. /\ remote' \in Files /\ remote' \in Nat /\ remote' <= remote /\ Start <= remote'
  <2>1. CASE Keep
    BY <1>2, <2>1, FilesAreNat
  <2>2. CASE Switch
    <3>1. closest'.url \in Files /\ closest'.url <= remote /\ remote' = closest'.url
      BY <1>1, <2>2
    <3> QED
      BY <3>1, FilesAreNat
  <2> QED
    BY <1>1, <2>1, <2>2
<1>4. /\ FollowerNext \in Int /\ FollowerNext <= remote
      /\ remote + 1 <= FollowerNext + Width
      /\ caughtUp => FollowerNext = remote
  BY <1>2 DEF FollowerNext
<1>5. FollowerNext' = IF MustAdvance' THEN remote' + 1 ELSE remote'
  <2>1. Len(jobs') = 0
    BY <1>1
  <2>2. FollowerNext' = IF MustAdvance' THEN remote' - Len(jobs') + 1 ELSE remote'
    BY DEF FollowerNext
  <2>3. remote' - 0 + 1 = remote' + 1
    BY <1>3
  <2> QED BY <2>1, <2>2, <2>3
<1>6. FollowerPhase' \in {IF caughtUp' THEN "steady" ELSE "behind", "ended"}
  BY <1>1 DEF FollowerPhase
<1>7. FollowerPhase = IF caughtUp THEN "steady" ELSE "behind"
  BY <1>1 DEF FollowerPhase
<1>8. ASSUME NEW n \in Int, n <= remote + 1, FollowerNext' = n,
             NEW p, FollowerPhase' \in {p, "ended"}
      PROVE  Follower!GoTo(n, p)
  <2>1. Follower!DoneBefore(n)
    BY <1>1, <1>8, DoneUpTo
  <2> QED BY <1>1, <1>8, <2>1 DEF Follower!GoTo
<1>9. CASE Keep /\ ~caughtUp
  <2>1. PICK n : n = FollowerNext'
    OBVIOUS
  <2>2. Width = 2 * Cores - 1
    BY <1>2, <1>9
  <2>3. n \in FollowerNext .. FollowerNext + (2 * Cores - 1) /\ n <= remote + 1 /\ n \in Int
    BY <1>2, <1>4, <1>5, <1>9, <2>1, <2>2
  <2>4. Follower!GoTo(n, "behind")
    BY <1>6, <1>8, <1>9, <2>1, <2>3
  <2>5. Follower!MoveOn
    BY <1>7, <1>9, <2>3, <2>4 DEF Follower!MoveOn
  <2> QED BY <2>5 DEF Follower!Next
<1>10. CASE Switch
  <2>1. PICK n : n = FollowerNext'
    OBVIOUS
  <2>2. Width = 2 * Cores - 1
    BY <1>2, <1>10
  <2>3. /\ n \in Start - 1 + 1 .. FollowerNext + (2 * Cores - 1)
        /\ n <= remote + 1 /\ n \in Int
    <3>1. n = remote' \/ n = remote' + 1
      BY <1>5, <2>1
    <3>2. n \in Int /\ Start <= n /\ n <= remote + 1
      BY <1>2, <1>3, <3>1
    <3> QED
      BY <1>2, <1>4, <2>2, <3>2
  <2>4. Follower!GoTo(n, "steady")
    BY <1>6, <1>8, <1>10, <2>1, <2>3
  <2>5. Follower!CatchUp
    BY <1>7, <1>10, <2>3, <2>4 DEF Follower!CatchUp
  <2> QED BY <2>5 DEF Follower!Next
<1>11. CASE Keep /\ caughtUp
  <2>1. FollowerNext = remote /\ FollowerPhase = "steady" /\ caughtUp'
    BY <1>4, <1>7, <1>11
  <2>2. CASE MustAdvance'
    <3>1. lastStatus' = "success"
      BY <2>1, <2>2 DEF MustAdvance
    <3>2. fate[remote] \in {"ok", "readError"}
      <4>1. PICK k \in DOMAIN tasks : tasks[k].status = "success"
        BY <1>1, <3>1
      <4>2. tasks[k] = TaskOf(remote, fate[remote])
        BY <1>0, <1>11 DEF TasksInv
      <4>3. fate[remote] # "unseen"
        <5>1. remote \in Start .. remote
          BY <1>2, FilesAreNat
        <5>2. jobs # <<>>
          BY <1>2
        <5> QED
          BY <1>0, <1>1, <5>1, <5>2 DEF SeenInv, Pending
      <4>4. fate[remote] \in Ends
        BY <1>0, <1>2, <4>3 DEF Shape
      <4> QED
        BY <1>2, <4>1, <4>2, <4>4, TaskOfFacts
    <3>3. AnswerOf(fate[remote]) \in {"given", "unreadable"}
      BY <3>2 DEF AnswerOf
    <3>4. FollowerNext' = remote + 1
      BY <1>5, <1>11, <2>2
    <3>5. Follower!GoTo(FollowerNext + 1, "steady")
      BY <1>2, <1>6, <1>8, <2>1, <3>4
    <3>6. Follower!Follow
      BY <1>2, <2>1, <3>3, <3>5, FollowerFiles DEF Follower!Follow
    <3> QED BY <3>6 DEF Follower!Next
  <2>3. CASE ~MustAdvance'
    <3>1. FollowerNext' = remote
      BY <1>5, <1>11, <2>3
    <3>2. Follower!GoTo(FollowerNext, "steady")
      BY <1>2, <1>6, <1>8, <2>1, <3>1
    <3>3. Follower!Follow
      BY <2>1, <3>2 DEF Follower!Follow
    <3> QED BY <3>3 DEF Follower!Next
  <2> QED BY <2>2, <2>3
<1> QED BY <1>1, <1>9, <1>10, <1>11

LEMMA NextFollows ==
  IInv /\ [Next]_vars => Follower!Next \/ UNCHANGED Follower!vars
<1> SUFFICES ASSUME IInv, [Next]_vars
             PROVE  Follower!Next \/ UNCHANGED Follower!vars
  OBVIOUS
<1>1. CASE Tick \/ Publish \/ UNCHANGED vars
  BY <1>1, Stutters
  DEF Tick, Publish, vars, monitor, pool, history, FollowerPhase, FollowerNext, MustAdvance
<1>2. ASSUME pc' = "crashed",
             UNCHANGED <<remote, lastStatus, caughtUp, jobs, db, fate, lost>>
      PROVE  Follower!Next
  <2>1. Follower!Die
    BY <1>2 DEF Follower!Die, FollowerPhase, FollowerNext, MustAdvance
  <2> QED BY <2>1 DEF Follower!Next
<1>3. CASE Connect
  <2>1. CASE pc' = "round"
    BY <1>3, <2>1, Stutters
    DEF Connect, pool, history, FollowerPhase, FollowerNext, MustAdvance
  <2>2. CASE pc' = "crashed"
    BY <1>2, <1>3, <2>2 DEF Connect, pool, history
  <2> QED BY <1>3, <2>1, <2>2 DEF Connect
<1>4. CASE BeginRound
  BY <1>4, Stutters DEF BeginRound, pool, history, FollowerPhase, FollowerNext, MustAdvance
<1>5. CASE PostTask
  BY <1>5, PostFollows
<1>6. CASE \E k \in DOMAIN jobs : ThreadChangeSet(k)
  BY <1>6, ThreadFollows
<1>7. CASE \E k \in DOMAIN jobs : WorkerDies(k)
  BY <1>2, <1>7 DEF WorkerDies, pool, history
<1>8. CASE JoinAndQuery
  BY <1>8, JoinFollows
<1>9. CASE UpdatePosition
  BY <1>9, UpdateFollows
<1> QED BY <1>1, <1>3, <1>4, <1>5, <1>6, <1>7, <1>8, <1>9 DEF Next

\* The changesets monitor, with workers that end in any order, its first round of one
\* file and the rewind, is a follower that passes no file it did not ask for and settles
\* what it is given: for every number of cores, feed, content and set of faults.
THEOREM Refinement == Spec => FollowerSpec
<1>1. IInv /\ [Next]_vars => [Follower!Next]_Follower!vars
  BY NextFollows
<1> QED BY <1>1, InitFollows, Invariance, PTL
        DEF Spec, FollowerSpec, Follower!Spec
-----------------------------------------------------------------------------
(***************************************************************************)
(* The order of the batches, for what the table holds in the end.  Batches *)
(* rise one after the other, but for one fall: where the monitor catches   *)
(* up and goes back.  So the invariant tells the batches before that apart *)
(* from those after it, and says of each how its files lie around the      *)
(* position the monitor went back to.                                      *)
(***************************************************************************)
Round == 2 * Cores - 1

\* Batches committed before the rewind; all of them while there was none.
Early == IF caughtUp THEN caughtUpAt.batches ELSE Len(db)

\* The files below the round in progress.
FrontOfRound ==
  IF pc \in {"connect", "round", "post"} /\ MustAdvance THEN remote - Len(jobs) ELSE remote

\* The position remembered was too old when it was remembered.
RestInv ==
  /\ now \in Nat
  /\ closest \in [url : Files \cup {NoUrl}, timestamp : Times]
  /\ closest.url # NoUrl <=> closest.timestamp # NotADateTime
  /\ ~caughtUp /\ closest.timestamp # NotADateTime => Minutes(now, closest.timestamp) > 2
  /\ mixed \subseteq Files
  /\ Len(tasks) = Cardinality(ended)

BatchInv ==
  /\ Early \in 0 .. Len(db)
  /\ \A b \in DOMAIN db :
       /\ Len(db[b]) \in 1 .. Round /\ FilesOf(db[b]) \subseteq Files
       /\ \A s, t \in FilesOf(db[b]) : s - t < Round /\ (b > Early => s = t)

RisingInv ==
  \A b, d \in DOMAIN db :
    b < d /\ (d <= Early \/ b > Early) =>
      \A s \in FilesOf(db[b]), t \in FilesOf(db[d]) : s <= t

BehindInv ==
  \A b \in DOMAIN db : ~caughtUp \/ b > Early => \A s \in FilesOf(db[b]) : s <= FrontOfRound

RewindInv ==
  caughtUp =>
    /\ caughtUpAt.at \in Files /\ caughtUpAt.at <= remote /\ caughtUpAt.furthest \in Nat
    /\ \A b \in DOMAIN db : \A s \in FilesOf(db[b]) :
         IF b <= Early THEN s < caughtUpAt.at + Round /\ s <= caughtUpAt.furthest
         ELSE caughtUpAt.at <= s

\* Some batch after the rewind holds file s.
Again(s) == \E b \in DOMAIN db : b > Early /\ s \in FilesOf(db[b])

AgainInv ==
  caughtUp /\ pc # "crashed" =>
    \A s \in caughtUpAt.at + 1 .. remote :
      fate[s] = "ok" /\ Mentions[s] # {} /\ s \notin lost =>
        Again(s) \/ InRound(s) \/ Pending(s)

OInv == RestInv /\ BatchInv /\ RisingInv /\ BehindInv /\ RewindInv /\ AgainInv

LEMMA RoundFacts ==
  ASSUME Shape, JobsInv
  PROVE  /\ Round \in Nat \ {0} /\ Width <= Round /\ Width \in Nat \ {0}
         /\ FrontOfRound \in Int /\ FrontOfRound <= remote /\ remote \in Nat /\ remote \in Files
         /\ Len(db) \in Nat /\ DOMAIN db = 1 .. Len(db)
         /\ \A k \in DOMAIN jobs :
              /\ jobs[k] \in Files /\ jobs[k] \in Nat
              /\ jobs[k] <= remote /\ remote - jobs[k] < Round
              /\ pc = "post" => FrontOfRound <= jobs[k]
              /\ caughtUp => jobs[k] = remote
<1>1. /\ Cores \in Nat \ {0} /\ Width \in Nat \ {0}
      /\ caughtUp => Width = 1
      /\ ~caughtUp => Width = 2 * Cores - 1
      /\ Len(jobs) \in Nat /\ DOMAIN jobs = 1 .. Len(jobs) /\ Len(jobs) <= Width
      /\ remote \in Nat
  BY WidthFacts DEF JobsInv
<1>2. Round \in Nat \ {0} /\ Width <= Round
  <2>1. Round \in Nat \ {0}
    BY <1>1 DEF Round
  <2>2. CASE caughtUp
    BY <1>1, <2>1, <2>2
  <2>3. CASE ~caughtUp
    BY <1>1, <2>1, <2>3 DEF Round
  <2> QED BY <2>1, <2>2, <2>3
<1>3. FrontOfRound \in Int /\ FrontOfRound <= remote
  BY <1>1 DEF FrontOfRound
<1>4. ASSUME NEW k \in DOMAIN jobs
      PROVE  /\ jobs[k] \in Files /\ jobs[k] \in Nat
             /\ jobs[k] <= remote /\ remote - jobs[k] < Round
             /\ pc = "post" => FrontOfRound <= jobs[k]
             /\ caughtUp => jobs[k] = remote
  <2>1. jobs[k] \in Files /\ jobs[k] \in Nat
    <3>1. jobs[k] \in Files
      BY <1>1 DEF Shape
    <3> QED BY <3>1, FilesAreNat
  <2>2. jobs[k] = IF MustAdvance THEN remote - Len(jobs) + k ELSE remote
    BY DEF JobsInv
  <2>3. k \in 1 .. Len(jobs)
    BY <1>1
  <2>4. jobs[k] <= remote /\ remote - jobs[k] < Round
    BY <1>1, <1>2, <2>2, <2>3
  <2>5. pc = "post" => FrontOfRound <= jobs[k]
    BY <1>1, <2>2, <2>3 DEF FrontOfRound
  <2>6. caughtUp => jobs[k] = remote
    BY <1>1, <2>2, <2>3
  <2> QED BY <2>1, <2>4, <2>5, <2>6
<1>5. Len(db) \in Nat /\ DOMAIN db = 1 .. Len(db)
  BY DEF Shape
<1> QED BY <1>1, <1>2, <1>3, <1>4, <1>5 DEF Shape

\* A file that has a latest closed_at has it among its times.
LEMMA TimestampIsTime ==
  ASSUME NEW s \in Files
  PROVE  TimestampOf(Content[s]) \in Times
<1> DEFINE changes == Content[s]
           T == ClosedTimes(changes)
           all == [i \in DOMAIN changes |-> changes[i].closed_at]
<1>1. /\ changes \in Seq({changes[i] : i \in DOMAIN changes})
      /\ \A i \in DOMAIN changes :
           /\ changes[i].created_at \in Int \cup {NotADateTime}
           /\ changes[i].closed_at \in Int \cup {NotADateTime}
  BY ContentAssumption DEF IsChangesetFile
<1>2. DOMAIN changes = 1 .. Len(changes) /\ Len(changes) \in Nat
  BY <1>1
<1>3. T \subseteq Int /\ NotADateTime \notin Int
  BY <1>1, NadtAssumption DEF ClosedTimes
<1>4. IsFiniteSet(T)
  <2>1. IsFiniteSet(DOMAIN changes)
    <3>1. IsFiniteSet(1 .. Len(changes))
      BY <1>2, FS_Interval
    <3> QED BY <1>2, <3>1
  <2>2. all \in Surjection(DOMAIN changes, {changes[i].closed_at : i \in DOMAIN changes})
    BY DEF Surjection
  <2>3. IsFiniteSet({changes[i].closed_at : i \in DOMAIN changes})
    BY <2>1, <2>2, FS_Surjection
  <2> QED BY <2>3, FS_Difference DEF ClosedTimes
<1>5. CASE T = {}
  <2>1. LastClosedAt(changes) = NotADateTime
    BY <1>5 DEF LastClosedAt
  <2>2. CASE changes = <<>>
    BY <2>1, <2>2 DEF TimestampOf, Times
  <2>3. CASE changes # <<>>
    <3>1. Len(changes) \in DOMAIN changes
      BY <1>1, <1>2, <2>3
    <3>2. changes[Len(changes)].created_at \in Int \cup {NotADateTime}
      BY <1>1, <3>1
    <3> QED BY <2>1, <2>3, <3>2 DEF TimestampOf, Times
  <2> QED BY <2>2, <2>3
<1>6. CASE T # {}
  <2>1. \E x \in T : \A y \in T : y <= x
    BY <1>3, <1>4, <1>6, GreatestOf
  <2>2. LastClosedAt(changes) \in T
    BY <1>6, <2>1 DEF LastClosedAt
  <2> QED BY <1>3, <2>2 DEF TimestampOf, Times
<1> QED BY <1>5, <1>6

LEMMA TaskTyped ==
  ASSUME NEW s \in Files, NEW end \in Ends
  PROVE  /\ TaskOf(s, end) \in TaskType
         /\ TaskOf(s, end).url = s /\ TaskOf(s, end).timestamp \in Times
<1>1. s \in Nat
  BY FilesAreNat
<1>2. TimestampOf(Content[s]) \in Times /\ NotADateTime \in Times
  BY TimestampIsTime DEF Times
<1>3. CASE end = "ok"
  <2>1. TaskOf(s, end) = Task(s, TimestampOf(Content[s]), "success",
                              IF Mentions[s] = {} THEN {} ELSE {"underpass"})
    BY <1>3 DEF TaskOf
  <2> QED BY <1>1, <1>2, <2>1 DEF Task, TaskType, Statuses, Stores
<1>4. CASE end = "readError"
  <2>1. TaskOf(s, end) = Task(s, NotADateTime, "success", {})
    BY <1>4 DEF TaskOf
  <2> QED BY <1>1, <1>2, <2>1 DEF Task, TaskType, Statuses, Stores
<1>5. CASE end \notin {"ok", "readError"}
  <2>1. TaskOf(s, end) = Task(s, NotADateTime, end, {})
    BY <1>5 DEF TaskOf
  <2> QED BY <1>1, <1>2, <1>5, <2>1 DEF Task, TaskType, Statuses, Stores, Ends
<1> QED BY <1>3, <1>4, <1>5

\* What was too old stays too old.
LEMMA Ages ==
  ASSUME NEW n \in Int, NEW ts \in Int, Minutes(n, ts) > 2
  PROVE  Minutes(n + 1, ts) > 2
<1>1. TicksPerMinute \in Nat \ {0} /\ ts # NotADateTime
  BY ClockAssumption, NadtAssumption
<1>2. Minutes(n, ts) = (n - ts) \div TicksPerMinute
      /\ Minutes(n + 1, ts) = ((n + 1) - ts) \div TicksPerMinute
  BY <1>1 DEF Minutes
<1>3. ASSUME NEW a \in Int, NEW m \in Nat \ {0}, a \div m > 2
      PROVE  (a + 1) \div m > 2
  <2>1. /\ a \div m \in Int /\ m * (a \div m) <= a
        /\ (a + 1) \div m \in Int /\ a + 1 < m * ((a + 1) \div m) + m
    OBVIOUS
  <2>2. m * 3 <= m * (a \div m)
    BY <1>3, <2>1
  <2>3. ASSUME (a + 1) \div m <= 2 PROVE FALSE
    <3>1. m * ((a + 1) \div m) <= m * 2
      BY <2>1, <2>3
    <3> QED BY <2>1, <2>2, <3>1
  <2> QED BY <2>1, <2>3
<1>4. PICK a \in Int : a = n - ts /\ a + 1 = (n + 1) - ts
  OBVIOUS
<1> QED BY <1>1, <1>2, <1>3, <1>4

LEMMA MinutesInt ==
  ASSUME NEW n \in Int, NEW ts \in Times
  PROVE  Minutes(n, ts) \in Int
<1>1. TicksPerMinute \in Nat \ {0} /\ NadtMinutes \in Int
  BY ClockAssumption, NadtAssumption
<1> QED BY <1>1 DEF Minutes, Times

LEMMA InitOrder == Init => OInv
<1> SUFFICES ASSUME Init PROVE OInv
  OBVIOUS
<1> USE DEF Init
<1>1. RestInv
  <2>1. Cardinality(ended) = 0 /\ Len(tasks) = 0
    BY FS_EmptySet
  <2>2. now \in Nat /\ NotADateTime \in Times
    BY FeedAssumption DEF Times
  <2> QED BY <2>1, <2>2 DEF RestInv
<1>2. Len(db) = 0 /\ DOMAIN db = {} /\ Early = 0
  BY DEF Early
<1> QED
  BY <1>1, <1>2 DEF OInv, BatchInv, RisingInv, BehindInv, RewindInv, AgainInv

LEMMA AsideOrder ==
  ASSUME IInv, OInv, now' = now \/ now' = now + 1,
         UNCHANGED <<remote, lastStatus, closest, caughtUp, cores, jobs, ended, tasks,
                     db, fate, lost, mixed, caughtUpAt>>,
         \/ pc' = pc
         \/ pc' = "crashed"
         \/ pc = "connect" /\ pc' = "round"
         \/ pc = "round" /\ pc' = "post"
  PROVE  OInv'
<1>0. Shape /\ JobsInv
  BY DEF IInv
<1>1. Early' = Early /\ MustAdvance' = MustAdvance
  BY DEF Early, MustAdvance
<1>2. FrontOfRound \in Int /\ FrontOfRound' \in Int /\ FrontOfRound <= FrontOfRound'
  <2>1. remote \in Nat /\ Len(jobs) \in Nat
    BY <1>0, WidthFacts
  <2> QED BY <1>1, <2>1 DEF FrontOfRound
<1>3. RestInv'
  <2>1. RestInv /\ now' \in Nat
    BY DEF OInv, RestInv
  <2>2. ASSUME ~caughtUp, closest.timestamp # NotADateTime
        PROVE  Minutes(now, closest.timestamp)' > 2
    <3>1. Minutes(now, closest.timestamp) > 2 /\ now \in Int /\ closest.timestamp \in Int
      BY <2>1, <2>2 DEF RestInv, Times
    <3>2. PICK n, ts : n = now' /\ ts = closest.timestamp
      OBVIOUS
    <3>3. Minutes(n, ts) > 2
      BY <3>1, <3>2, Ages
    <3> QED BY <3>2, <3>3
  <2> QED BY <2>1, <2>2 DEF RestInv
<1>4. BatchInv' /\ RisingInv' /\ RewindInv'
  BY <1>1 DEF OInv, BatchInv, RisingInv, RewindInv
<1>5. BehindInv'
  <2> SUFFICES ASSUME NEW b \in DOMAIN db, ~caughtUp \/ b > Early, NEW s \in FilesOf(db[b])
               PROVE  s <= FrontOfRound'
    BY <1>1 DEF BehindInv
  <2>1. s <= FrontOfRound
    BY DEF OInv, BehindInv
  <2>2. s \in Nat
    BY FilesAreNat DEF OInv, BatchInv
  <2> QED BY <1>2, <2>1, <2>2
<1>6. AgainInv'
  BY <1>0, <1>1 DEF OInv, AgainInv, Again, InRound, Pending, JobsInv
<1> QED BY <1>3, <1>4, <1>5, <1>6 DEF OInv

LEMMA PostOrder ==
  ASSUME IInv, OInv, PostTask
  PROVE  OInv'
<1>0. Shape /\ JobsInv /\ TasksInv
  BY DEF IInv
<1>1. /\ pc = "post" /\ Len(jobs) < Width /\ jobs' = Append(jobs, remote')
      /\ remote' = IF MustAdvance THEN remote + 1 ELSE remote
      /\ UNCHANGED <<now, pc, lastStatus, closest, caughtUp, cores, ended, tasks, db, fate, lost,
                     mixed, caughtUpAt>>
  BY DEF PostTask, history, feed
<1>2. /\ jobs \in Seq(Files) /\ jobs' \in Seq(Files) /\ remote' \in Files
      /\ Len(jobs') = Len(jobs) + 1 /\ Len(jobs) \in Nat /\ remote \in Nat /\ remote' \in Nat
  BY <1>0, WidthFacts, PostInv, FilesAreNat DEF Shape
<1>3. Early' = Early /\ MustAdvance' = MustAdvance /\ FrontOfRound' = FrontOfRound /\ remote <= remote'
  <2>1. Early' = Early /\ MustAdvance' = MustAdvance
    BY <1>1 DEF Early, MustAdvance
  <2> QED BY <1>1, <1>2, <2>1 DEF FrontOfRound
<1>4. RestInv' /\ BatchInv' /\ RisingInv' /\ BehindInv'
  BY <1>1, <1>3 DEF OInv, RestInv, BatchInv, RisingInv, BehindInv
<1>5. RewindInv'
  <2>1. caughtUp => caughtUpAt.at \in Nat /\ caughtUpAt.at <= remote
    BY FilesAreNat DEF OInv, RewindInv
  <2>2. caughtUp => caughtUpAt.at <= remote'
    BY <1>2, <1>3, <2>1
  <2> QED BY <1>1, <1>3, <2>2 DEF OInv, RewindInv
<1>6. AgainInv'
  <2> SUFFICES ASSUME caughtUp, NEW s \in caughtUpAt.at + 1 .. remote',
                      fate[s] = "ok", Mentions[s] # {}, s \notin lost
               PROVE  Again(s)' \/ InRound(s)' \/ Pending(s)'
    BY <1>1 DEF AgainInv
  <2>1. CASE s = remote'
    <3>1. Len(jobs) + 1 \in DOMAIN jobs' \ ended /\ jobs'[Len(jobs) + 1] = remote'
      BY <1>0, <1>1, <1>2 DEF Shape
    <3> QED BY <1>1, <2>1, <3>1 DEF Pending
  <2>2. CASE s # remote'
    <3>1. s \in caughtUpAt.at + 1 .. remote
      <4>1. caughtUpAt.at \in Nat
        BY FilesAreNat DEF OInv, RewindInv
      <4> QED BY <1>1, <1>2, <2>2, <4>1
    <3>2. Again(s) \/ InRound(s) \/ Pending(s)
      BY <1>1, <3>1 DEF OInv, AgainInv
    <3>3. Again(s) => Again(s)'
      BY <1>1, <1>3 DEF Again
    <3>4. InRound(s) => InRound(s)'
      BY <1>1 DEF InRound
    <3>5. Pending(s) => Pending(s)'
      <4>1. \A j \in DOMAIN jobs : j \in DOMAIN jobs' /\ jobs'[j] = jobs[j]
        BY <1>1, <1>2
      <4> QED BY <1>1, <4>1 DEF Pending
    <3> QED BY <3>2, <3>3, <3>4, <3>5
  <2> QED BY <2>1, <2>2
<1> QED BY <1>4, <1>5, <1>6 DEF OInv

LEMMA ThreadOrder ==
  ASSUME IInv, OInv, NEW k \in DOMAIN jobs, ThreadChangeSet(k)
  PROVE  OInv'
<1>0. Shape /\ JobsInv /\ TasksInv
  BY DEF IInv
<1>1. PICK f \in Files, end \in Ends :
        /\ f = jobs[k] /\ pc = "post" /\ k \notin ended
        /\ tasks' = Append(tasks, TaskOf(f, end))
        /\ fate' = [fate EXCEPT ![f] = end]
        /\ ended' = ended \cup {k}
        /\ \A s : s # f => (s \in mixed' <=> s \in mixed)
        /\ UNCHANGED <<feed, monitor, jobs, db, lost, caughtUpAt>>
  BY ThreadFacts
<1>2. UNCHANGED <<now, pc, remote, lastStatus, closest, caughtUp, cores, jobs, db, lost,
                  caughtUpAt>>
  BY <1>1 DEF monitor, feed
<1>3. Early' = Early /\ FrontOfRound' = FrontOfRound
  BY <1>2 DEF Early, FrontOfRound, MustAdvance
<1>4. BatchInv' /\ RisingInv' /\ BehindInv' /\ RewindInv'
  BY <1>2, <1>3 DEF OInv, BatchInv, RisingInv, BehindInv, RewindInv
<1>5. PICK task \in Results : task = TaskOf(f, end)
  BY DEF Results
<1>6. /\ Len(tasks') = Len(tasks) + 1 /\ Len(tasks) \in Nat
      /\ DOMAIN tasks' = 1 .. Len(tasks) + 1 /\ DOMAIN tasks = 1 .. Len(tasks)
      /\ \A l \in DOMAIN tasks : tasks'[l] = tasks[l]
      /\ tasks'[Len(tasks) + 1] = task
  <2>1. tasks \in Seq(Results) /\ tasks' = Append(tasks, task)
    BY <1>0, <1>1, <1>5 DEF Shape
  <2> QED BY <2>1
<1>7. RestInv'
  <2>1. Cardinality(ended') = Cardinality(ended) + 1
    <3>1. IsFiniteSet(1 .. Len(jobs)) /\ DOMAIN jobs = 1 .. Len(jobs)
      BY <1>0, WidthFacts, FS_Interval
    <3>2. IsFiniteSet(ended)
      BY <1>0, <3>1, FS_Subset DEF Shape
    <3> QED BY <1>1, <3>2, FS_AddElement
  <2>2. mixed' \subseteq Files
    BY <1>1 DEF OInv, RestInv
  <2> QED BY <1>2, <1>6, <2>1, <2>2 DEF OInv, RestInv
<1>8. AgainInv'
  <2> SUFFICES ASSUME caughtUp, NEW s \in caughtUpAt.at + 1 .. remote,
                      fate'[s] = "ok", Mentions[s] # {}, s \notin lost
               PROVE  Again(s)' \/ InRound(s)' \/ Pending(s)'
    BY <1>2 DEF AgainInv
  <2>1. s \in Files
    <3>1. caughtUpAt.at \in Files
      BY DEF OInv, RewindInv
    <3>2. remote \in Nat /\ remote <= MaxSeq
      BY <1>0, WidthFacts
    <3> QED BY <3>1, <3>2, FilesAreNat DEF Files
  <2>2. CASE s = f
    <3>1. end = "ok"
      BY <1>0, <1>1, <2>2 DEF Shape
    <3>2. task.url = s /\ task.query # {}
      BY <1>5, <2>2, <3>1, TaskOfFacts
    <3>3. Len(tasks) + 1 \in DOMAIN tasks'
      BY <1>6
    <3> QED BY <1>1, <1>2, <1>6, <3>2, <3>3 DEF InRound
  <2>3. CASE s # f
    <3>1. fate[s] = "ok"
      BY <1>0, <1>1, <2>1, <2>3 DEF Shape
    <3>2. Again(s) \/ InRound(s) \/ Pending(s)
      BY <1>1, <3>1 DEF OInv, AgainInv
    <3>3. Again(s) => Again(s)'
      BY <1>2, <1>3 DEF Again
    <3>4. InRound(s) => InRound(s)'
      BY <1>2, <1>6 DEF InRound
    <3>5. Pending(s) => Pending(s)'
      BY <1>1, <1>2, <2>3 DEF Pending
    <3> QED BY <3>2, <3>3, <3>4, <3>5
  <2> QED BY <2>2, <2>3
<1> QED BY <1>4, <1>7, <1>8 DEF OInv

\* Where the files of a batch lie.
LEMMA BatchPlace ==
  ASSUME IInv, OInv, pc = "post", Len(jobs) = Width, ended = DOMAIN jobs
  PROVE  /\ Len(Batch) \in 1 .. Round /\ Batch \in Seq(Nat \cup {NoUrl})
         /\ \A s \in FilesOf(Batch) :
              /\ s \in Files /\ s \in Nat /\ FrontOfRound <= s /\ s <= remote /\ remote - s < Round
              /\ caughtUp => s = remote
<1>0. Shape /\ JobsInv /\ TasksInv
  BY DEF IInv
<1>r. /\ Round \in Nat \ {0} /\ Width <= Round /\ Width \in Nat \ {0}
      /\ DOMAIN jobs = 1 .. Len(jobs)
  BY <1>0, RoundFacts, WidthFacts
<1>1. Batch \in Seq(Nat \cup {NoUrl}) /\ Len(Batch) = Len(tasks)
  <2>1. tasks \in Seq(Results) /\ Batch \in Seq(Nat \cup {NoUrl})
    BY <1>0, BatchFacts DEF Shape
  <2>2. DOMAIN Batch = DOMAIN tasks
    BY DEF Batch, AllTasksQueries
  <2> QED BY <2>1, <2>2
<1>2. Len(tasks) = Width
  <2>1. Len(tasks) = Cardinality(1 .. Width)
    BY <1>r DEF OInv, RestInv
  <2>2. Cardinality(1 .. Width) = Width
    BY <1>r, FS_Interval
  <2> QED BY <2>1, <2>2
<1>3. ASSUME NEW s \in FilesOf(Batch) PROVE \E j \in DOMAIN jobs : s = jobs[j]
  <2>1. PICK k \in DOMAIN tasks : tasks[k].url = s
    BY <1>0, BatchFacts
  <2>2. PICK j \in DOMAIN jobs, end \in Ends : tasks[k] = TaskOf(jobs[j], end)
    BY <1>0 DEF TasksInv
  <2>3. jobs[j] \in Files
    BY <1>0 DEF Shape
  <2> QED BY <2>1, <2>2, <2>3, TaskOfFacts
<1>4. ASSUME NEW s \in FilesOf(Batch)
      PROVE  /\ s \in Files /\ s \in Nat /\ FrontOfRound <= s /\ s <= remote /\ remote - s < Round
             /\ caughtUp => s = remote
  <2>1. PICK j \in DOMAIN jobs : s = jobs[j]
    BY <1>3
  <2> QED BY <1>0, <2>1, RoundFacts
<1> QED BY <1>r, <1>1, <1>2, <1>4

LEMMA JoinOrder ==
  ASSUME IInv, OInv, JoinAndQuery
  PROVE  OInv'
<1>0. Shape /\ JobsInv
  BY DEF IInv
<1>1. /\ pc = "post" /\ pc' = "closest" /\ Len(jobs) = Width /\ ended = DOMAIN jobs
      /\ UNCHANGED <<now, remote, lastStatus, closest, caughtUp, cores, jobs, ended, tasks,
                     fate, mixed, caughtUpAt>>
      /\ \/ FilesOf(Batch) = {} /\ UNCHANGED <<db, lost>>
         \/ db' = Append(db, Batch) /\ UNCHANGED lost
         \/ lost' = lost \cup FilesOf(Batch) /\ UNCHANGED db
  BY DEF JoinAndQuery, pool, feed
<1>2. PICK n : n = Len(db)
  OBVIOUS
<1>3. /\ n \in Nat /\ DOMAIN db = 1 .. n /\ db \in Seq(Seq(Nat \cup {NoUrl}))
      /\ FrontOfRound \in Int /\ FrontOfRound <= remote /\ remote \in Nat /\ FrontOfRound' = remote
      /\ Round \in Nat \ {0}
  BY <1>0, <1>1, <1>2, RoundFacts DEF FrontOfRound, Shape
<1>4. /\ Len(Batch) \in 1 .. Round /\ Batch \in Seq(Nat \cup {NoUrl})
      /\ \A s \in FilesOf(Batch) :
           /\ s \in Files /\ s \in Nat /\ FrontOfRound <= s /\ s <= remote /\ remote - s < Round
           /\ caughtUp => s = remote
  BY <1>1, BatchPlace
<1>5. RestInv'
  BY <1>1 DEF OInv, RestInv
<1>6. /\ Early \in 0 .. n
      /\ \A b \in DOMAIN db :
           /\ Len(db[b]) \in 1 .. Round /\ FilesOf(db[b]) \subseteq Files
           /\ \A s, t \in FilesOf(db[b]) : s - t < Round /\ (b > Early => s = t)
      /\ \A b \in DOMAIN db : \A s \in FilesOf(db[b]) : s \in Nat
  BY <1>2, FilesAreNat DEF OInv, BatchInv
<1>7. ASSUME UNCHANGED db
      PROVE  Early' = Early /\ BatchInv' /\ RisingInv' /\ BehindInv' /\ RewindInv'
  <2>1. Early' = Early
    BY <1>1, <1>7 DEF Early
  <2>2. BatchInv' /\ RisingInv' /\ RewindInv'
    BY <1>1, <1>7, <2>1 DEF OInv, BatchInv, RisingInv, RewindInv
  <2>3. ASSUME NEW b \in DOMAIN db, ~caughtUp \/ b > Early, NEW s \in FilesOf(db[b])
        PROVE  s <= remote
    <3>1. s <= FrontOfRound /\ s \in Nat
      BY <1>6, <2>3 DEF OInv, BehindInv
    <3> QED BY <1>3, <3>1
  <2>4. BehindInv'
    BY <1>1, <1>3, <1>7, <2>1, <2>3 DEF BehindInv
  <2> QED BY <2>1, <2>2, <2>4
<1>8. ASSUME db' = Append(db, Batch)
      PROVE  /\ Len(db') = n + 1 /\ DOMAIN db' = 1 .. n + 1 /\ db'[n + 1] = Batch
             /\ \A b \in DOMAIN db : db'[b] = db[b]
             /\ Early' = IF caughtUp THEN Early ELSE n + 1
  <2>1. /\ Len(db') = n + 1 /\ DOMAIN db' = 1 .. n + 1 /\ db'[n + 1] = Batch
        /\ \A b \in DOMAIN db : db'[b] = db[b]
    BY <1>2, <1>3, <1>4, <1>8
  <2> QED BY <1>1, <2>1 DEF Early
<1>9. ASSUME db' = Append(db, Batch)
      PROVE  BatchInv' /\ RisingInv' /\ BehindInv' /\ RewindInv'
  <2>1. ASSUME NEW b \in DOMAIN db' PROVE b = n + 1 \/ (b \in DOMAIN db /\ db'[b] = db[b])
    BY <1>3, <1>8, <1>9
  <2>2. Early' \in 0 .. n + 1 /\ (caughtUp => Early' = Early /\ Early <= n)
        /\ (~caughtUp => Early' = n + 1 /\ Early = n)
    BY <1>2, <1>3, <1>6, <1>8, <1>9 DEF Early
  <2>3. ASSUME NEW b \in DOMAIN db'
        PROVE  /\ Len(db'[b]) \in 1 .. Round /\ FilesOf(db'[b]) \subseteq Files
               /\ \A s, t \in FilesOf(db'[b]) : s - t < Round /\ (b > Early' => s = t)
    <3>1. CASE b = n + 1
      <4>1. db'[b] = Batch
        BY <1>8, <1>9, <3>1
      <4>2. ASSUME NEW s \in FilesOf(Batch), NEW t \in FilesOf(Batch)
            PROVE  s - t < Round /\ (b > Early' => s = t)
        <5>1. /\ s \in Nat /\ t \in Nat /\ s <= remote /\ remote - t < Round
              /\ caughtUp => s = remote /\ t = remote
          BY <1>4
        <5>2. s - t < Round
          BY <1>3, <5>1
        <5>3. b > Early' => caughtUp
          BY <1>3, <2>2, <3>1
        <5> QED BY <5>1, <5>2, <5>3
      <4> QED BY <1>4, <4>1, <4>2
    <3>2. CASE b # n + 1
      <4>1. b \in DOMAIN db /\ db'[b] = db[b]
        BY <2>1, <3>2
      <4>2. b > Early' => b > Early
        BY <1>3, <2>2, <4>1
      <4> QED BY <1>6, <4>1, <4>2
    <3> QED BY <3>1, <3>2
  <2>4. ASSUME NEW b \in DOMAIN db', NEW d \in DOMAIN db', b < d, d <= Early' \/ b > Early',
               NEW s \in FilesOf(db'[b]), NEW t \in FilesOf(db'[d])
        PROVE  s <= t
    <3>1. b \in DOMAIN db /\ db'[b] = db[b] /\ b \in Nat /\ d \in Nat
      BY <1>3, <1>8, <1>9, <2>1, <2>4
    <3>2. CASE d = n + 1
      <4>1. db'[d] = Batch
        BY <1>8, <1>9, <3>2
      <4>2. ASSUME caughtUp PROVE b > Early
        <5>1. Early' = Early /\ Early <= n /\ Early \in Nat
          BY <1>3, <1>6, <2>2, <4>2
        <5> QED BY <1>3, <2>4, <3>1, <3>2, <5>1
      <4>3. s <= FrontOfRound /\ s \in Nat
        BY <1>6, <2>4, <3>1, <4>2 DEF OInv, BehindInv
      <4>4. FrontOfRound <= t /\ t \in Nat
        BY <1>4, <2>4, <4>1
      <4> QED BY <1>3, <4>3, <4>4
    <3>3. CASE d # n + 1
      <4>1. d \in DOMAIN db /\ db'[d] = db[d]
        BY <2>1, <3>3
      <4>2. d <= Early \/ b > Early
        BY <1>3, <2>2, <2>4, <3>1, <4>1
      <4> QED BY <2>4, <3>1, <4>1, <4>2 DEF OInv, RisingInv
    <3> QED BY <3>2, <3>3
  <2>5. ASSUME NEW b \in DOMAIN db', ~caughtUp \/ b > Early', NEW s \in FilesOf(db'[b])
        PROVE  s <= remote
    <3>1. CASE b = n + 1
      BY <1>4, <1>8, <1>9, <2>5, <3>1
    <3>2. CASE b # n + 1
      <4>1. b \in DOMAIN db /\ db'[b] = db[b]
        BY <2>1, <3>2
      <4>2. ~caughtUp \/ b > Early
        BY <2>2, <2>5
      <4>3. s <= FrontOfRound /\ s \in Nat
        BY <1>6, <2>5, <4>1, <4>2 DEF OInv, BehindInv
      <4> QED BY <1>3, <4>3
    <3> QED BY <3>1, <3>2
  <2>6. ASSUME caughtUp, NEW b \in DOMAIN db', NEW s \in FilesOf(db'[b])
        PROVE  IF b <= Early' THEN s < caughtUpAt.at + Round /\ s <= caughtUpAt.furthest
               ELSE caughtUpAt.at <= s
    <3>1. CASE b = n + 1
      <4>1. s = remote
        BY <1>4, <1>8, <1>9, <2>6, <3>1
      <4>2. caughtUpAt.at <= remote
        BY <2>6 DEF OInv, RewindInv
      <4>3. ~(b <= Early')
        BY <1>3, <1>6, <2>2, <2>6, <3>1
      <4> QED BY <4>1, <4>2, <4>3
    <3>2. CASE b # n + 1
      <4>1. b \in DOMAIN db /\ db'[b] = db[b] /\ Early' = Early
        BY <2>1, <2>2, <2>6, <3>2
      <4> QED BY <2>6, <4>1 DEF OInv, RewindInv
    <3> QED BY <3>1, <3>2
  <2>7. BatchInv'
    BY <1>8, <1>9, <2>2, <2>3 DEF BatchInv, Round
  <2>8. RisingInv'
    BY <2>4 DEF RisingInv
  <2>9. BehindInv'
    BY <1>1, <1>3, <2>5 DEF BehindInv
  <2>10. RewindInv'
    BY <1>1, <2>6 DEF OInv, RewindInv, Round
  <2> QED BY <2>7, <2>8, <2>9, <2>10
<1>10. AgainInv'
  <2> SUFFICES ASSUME caughtUp, NEW s \in caughtUpAt.at + 1 .. remote,
                      fate[s] = "ok", Mentions[s] # {}, s \notin lost'
               PROVE  Again(s)'
    BY <1>1 DEF AgainInv
  <2>1. s \notin lost
    BY <1>1
  <2>2. Again(s) \/ InRound(s) \/ Pending(s)
    BY <1>1, <2>1 DEF OInv, AgainInv
  <2>3. ~Pending(s)
    BY <1>1 DEF Pending
  <2>4. InRound(s) => s \in FilesOf(Batch)
    BY <1>0, BatchFacts DEF InRound
  <2>5. CASE UNCHANGED db
    <3>1. ~InRound(s) \/ db' = Append(db, Batch)
      BY <1>1, <2>4
    <3>2. Early' = Early
      BY <1>7, <2>5
    <3>3. db' # Append(db, Batch)
      <4>1. Len(Append(db, Batch)) = n + 1 /\ Len(db) = n
        BY <1>2, <1>3, <1>4
      <4> QED BY <1>3, <2>5, <4>1
    <3> QED BY <2>2, <2>3, <2>5, <3>1, <3>2, <3>3 DEF Again
  <2>6. CASE db' = Append(db, Batch)
    <3>1. CASE Again(s)
      <4>1. PICK b \in DOMAIN db : b > Early /\ s \in FilesOf(db[b])
        BY <3>1 DEF Again
      <4>2. b \in DOMAIN db' /\ db'[b] = db[b] /\ Early' = Early
        BY <1>3, <1>8, <2>6
      <4> QED BY <4>1, <4>2 DEF Again
    <3>2. CASE InRound(s)
      <4>1. n + 1 \in DOMAIN db' /\ db'[n + 1] = Batch /\ Early' = Early
        BY <1>3, <1>8, <2>6
      <4>2. n + 1 > Early
        BY <1>3, <1>6
      <4> QED BY <2>4, <3>2, <4>1, <4>2 DEF Again
    <3> QED BY <2>2, <2>3, <3>1, <3>2
  <2> QED BY <1>1, <2>5, <2>6
<1>11. BatchInv' /\ RisingInv' /\ BehindInv' /\ RewindInv'
  BY <1>1, <1>7, <1>9
<1> QED BY <1>5, <1>10, <1>11 DEF OInv

\* What the end of a round leaves of the position remembered, and where it goes back.
LEMMA UpdateMore ==
  ASSUME IInv, OInv, UpdatePosition
  PROVE  /\ closest' \in [url : Files \cup {NoUrl}, timestamp : Times]
         /\ closest'.url # NoUrl <=> closest'.timestamp # NotADateTime
         /\ ~caughtUp' /\ closest'.timestamp # NotADateTime =>
              Minutes(now, closest'.timestamp) > 2
         /\ \/ UNCHANGED <<remote, caughtUp, cores, caughtUpAt>>
            \/ /\ ~caughtUp /\ caughtUp' = TRUE
               /\ closest'.url \in Files /\ remote' = closest'.url
               /\ remote - closest'.url < Round /\ closest'.url <= remote
               /\ caughtUpAt' = [at |-> closest'.url, furthest |-> Furthest, batches |-> Len(db)]
<1>0. Shape /\ JobsInv /\ TasksInv
  BY DEF IInv
<1>r. /\ closest \in [url : Files \cup {NoUrl}, timestamp : Times]
      /\ closest.url # NoUrl <=> closest.timestamp # NotADateTime
      /\ ~caughtUp /\ closest.timestamp # NotADateTime => Minutes(now, closest.timestamp) > 2
      /\ now \in Int
  BY DEF OInv, RestInv
<1> DEFINE caught == ~caughtUp /\ Minutes(now, closest'.timestamp) <= 2
           switch ==
             /\ caughtUp' = TRUE /\ remote' = closest'.url
             /\ caughtUpAt' = [at |-> closest'.url, furthest |-> Furthest, batches |-> Len(db)]
<1>1. PICK k \in DOMAIN tasks :
        /\ closest' = Remember(tasks[k])
        /\ \/ ~caught /\ UNCHANGED <<remote, caughtUp, cores, caughtUpAt>>
           \/ caught /\ closest'.url # NoUrl /\ switch
           \/ caught /\ closest'.url = NoUrl /\ UNCHANGED <<remote, caughtUp, cores, caughtUpAt>>
  BY DEF UpdatePosition, RewindTo
<1>2. PICK j \in DOMAIN jobs, end \in Ends : tasks[k] = TaskOf(jobs[j], end)
  BY <1>0 DEF TasksInv, Shape
<1>3. PICK f \in Files : f = jobs[j] /\ f <= remote /\ remote - f < Round
  BY <1>0, RoundFacts
<1>4. tasks[k].url = f /\ tasks[k].timestamp \in Times /\ f # NoUrl
  BY <1>2, <1>3, TaskTyped, FilesAreNat
<1>5. CASE tasks[k].timestamp # NotADateTime
  <2>1. closest' = [url |-> f, timestamp |-> tasks[k].timestamp]
    BY <1>1, <1>4, <1>5 DEF Remember
  <2>2. /\ closest' \in [url : Files \cup {NoUrl}, timestamp : Times]
        /\ closest'.url = f /\ closest'.timestamp = tasks[k].timestamp
    BY <1>4, <2>1
  <2>3. Minutes(now, closest'.timestamp) \in Int
    BY <1>4, <1>r, <2>2, MinutesInt
  <2>4. ~caughtUp' => Minutes(now, closest'.timestamp) > 2
    <3>1. ~caughtUp' => ~caughtUp /\ ~caught
      BY <1>1, <1>4, <2>2, Zenon
    <3> QED BY <2>3, <3>1
  <2> HIDE DEF caught
  <2>5. \/ UNCHANGED <<remote, caughtUp, cores, caughtUpAt>>
        \/ ~caughtUp /\ switch
    BY <1>1 DEF caught
  <2> QED BY <1>3, <1>4, <1>5, <2>2, <2>4, <2>5
<1>6. CASE tasks[k].timestamp = NotADateTime
  <2>1. closest' = closest
    BY <1>1, <1>6 DEF Remember
  <2>2. closest.url # NoUrl => ~caught
    <3>1. ASSUME closest.url # NoUrl, ~caughtUp PROVE ~(Minutes(now, closest.timestamp) <= 2)
      <4>1. Minutes(now, closest.timestamp) > 2 /\ closest.timestamp \in Times
        BY <1>r, <3>1
      <4>2. Minutes(now, closest.timestamp) \in Int
        BY <1>r, <4>1, MinutesInt
      <4> QED BY <4>1, <4>2
    <3> QED BY <2>1, <3>1
  <2>3. UNCHANGED <<remote, caughtUp, cores, caughtUpAt>>
    <3> HIDE DEF caught, switch
    <3> QED BY <1>1, <2>1, <2>2
  <2> QED BY <1>r, <2>1, <2>3
<1> QED BY <1>5, <1>6

\* At the end of a round the furthest file asked for is no nearer than the position.
LEMMA FurthestFacts ==
  ASSUME IInv, pc = "closest"
  PROVE  Furthest \in Nat /\ remote <= Furthest
<1>0. Shape /\ JobsInv /\ SeenInv
  BY DEF IInv
<1> DEFINE S == {s \in Files : fate[s] # "unseen"}
<1>1. remote \in Nat /\ remote \in Files /\ remote \in Start .. remote /\ jobs # <<>>
  <2>1. /\ remote \in Nat /\ remote \in Files /\ Len(jobs) = Width /\ Width \in Nat \ {0}
        /\ Start <= remote /\ Start \in Nat
    BY <1>0, WidthFacts, FilesAreNat DEF JobsInv, Shape
  <2> QED BY <2>1
<1>2. remote \in S
  BY <1>0, <1>1 DEF SeenInv, Pending
<1>3. S \subseteq Int /\ IsFiniteSet(S)
  <2>1. IsFiniteSet(Files)
    BY PositionAssumption, FS_Interval DEF Files
  <2> QED BY <2>1, FS_Subset, FilesAreNat
<1>4. \E x \in S : \A y \in S : y <= x
  BY <1>2, <1>3, GreatestOf
<1>5. Furthest \in S /\ \A y \in S : y <= Furthest
  BY <1>4 DEF Furthest
<1> QED BY <1>2, <1>5, FilesAreNat

LEMMA UpdateOrder ==
  ASSUME IInv, OInv, UpdatePosition
  PROVE  OInv'
<1>0. Shape /\ JobsInv
  BY DEF IInv
<1> DEFINE keep == UNCHANGED <<remote, caughtUp, cores, caughtUpAt>>
           switch ==
             /\ ~caughtUp /\ caughtUp' = TRUE
             /\ closest'.url \in Files /\ remote' = closest'.url
             /\ remote - closest'.url < Round /\ closest'.url <= remote
             /\ caughtUpAt' = [at |-> closest'.url, furthest |-> Furthest, batches |-> Len(db)]
<1>1. /\ pc = "closest" /\ pc' \in {"round", "stopped", "crashed"}
      /\ jobs' = <<>> /\ ended' = {} /\ tasks' = <<>>
      /\ UNCHANGED <<now, db, fate, lost, mixed>>
  BY UpdateFacts DEF feed
<1>2. /\ closest' \in [url : Files \cup {NoUrl}, timestamp : Times]
      /\ closest'.url # NoUrl <=> closest'.timestamp # NotADateTime
      /\ ~caughtUp' /\ closest'.timestamp # NotADateTime =>
           Minutes(now, closest'.timestamp) > 2
      /\ keep \/ switch
  BY UpdateMore
<1>3. /\ FrontOfRound = remote /\ remote \in Nat /\ Len(db) \in Nat /\ DOMAIN db = 1 .. Len(db)
      /\ Round \in Nat \ {0}
  BY <1>0, <1>1, RoundFacts DEF FrontOfRound
<1>4. remote' \in Nat /\ FrontOfRound' = remote'
  <2>1. remote' \in Nat
    BY <1>2, <1>3, FilesAreNat
  <2>0. Len(jobs') = 0
    BY <1>1
  <2>2. remote' - Len(jobs') = remote'
    <3>1. \A r \in Nat : r - 0 = r
      OBVIOUS
    <3> QED BY ONLY <2>0, <2>1, <3>1, Zenon
  <2>3. FrontOfRound' = IF pc' \in {"connect", "round", "post"} /\ MustAdvance'
                 THEN remote' - Len(jobs') ELSE remote'
    BY DEF FrontOfRound
  <2> QED BY ONLY <2>1, <2>2, <2>3
<1>5. RestInv'
  <2>1. Len(tasks') = 0 /\ Cardinality(ended') = 0
    BY <1>1, FS_EmptySet
  <2> QED BY <1>1, <1>2, <2>1 DEF OInv, RestInv
<1>6. CASE keep
  <2>1. Early' = Early
    BY <1>1, <1>6 DEF Early
  <2>2. BatchInv' /\ RisingInv' /\ RewindInv'
    BY <1>1, <1>6, <2>1 DEF OInv, BatchInv, RisingInv, RewindInv
  <2>3. BehindInv'
    BY <1>1, <1>3, <1>4, <1>6, <2>1 DEF OInv, BehindInv
  <2>4. AgainInv'
    BY <1>1, <1>6, <2>1 DEF OInv, AgainInv, InRound, Pending, Again
  <2> QED BY <1>5, <2>2, <2>3, <2>4 DEF OInv
<1>7. CASE switch
  <2>1. Early' = Len(db) /\ Early = Len(db)
    BY <1>1, <1>7 DEF Early
  <2>2. \A b \in DOMAIN db : b \in Nat /\ b <= Len(db)
    BY <1>3
  <2>3. BatchInv'
    <3>1. Early' \in 0 .. Len(db')
      BY <1>1, <1>3, <2>1
    <3> QED BY <1>1, <2>1, <3>1 DEF OInv, BatchInv
  <2>4. RisingInv'
    BY <1>1, <2>1 DEF OInv, RisingInv
  <2>5. ASSUME NEW b \in DOMAIN db PROVE ~(b > Len(db))
    BY <1>3
  <2>6. BehindInv'
    BY <1>1, <1>7, <2>1, <2>5 DEF BehindInv
  <2>7. ASSUME NEW b \in DOMAIN db, NEW s \in FilesOf(db[b])
        PROVE  s < closest'.url + Round /\ s <= Furthest
    <3>1. s <= remote /\ s \in Nat
      BY <1>3, <1>7, FilesAreNat DEF OInv, BatchInv, BehindInv
    <3>2. closest'.url \in Nat
      BY <1>7, FilesAreNat
    <3> QED BY <1>1, <1>3, <1>7, <3>1, <3>2, FurthestFacts
  <2>8. RewindInv'
    <3>1. /\ caughtUpAt'.at = closest'.url /\ caughtUpAt'.furthest = Furthest
      BY <1>7
    <3>2. closest'.url <= remote' /\ Furthest \in Nat
      BY <1>1, <1>4, <1>7, FurthestFacts
    <3> QED BY <1>1, <1>7, <2>1, <2>2, <2>7, <3>1, <3>2 DEF RewindInv, Round
  <2>9. AgainInv'
    <3>1. caughtUpAt'.at = remote'
      BY <1>7
    <3>2. \A n \in Nat : \A s \in n + 1 .. n : FALSE
      OBVIOUS
    <3> QED BY <1>4, <3>1, <3>2 DEF AgainInv
  <2> QED BY <1>5, <2>3, <2>4, <2>6, <2>8, <2>9 DEF OInv
<1> QED BY <1>2, <1>6, <1>7

LEMMA StepOrder == IInv /\ OInv /\ [Next]_vars => OInv'
<1> SUFFICES ASSUME IInv, OInv, [Next]_vars PROVE OInv'
  OBVIOUS
<1>1. CASE Tick \/ Publish \/ UNCHANGED vars
  BY <1>1, AsideOrder DEF Tick, Publish, vars, monitor, pool, history, feed
<1>2. CASE Connect
  BY <1>2, AsideOrder DEF Connect, pool, history, feed
<1>3. CASE BeginRound
  BY <1>3, AsideOrder DEF BeginRound, pool, history, feed
<1>4. CASE PostTask
  BY <1>4, PostOrder
<1>5. CASE \E k \in DOMAIN jobs : ThreadChangeSet(k)
  BY <1>5, ThreadOrder
<1>6. CASE \E k \in DOMAIN jobs : WorkerDies(k)
  BY <1>6, AsideOrder DEF WorkerDies, pool, history, feed
<1>7. CASE JoinAndQuery
  BY <1>7, JoinOrder
<1>8. CASE UpdatePosition
  BY <1>8, UpdateOrder
<1> QED
  BY <1>1, <1>2, <1>3, <1>4, <1>5, <1>6, <1>7, <1>8 DEF Next

LEMMA OrderInvariance == Spec => []OInv
BY InitOrder, StepOrder, Invariance, PTL DEF Spec

\* Every value of the parameters: the results of a round are those of its workers that
\* have ended, one each, and every variable has its type.
THEOREM Typed == Spec => []TypeOK
<1>1. ASSUME IInv, OInv PROVE TypeOK
  <2>1. Shape /\ JobsInv /\ TasksInv /\ RestInv /\ BatchInv
    BY <1>1 DEF IInv, OInv
  <2>2. ASSUME NEW k \in DOMAIN tasks PROVE tasks[k] \in TaskType
    <3>1. PICK j \in DOMAIN jobs, end \in Ends : tasks[k] = TaskOf(jobs[j], end)
      BY <2>1 DEF TasksInv, Shape
    <3>2. jobs[j] \in Files
      BY <2>1 DEF Shape
    <3> QED BY <3>1, <3>2, TaskTyped
  <2>3. cores \in {1, Cores} /\ Len(jobs) <= Width
    BY <2>1 DEF Shape, JobsInv
  <2>4. \A b \in DOMAIN db : Len(db[b]) \in 1 .. 2 * Cores - 1
    BY <2>1 DEF BatchInv, Round
  <2> QED BY <2>1, <2>2, <2>3, <2>4 DEF TypeOK, Shape, RestInv
<1> QED BY <1>1, Invariance, OrderInvariance, PTL

\* The batches and slots that speak of a changeset of the table, and which of them its
\* row and its newest file are.
LEMMA RowFacts ==
  ASSUME Shape, BatchInv, NEW c \in Stored
  PROVE  \E b \in DOMAIN db :
           /\ RowOf(c) \in FilesOf(db[b]) /\ c \in Mentions[RowOf(c)]
           /\ NewestOf(c) \in Committed(db) /\ c \in Mentions[NewestOf(c)]
           /\ RowOf(c) <= NewestOf(c)
           /\ NewestOf(c) \in Files /\ RowOf(c) \in Files
           /\ \A d \in DOMAIN db : \A s \in FilesOf(db[d]) : c \in Mentions[s] => d <= b
<1> DEFINE Batches == {b \in DOMAIN db : \E k \in DOMAIN db[b] : Speaks(b, k, c)}
           Of == {s \in Committed(db) : c \in Mentions[s]}
<1>1. /\ Len(db) \in Nat /\ DOMAIN db = 1 .. Len(db)
      /\ \A b \in DOMAIN db : db[b] \in Seq(Nat \cup {NoUrl})
  BY DEF Shape
<1>2. Committed(db) \subseteq Files
  BY DEF BatchInv, Committed
<1>3. Of # {} /\ Of \subseteq Int /\ IsFiniteSet(Of)
  <2>1. Of # {}
    BY DEF Stored
  <2>2. IsFiniteSet(Files)
    BY PositionAssumption, FS_Interval DEF Files
  <2>3. Of \in SUBSET Files
    BY <1>2
  <2> QED BY <2>1, <2>2, <2>3, FS_Subset, FilesAreNat
<1>4. ASSUME NEW b \in DOMAIN db, NEW k \in DOMAIN db[b]
      PROVE  Speaks(b, k, c) <=> db[b][k] \in FilesOf(db[b]) /\ c \in Mentions[db[b][k]]
  BY DEF Speaks, FilesOf
<1>5. \A b \in DOMAIN db : \A s \in FilesOf(db[b]) : s \in Committed(db)
  BY DEF Committed
<1>6. \A b \in DOMAIN db : b \in Batches <=> \E s \in FilesOf(db[b]) : c \in Mentions[s]
  BY <1>4 DEF FilesOf
<1>7. PICK b : b = LastBatch(c)
  OBVIOUS
<1>8. b \in Batches /\ \A d \in Batches : d <= b
  <2>1. Batches # {}
    <3>1. PICK s \in Of : TRUE
      BY <1>3
    <3>2. PICK d \in DOMAIN db : s \in FilesOf(db[d])
      BY DEF Committed
    <3> QED BY <1>6, <3>1, <3>2
  <2>2. Batches \subseteq Int /\ IsFiniteSet(Batches)
    <3>1. IsFiniteSet(1 .. Len(db))
      BY <1>1, FS_Interval
    <3>2. Batches \in SUBSET (1 .. Len(db)) /\ Batches \subseteq Int
      BY <1>1
    <3> QED BY <3>1, <3>2, FS_Subset
  <2>3. \E x \in Batches : \A y \in Batches : y <= x
    BY <2>1, <2>2, GreatestOf
  <2> QED BY <1>7, <2>3 DEF LastBatch
<1> DEFINE Slots == {k \in DOMAIN db[b] : Speaks(b, k, c)}
<1>9. \E i \in Slots : \A j \in Slots : j <= i
  <2>1. Slots # {}
    BY <1>8
  <2>2. DOMAIN db[b] = 1 .. Len(db[b]) /\ Len(db[b]) \in Nat
    BY <1>1, <1>8
  <2>3. Slots \subseteq Int /\ IsFiniteSet(Slots)
    <3>1. IsFiniteSet(1 .. Len(db[b]))
      BY <2>2, FS_Interval
    <3>2. Slots \in SUBSET (1 .. Len(db[b])) /\ Slots \subseteq Int
      BY <2>2
    <3> QED BY <3>1, <3>2, FS_Subset
  <2> HIDE DEF Slots
  <2> QED BY <2>1, <2>3, GreatestOf
<1> DEFINE i == CHOOSE k \in DOMAIN db[b] :
                  Speaks(b, k, c) /\ \A j \in DOMAIN db[b] : Speaks(b, j, c) => j <= k
<1>10. i \in DOMAIN db[b] /\ Speaks(b, i, c)
  BY <1>9
<1>11. RowOf(c) = db[b][i]
  BY <1>7 DEF RowOf
<1> HIDE DEF i
<1>12. RowOf(c) \in FilesOf(db[b]) /\ c \in Mentions[RowOf(c)] /\ b \in DOMAIN db
  BY <1>4, <1>8, <1>10, <1>11
<1>13. NewestOf(c) \in Of /\ \A t \in Of : t <= NewestOf(c)
  <2>1. \E x \in Of : \A y \in Of : y <= x
    BY <1>3, GreatestOf
  <2> QED BY <2>1 DEF NewestOf
<1>14. RowOf(c) \in Of
  BY <1>5, <1>12
<1>15. \A d \in DOMAIN db : \A s \in FilesOf(db[d]) : c \in Mentions[s] => d <= b
  BY <1>6, <1>8
<1> QED BY <1>2, <1>12, <1>13, <1>14, <1>15

\* For every number of cores, feed and content: the row of a changeset is never older
\* than the newest file applied that speaks of it by as much as a round is wide.
THEOREM StaleTheorem == Spec => []StaleByLessThanARound
<1>1. ASSUME IInv, OInv PROVE StaleByLessThanARound
  <2> SUFFICES ASSUME NEW c \in Stored PROVE NewestOf(c) - RowOf(c) < Round
    BY DEF StaleByLessThanARound, Round
  <2>0. Shape /\ JobsInv /\ BatchInv /\ RisingInv /\ RewindInv
    BY <1>1 DEF IInv, OInv
  <2>1. PICK b \in DOMAIN db :
          /\ RowOf(c) \in FilesOf(db[b])
          /\ NewestOf(c) \in Committed(db) /\ c \in Mentions[NewestOf(c)]
          /\ NewestOf(c) \in Files /\ RowOf(c) \in Files
          /\ \A d \in DOMAIN db : \A s \in FilesOf(db[d]) : c \in Mentions[s] => d <= b
    BY <2>0, RowFacts
  <2>2. PICK d \in DOMAIN db : NewestOf(c) \in FilesOf(db[d]) /\ d <= b
    BY <2>1 DEF Committed
  <2>3. NewestOf(c) \in Nat /\ RowOf(c) \in Nat /\ Round \in Nat \ {0}
    BY <2>0, <2>1, FilesAreNat, RoundFacts
  <2>4. Early \in Nat /\ Early <= Len(db) /\ b \in Nat /\ d \in Nat /\ b <= Len(db)
    BY <2>0, RoundFacts DEF BatchInv
  <2>5. CASE d = b
    BY <2>0, <2>1, <2>2, <2>5 DEF BatchInv
  <2>6. CASE d < b /\ (b <= Early \/ d > Early)
    <3>1. NewestOf(c) <= RowOf(c)
      BY <2>0, <2>1, <2>2, <2>6 DEF RisingInv
    <3> QED BY <2>3, <3>1
  <2>7. CASE d <= Early /\ b > Early
    <3>1. caughtUp
      BY <2>4, <2>7 DEF Early
    <3>2. NewestOf(c) < caughtUpAt.at + Round /\ caughtUpAt.at \in Nat
      BY <2>0, <2>2, <2>7, <3>1, FilesAreNat DEF RewindInv
    <3>3. caughtUpAt.at <= RowOf(c)
      <4>1. ~(b <= Early)
        BY <2>4, <2>7
      <4> QED BY <2>0, <2>1, <3>1, <4>1 DEF RewindInv
    <3> QED BY <2>3, <3>2, <3>3
  <2> QED BY <2>2, <2>4, <2>5, <2>6, <2>7
<1> QED BY <1>1, Invariance, OrderInvariance, PTL

\* For every number of cores, feed, content and set of faults: once the monitor is back
\* where it had been, a changeset that files after the rewind speak of has the row of
\* the newest, if their second downloads could be read and their batches were committed.
THEOREM SettleTheorem == Spec => []RowsSettle
<1>1. ASSUME IInv, OInv PROVE RowsSettle
  <2> SUFFICES ASSUME caughtUp, pc = "round", remote >= caughtUpAt.furthest, NEW c \in Stored,
                      NewestOf(c) > caughtUpAt.at,
                      \A s \in caughtUpAt.at + 1 .. remote :
                        c \in Mentions[s] => fate[s] = "ok" /\ s \notin lost
               PROVE  RowOf(c) = NewestOf(c)
    BY DEF RowsSettle
  <2>0. Shape /\ JobsInv /\ BatchInv /\ RisingInv /\ BehindInv /\ RewindInv /\ AgainInv
    BY <1>1 DEF IInv, OInv
  <2>1. PICK b \in DOMAIN db :
          /\ RowOf(c) \in FilesOf(db[b])
          /\ NewestOf(c) \in Committed(db) /\ c \in Mentions[NewestOf(c)]
          /\ NewestOf(c) \in Files /\ RowOf(c) \in Files /\ RowOf(c) <= NewestOf(c)
          /\ \A d \in DOMAIN db : \A s \in FilesOf(db[d]) : c \in Mentions[s] => d <= b
    BY <2>0, RowFacts
  <2>2. /\ NewestOf(c) \in Nat /\ RowOf(c) \in Nat /\ caughtUpAt.at \in Nat
        /\ caughtUpAt.furthest \in Nat /\ remote \in Nat /\ FrontOfRound \in Int /\ FrontOfRound <= remote
        /\ Early \in Nat /\ b \in Nat /\ DOMAIN db \subseteq Nat
    <3>1. remote \in Nat /\ FrontOfRound \in Int /\ FrontOfRound <= remote /\ DOMAIN db = 1 .. Len(db)
          /\ Len(db) \in Nat
      BY <2>0, RoundFacts
    <3>2. caughtUpAt.at \in Files /\ caughtUpAt.furthest \in Nat
      BY <2>0 DEF RewindInv
    <3>3. Early \in 0 .. Len(db)
      BY <2>0 DEF BatchInv
    <3>4. b \in Nat /\ DOMAIN db \subseteq Nat /\ Early \in Nat
      BY <3>1, <3>3
    <3>5. NewestOf(c) \in Nat /\ RowOf(c) \in Nat /\ caughtUpAt.at \in Nat
      BY <2>1, <3>2, FilesAreNat
    <3> QED BY <3>1, <3>2, <3>4, <3>5
  <2>3. NewestOf(c) <= remote
    <3>1. PICK d \in DOMAIN db : NewestOf(c) \in FilesOf(db[d])
      BY <2>1 DEF Committed
    <3>2. CASE d <= Early
      <4>1. NewestOf(c) <= caughtUpAt.furthest
        BY <2>0, <3>1, <3>2 DEF RewindInv
      <4> QED BY <2>2, <4>1
    <3>3. CASE d > Early
      <4>1. NewestOf(c) <= FrontOfRound
        BY <2>0, <3>1, <3>3 DEF BehindInv
      <4> QED BY <2>2, <4>1
    <3> QED BY <2>2, <3>2, <3>3
  <2>4. NewestOf(c) \in caughtUpAt.at + 1 .. remote
    BY <2>2, <2>3
  <2>5. Again(NewestOf(c))
    BY <2>0, <2>1, <2>4 DEF AgainInv, InRound, Pending
  <2>6. PICK d \in DOMAIN db : d > Early /\ NewestOf(c) \in FilesOf(db[d]) /\ d <= b
    BY <2>1, <2>5 DEF Again
  <2>7. NewestOf(c) <= RowOf(c)
    <3>1. CASE d = b
      BY <2>0, <2>1, <2>2, <2>6, <3>1 DEF BatchInv
    <3>2. CASE d < b
      BY <2>0, <2>1, <2>6, <3>2 DEF RisingInv
    <3> QED BY <2>2, <2>6, <3>1, <3>2
  <2> QED BY <2>1, <2>2, <2>7
<1> QED BY <1>1, Invariance, OrderInvariance, PTL
=============================================================================
