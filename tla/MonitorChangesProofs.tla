------------------------ MODULE MonitorChangesProofs ------------------------
(***************************************************************************)
(* Safety of MonitorChanges for every feed, configuration and fault.       *)
(*                                                                         *)
(* The inductive invariant IInv is a conjunction of named parts: where the *)
(* position stands (PosInv), what the slots of the round hold (SlotInv),   *)
(* what has become of every file up to the position (AccountInv) and what  *)
(* being caught up guarantees (SteadyInv).                                 *)
(*                                                                         *)
(* Then the refinement of FeedFollower, and the order in which the         *)
(* statements of the files run (OrderInv).                                 *)
(***************************************************************************)
EXTENDS MonitorChanges, SequenceTheorems, TLAPS

\* The position, the round's jobs and the bound: the last job is the position,
\* the jobs are at most the position, and at the first file nothing has failed.
PosInv ==
  /\ pc = "post" /\ MustAdvance =>
       remote + (concurrentTasks - Len(jobs)) <= MaxSeq
  /\ pc \in {"osmquery", "closest"} => Len(jobs) = concurrentTasks
  /\ pc = "round" => jobs = <<>>
  /\ remote = Start => lastStatus = "success" /\ jobs = <<>>
  /\ jobs # <<>> => jobs[Len(jobs)] = remote
  /\ \A k \in DOMAIN jobs : jobs[k] <= remote
  /\ closest.url # NoUrl => closest.url <= remote

\* A slot is empty or holds the task that its own job made.
SlotInv ==
  \A k \in DOMAIN tasks :
    \/ tasks[k] = NoTask
    \/ k \in DOMAIN jobs /\ \E end \in Ends : tasks[k] = TaskOf(jobs[k], end)

\* Once the slots are full, none is empty any more.
FullInv ==
  pc \in {"osmquery", "closest"} => \A k \in DOMAIN tasks : tasks[k].status # "none"

\* A file still to be downloaded in this round.
Pending(s) ==
  /\ pc = "post"
  /\ \E k \in DOMAIN jobs : jobs[k] = s /\ tasks[k].status = "none"

\* The statements of file s for st are in this round's vector, not yet run.
InRound(s, st) ==
  /\ \/ pc \in {"post", "crashed"}
     \/ pc = "osmquery" /\ st = "osm"
  /\ \E k \in DOMAIN tasks : tasks[k].url = s /\ st \in tasks[k].query

SeenInv ==
  pc # "crashed" =>
    \A s \in Start + 1 .. remote : fate[s] # "unseen" \/ Pending(s)

AccountInv ==
  \A s \in Files : \A st \in Enabled :
    fate[s] = "ok" /\ HasChanges(s) => Settled(s, st) \/ InRound(s, st)

\* What has been run is settled, and so is the file closest points to.
RunInv ==
  /\ \A k \in DOMAIN tasks : \A st \in tasks[k].query :
       pc = "closest" \/ (pc = "osmquery" /\ st = "underpass")
         => Settled(tasks[k].url, st)
  /\ closest.url # NoUrl /\ HasChanges(closest.url) =>
       \A st \in Enabled : Settled(closest.url, st)

SteadyInv ==
  caughtUp =>
    /\ concurrentTasks = 1
    /\ caughtUpAt.at \in Files /\ caughtUpAt.at <= remote
    /\ HasChanges(caughtUpAt.at) =>
         \A st \in Enabled : Settled(caughtUpAt.at, st)
    /\ \A s \in caughtUpAt.at + 1 .. remote - 1 : fate[s] \in {"ok", "readError"}
    /\ lastStatus = "success" /\ jobs = <<>> /\ remote > caughtUpAt.at =>
         fate[remote] \in {"ok", "readError"}
    /\ \A k \in DOMAIN tasks :
         tasks[k].status = "success" => fate[remote] \in {"ok", "readError"}

IInv ==
  /\ TypeOK /\ PosInv /\ SlotInv /\ FullInv /\ SeenInv /\ AccountInv /\ RunInv
  /\ SteadyInv /\ WindowCovered

-----------------------------------------------------------------------------
(* Lemmas about the operators.                                             *)

\* Timestamps grow with the sequence number.
LEMMA StampFacts ==
  ASSUME NEW s \in Nat, NEW t \in Nat
  PROVE  Stamp(s) \in Nat /\ (Stamp(s) < Stamp(t) => s < t)
<1>1. Period \in Nat /\ Period > 0
  BY ClockAssumption
<1>2. Stamp(s) \in Nat
  BY <1>1 DEF Stamp
<1>3. ASSUME t <= s PROVE Stamp(t) <= Stamp(s)
  <2>1. PICK d \in Nat : s = t + d
    <3>1. s - t \in Nat /\ s = t + (s - t)
      BY <1>3
    <3> QED BY <3>1
  <2>2. d * Period \in Nat
    BY <1>1
  <2>3. s * Period = t * Period + d * Period
    BY <1>1, <2>1
  <2>4. t * Period \in Nat
    BY <1>1
  <2> QED BY <2>2, <2>3, <2>4 DEF Stamp
<1>4. Stamp(t) \in Nat
  BY <1>1 DEF Stamp
<1> QED BY <1>2, <1>3, <1>4

LEMMA FilesAreNat ==
  /\ \A s \in Files : s \in Nat /\ s \in Int /\ s > Start /\ s <= MaxSeq
  /\ NoUrl \notin Nat /\ NoUrl \notin Files
BY PositionAssumption DEF Files, NoUrl

\* What a worker makes of a download: every task names its file, is not empty,
\* has statements only after a good download and a timestamp only then.
LEMMA TaskOfFacts ==
  ASSUME NEW s \in Files, NEW end \in Ends
  PROVE  LET t == TaskOf(s, end)
         IN  /\ t \in TaskType
             /\ t.url = s
             /\ t.status # "none"
             /\ t.query \subseteq Enabled
             /\ t.timestamp # NotADateTime => t.timestamp = Stamp(s) /\ end = "ok"
             /\ t.status = "success" => end \in {"ok", "readError"}
             /\ end = "ok" /\ HasChanges(s) => t.query = Enabled
             /\ t.query # {} => end = "ok" /\ HasChanges(s)
<1>1. Stamp(s) \in Times /\ NotADateTime \in Times /\ s \in Nat
  BY StampFacts, FilesAreNat DEF Times
<1>2. CASE end = "ok"
  <2>1. TaskOf(s, end) = Task(s, IF s \in Empty THEN NotADateTime ELSE Stamp(s),
                              "success", IF HasChanges(s) THEN Enabled ELSE {})
    BY <1>2 DEF TaskOf
  <2> QED
    BY <1>1, <1>2, <2>1, EnabledAssumption DEF Task, TaskType, Statuses
<1>3. CASE end = "readError"
  <2>1. TaskOf(s, end) = Task(s, NotADateTime, "success", {})
    BY <1>3 DEF TaskOf
  <2> QED
    BY <1>1, <1>3, <2>1 DEF Task, TaskType, Statuses
<1>4. CASE end \notin {"ok", "readError"}
  <2>1. TaskOf(s, end) = Task(s, NotADateTime, end, {})
    BY <1>4 DEF TaskOf
  <2> QED
    BY <1>1, <1>4, <2>1 DEF Task, TaskType, Statuses, Ends
<1> QED BY <1>2, <1>3, <1>4

LEMMA NoTaskFacts ==
  /\ NoTask \in TaskType /\ NoTask.status = "none" /\ NoTask.query = {}
  /\ NoTask.timestamp = NotADateTime
BY DEF NoTask, Task, TaskType, Statuses, Times

\* Committing a batch adds exactly its files.
LEMMA CommittedAppend ==
  ASSUME NEW T, NEW log \in Seq(T), NEW batch
  PROVE  Committed(Append(log, batch)) = Committed(log) \cup FilesOf(batch)
<1> DEFINE new == Append(log, batch)
<1>1. /\ DOMAIN new = DOMAIN log \cup {Len(log) + 1}
      /\ new[Len(log) + 1] = batch
      /\ \A b \in DOMAIN log : new[b] = log[b]
  OBVIOUS
<1>2. ASSUME NEW f \in Committed(new)
      PROVE  f \in Committed(log) \cup FilesOf(batch)
  BY <1>1, <1>2 DEF Committed
<1>3. ASSUME NEW f \in Committed(log) PROVE f \in Committed(new)
  BY <1>1, <1>3 DEF Committed
<1>4. ASSUME NEW f \in FilesOf(batch) PROVE f \in Committed(new)
  BY <1>1, <1>4 DEF Committed
<1> QED BY <1>2, <1>3, <1>4

\* The batch of a connection is one entry per slot, naming exactly the files of
\* the slots with statements for it.
LEMMA BatchFacts ==
  ASSUME NEW st \in Stores, tasks \in Seq(TaskType)
  PROVE  LET batch == AllTasksQueries(tasks, st)
         IN  /\ batch \in Seq(Nat \cup {NoUrl})
             /\ \A k \in DOMAIN tasks :
                  st \in tasks[k].query /\ tasks[k].url # NoUrl
                    => tasks[k].url \in FilesOf(batch)
             /\ \A f \in FilesOf(batch) : \E k \in DOMAIN tasks :
                  tasks[k].url = f /\ st \in tasks[k].query /\ f # NoUrl
<1> DEFINE batch == AllTasksQueries(tasks, st)
<1>1. DOMAIN tasks = 1 .. Len(tasks) /\ Len(tasks) \in Nat
  OBVIOUS
<1>2. ASSUME NEW k \in DOMAIN tasks
      PROVE  tasks[k].url \in Nat \cup {NoUrl}
  <2>1. tasks[k] \in TaskType
    BY <1>1
  <2> QED BY <2>1 DEF TaskType
<1>3. /\ DOMAIN batch = DOMAIN tasks
      /\ \A k \in DOMAIN tasks :
           batch[k] = IF st \in tasks[k].query THEN tasks[k].url ELSE NoUrl
  BY DEF AllTasksQueries
<1>4. batch \in [1 .. Len(tasks) -> Nat \cup {NoUrl}]
  BY <1>1, <1>2 DEF AllTasksQueries
<1>5. batch \in Seq(Nat \cup {NoUrl})
  BY <1>1, <1>4, SeqDef
<1> QED BY <1>3, <1>5 DEF FilesOf

\* Running the statements of a connection settles every file of the round that
\* has some, and unsettles none.
LEMMA RunQueryFacts ==
  ASSUME TypeOK, NEW store \in Stores, RunQuery(store)
  PROVE  /\ db' \in [Stores -> Seq(Seq(Nat \cup {NoUrl}))]
         /\ \A s, st : st \in Stores /\ Settled(s, st) => Settled(s, st)'
         /\ \A f, k : /\ k \in DOMAIN tasks
                       /\ store \in tasks[k].query
                       /\ tasks[k].url = f /\ f # NoUrl
                       => Settled(f, store)'
<1> DEFINE batch == AllTasksQueries(tasks, store)
<1>1. /\ tasks \in Seq(TaskType)
      /\ db \in [Stores -> Seq(Seq(Nat \cup {NoUrl}))]
      /\ lost \in [Stores -> SUBSET Files]
  BY DEF TypeOK
<1>2. /\ batch \in Seq(Nat \cup {NoUrl})
      /\ \A k \in DOMAIN tasks :
           store \in tasks[k].query /\ tasks[k].url # NoUrl
             => tasks[k].url \in FilesOf(batch)
  BY <1>1, BatchFacts
<1>4. CASE FilesOf(batch) = {} /\ UNCHANGED <<db, lost>>
  BY <1>1, <1>2, <1>4 DEF Settled
<1>5. CASE /\ FilesOf(batch) # {}
           /\ db' = [db EXCEPT ![store] = Append(@, batch)]
           /\ UNCHANGED lost
  <2>1. db[store] \in Seq(Seq(Nat \cup {NoUrl}))
    BY <1>1
  <2>2. Append(db[store], batch) \in Seq(Seq(Nat \cup {NoUrl}))
    BY <1>2, <2>1
  <2>3. db' \in [Stores -> Seq(Seq(Nat \cup {NoUrl}))]
    BY <1>1, <1>5, <2>2
  <2>4. Committed(db'[store]) = Committed(db[store]) \cup FilesOf(batch)
    BY <1>1, <1>5, <2>1, CommittedAppend
  <2>5. \A st \in Stores : st # store => db'[st] = db[st]
    BY <1>1, <1>5
  <2> QED BY <1>2, <1>5, <2>3, <2>4, <2>5 DEF Settled
<1>6. CASE /\ FilesOf(batch) # {}
           /\ lost' = [lost EXCEPT ![store] = @ \cup FilesOf(batch)]
           /\ UNCHANGED db
  <2>1. /\ lost'[store] = lost[store] \cup FilesOf(batch)
        /\ \A st \in Stores : st # store => lost'[st] = lost[st]
    BY <1>1, <1>6
  <2> QED BY <1>1, <1>2, <1>6, <2>1 DEF Settled
<1> QED BY <1>4, <1>5, <1>6 DEF RunQuery

-----------------------------------------------------------------------------
(* The initial state, and one lemma per action.                            *)

LEMMA InitInv == Init => IInv
<1> SUFFICES ASSUME Init PROVE IInv
  OBVIOUS
<1> USE DEF Init
<1>1. TypeOK
  <2>1. /\ now \in Nat /\ newest \in Nat /\ pc \in PcValues
        /\ remote \in Start .. MaxSeq /\ lastStatus \in Statuses
        /\ caughtUp \in BOOLEAN /\ concurrentTasks \in Nat \ {0}
    <3>1. now \in Nat /\ newest \in Nat
      BY FeedAssumption
    <3>2. remote \in Start .. MaxSeq
      BY PositionAssumption
    <3>3. concurrentTasks \in Nat \ {0}
      BY CoresAssumption
    <3>4. pc \in PcValues /\ lastStatus \in Statuses /\ caughtUp \in BOOLEAN
      BY DEF PcValues, FirstStatus, Statuses
    <3> QED BY <3>1, <3>2, <3>3, <3>4
  <2>2. closest \in [url : Files \cup {NoUrl}, timestamp : Times]
    BY DEF Times
  <2>3. caughtUpAt \in [at : Files \cup {NoUrl}, batches : [Stores -> Nat]]
    BY DEF NoSwitch
  <2>4. /\ jobs \in Seq(Files) /\ Len(jobs) <= concurrentTasks
        /\ tasks \in Seq(TaskType)
    BY <2>1
  <2>5. /\ db \in [Stores -> Seq(Seq(Nat \cup {NoUrl}))]
        /\ fate \in [Files -> Ends \cup {"unseen"}]
        /\ lost \in [Stores -> SUBSET Files]
    OBVIOUS
  <2> QED BY <2>1, <2>2, <2>3, <2>4, <2>5 DEF TypeOK
<1>2. PosInv /\ SlotInv /\ FullInv
  BY PositionAssumption DEF PosInv, SlotInv, FullInv, FirstStatus
<1>3. SeenInv /\ AccountInv /\ RunInv /\ SteadyInv /\ WindowCovered
  BY PositionAssumption
  DEF SeenInv, AccountInv, RunInv, SteadyInv, WindowCovered, Files
<1> QED BY <1>1, <1>2, <1>3 DEF IInv

\* The clock and the server touch nothing of the monitor's.
LEMMA FeedStep ==
  ASSUME IInv, UNCHANGED <<monitor, jobs, tasks, db, history>>,
         now' \in Nat, newest' \in Nat
  PROVE  IInv'
<1> USE DEF IInv, monitor, history
<1>1. TypeOK'
  BY DEF TypeOK
<1>2. PosInv' /\ SlotInv' /\ FullInv'
  BY DEF PosInv, SlotInv, FullInv, MustAdvance
<1>3. SeenInv' /\ AccountInv'
  BY DEF SeenInv, AccountInv, Pending, InRound, Settled
<1>4. RunInv' /\ SteadyInv' /\ WindowCovered'
  BY DEF RunInv, SteadyInv, WindowCovered, Settled
<1> QED BY <1>1, <1>2, <1>3, <1>4

LEMMA TickStep == IInv /\ Tick => IInv'
BY FeedStep DEF Tick, IInv, TypeOK

LEMMA PublishStep == IInv /\ Publish => IInv'
BY FeedStep DEF Publish, IInv, TypeOK

LEMMA BeginRoundStep == IInv /\ BeginRound => IInv'
<1> SUFFICES ASSUME IInv, BeginRound PROVE IInv'
  OBVIOUS
<1> USE DEF IInv, BeginRound, feed, history
<1>0. /\ concurrentTasks \in Nat \ {0}
      /\ tasks' \in Seq(TaskType) /\ Len(tasks') = concurrentTasks
      /\ DOMAIN tasks' = 1 .. concurrentTasks
      /\ \A k \in DOMAIN tasks' : tasks'[k] = NoTask
  <2>1. concurrentTasks \in Nat
    BY DEF TypeOK
  <2>2. tasks' \in [1 .. concurrentTasks -> TaskType]
    BY NoTaskFacts
  <2>3. tasks' \in Seq(TaskType)
    BY <2>1, <2>2, SeqDef
  <2>4. DOMAIN tasks' = 1 .. concurrentTasks
    BY <2>2
  <2>5. Len(tasks') = concurrentTasks
    BY <2>1, <2>3, <2>4, LenProperties
  <2>6. concurrentTasks \in Nat \ {0}
    BY DEF TypeOK
  <2> QED BY <2>3, <2>4, <2>5, <2>6
<1>1. TypeOK'
  BY <1>0 DEF TypeOK, PcValues
<1>2. jobs' = <<>>
  BY DEF PosInv
<1>3. PosInv'
  BY <1>2 DEF PosInv, MustAdvance, TypeOK
<1>4. SlotInv' /\ FullInv'
  BY <1>0 DEF SlotInv, FullInv
<1>5. SeenInv'
  BY DEF SeenInv, Pending
<1>6. AccountInv'
  BY DEF AccountInv, InRound, Settled
<1>7. RunInv'
  BY DEF RunInv, Settled
<1>8. SteadyInv'
  BY <1>0, <1>2, NoTaskFacts DEF SteadyInv, Settled
<1>9. WindowCovered'
  BY DEF WindowCovered
<1> QED BY <1>1, <1>3, <1>4, <1>5, <1>6, <1>7, <1>8, <1>9

LEMMA PostTaskStep == IInv /\ PostTask => IInv'
<1> SUFFICES ASSUME IInv, PostTask PROVE IInv'
  OBVIOUS
<1> USE DEF IInv, PostTask, feed, history
<1>0. /\ jobs \in Seq(Files) /\ concurrentTasks \in Nat \ {0}
      /\ remote \in Start .. MaxSeq /\ Len(jobs) \in Nat
      /\ Start \in Nat /\ MaxSeq \in Nat
  BY PositionAssumption DEF TypeOK
<1>1. remote' \in Files /\ remote' >= remote
  <2>1. CASE MustAdvance
    BY <1>0, <2>1 DEF PosInv, Files
  <2>2. CASE ~MustAdvance
    BY <1>0, <2>2 DEF PosInv, Files, MustAdvance
  <2> QED BY <2>1, <2>2
<1>2. /\ jobs' \in Seq(Files) /\ Len(jobs') = Len(jobs) + 1
      /\ DOMAIN jobs' = DOMAIN jobs \cup {Len(jobs) + 1}
      /\ \A k \in DOMAIN jobs : jobs'[k] = jobs[k]
      /\ jobs'[Len(jobs) + 1] = remote'
      /\ jobs' # <<>>
  BY <1>0, <1>1
<1>3. TypeOK'
  BY <1>0, <1>1, <1>2 DEF TypeOK, Files
<1>4. PosInv'
  <2>1. (pc = "post" /\ MustAdvance =>
           remote + (concurrentTasks - Len(jobs)) <= MaxSeq)'
    BY <1>0, <1>2 DEF PosInv, MustAdvance
  <2>2. \A k \in DOMAIN jobs' : jobs'[k] <= remote'
    <3>0. \A k \in DOMAIN jobs : jobs[k] \in Files
      BY <1>0
    <3>1. \A k \in DOMAIN jobs : jobs[k] <= remote
      BY DEF PosInv
    <3>2. \A k \in DOMAIN jobs : jobs[k] \in Int
      BY <3>0, FilesAreNat
    <3> QED BY <1>0, <1>1, <1>2, <3>1, <3>2, FilesAreNat
  <2>3. remote' # Start
    BY <1>0, <1>1 DEF Files
  <2>4. ASSUME closest.url # NoUrl PROVE closest.url <= remote'
    <3>1. closest.url \in Files
      BY <2>4 DEF TypeOK
    <3>2. closest.url <= remote
      BY <2>4 DEF PosInv
    <3>3. closest.url \in Int /\ remote' \in Int
      BY ONLY <1>1, <3>1, FilesAreNat
    <3>4. remote \in Int
      BY <1>0
    <3> QED BY ONLY <1>1, <3>2, <3>3, <3>4
  <2>5. pc' = "post" /\ jobs'[Len(jobs')] = remote' /\ closest' = closest
    BY <1>2
  <2>6. (closest.url # NoUrl => closest.url <= remote)'
    BY <2>4, <2>5
  <2> HIDE DEF PostTask, IInv
  <2> QED BY <2>1, <2>2, <2>3, <2>5, <2>6 DEF PosInv
<1>5. SlotInv' /\ FullInv'
  BY <1>2 DEF SlotInv, FullInv
<1>6. SeenInv'
  <2>1. ASSUME NEW s \in Start + 1 .. remote'
        PROVE  fate[s] # "unseen" \/ Pending(s)'
    <3>1. CASE s = remote' /\ s # remote
      <4>1. Len(jobs) + 1 \in DOMAIN tasks
        BY <1>0 DEF TypeOK
      <4>2. fate[s] # "unseen" \/ tasks[Len(jobs) + 1].status = "none"
        <5>1. Len(jobs) + 1 \notin DOMAIN jobs
          BY <1>0
        <5> QED BY <4>1, <5>1, NoTaskFacts DEF SlotInv
      <4> QED BY <1>2, <3>1, <4>2 DEF Pending
    <3>2. CASE s \in Start + 1 .. remote
      <4>1. fate[s] # "unseen" \/ Pending(s)
        BY <3>2 DEF SeenInv
      <4> QED BY <1>2, <4>1 DEF Pending
    <3> QED BY <1>0, <1>1, <2>1, <3>1, <3>2
  <2> QED BY <2>1 DEF SeenInv
<1>7. AccountInv'
  BY DEF AccountInv, InRound, Settled
<1>8. RunInv'
  BY DEF RunInv, Settled
<1>9. SteadyInv'
  <2> SUFFICES ASSUME caughtUp PROVE SteadyInv'
    BY DEF SteadyInv
  <2>1. jobs = <<>> /\ concurrentTasks = 1
    BY <1>0 DEF SteadyInv
  <2>2. \A k \in DOMAIN tasks : tasks[k] = NoTask
    BY <2>1 DEF SlotInv
  <2>3. /\ caughtUpAt.at \in Files /\ caughtUpAt.at <= remote
        /\ \A s \in caughtUpAt.at + 1 .. remote - 1 : fate[s] \in {"ok", "readError"}
        /\ lastStatus = "success" /\ remote > caughtUpAt.at =>
             fate[remote] \in {"ok", "readError"}
    BY <1>0, <2>1 DEF SteadyInv
  <2>31. caughtUpAt.at \in Int /\ remote \in Int
    BY <1>0, <2>3, FilesAreNat
  <2>4. \A s \in caughtUpAt.at + 1 .. remote' - 1 : fate[s] \in {"ok", "readError"}
    <3>1. CASE MustAdvance
      <4>1. lastStatus = "success" /\ remote' = remote + 1
        BY <3>1 DEF MustAdvance
      <4>2. ASSUME NEW s \in caughtUpAt.at + 1 .. remote
            PROVE  fate[s] \in {"ok", "readError"}
        BY <2>3, <2>31, <4>1
      <4> QED BY <2>31, <4>1, <4>2
    <3>2. CASE ~MustAdvance
      BY <2>3, <3>2
    <3> QED BY <3>1, <3>2
  <2>5. caughtUpAt.at <= remote'
    BY <1>1, <2>3, <2>31, FilesAreNat
  <2> QED BY <1>2, <2>1, <2>2, <2>3, <2>4, <2>5, NoTaskFacts DEF SteadyInv, Settled
<1>10. WindowCovered'
  BY DEF WindowCovered
<1> QED BY <1>3, <1>4, <1>5, <1>6, <1>7, <1>8, <1>9, <1>10

LEMMA ThreadStep ==
  ASSUME IInv, NEW k \in DOMAIN tasks, ThreadOsmChange(k)
  PROVE  IInv'
<1> USE DEF IInv, feed, monitor
<1>1. PICK end \in Downloads(jobs[k]) :
        /\ tasks' = [tasks EXCEPT ![k] = TaskOf(jobs[k], end)]
        /\ fate' = [fate EXCEPT ![jobs[k]] = end]
  BY DEF ThreadOsmChange, StoreTask
<1>2. /\ pc = "post" /\ k \in DOMAIN jobs /\ tasks[k].status = "none"
      /\ UNCHANGED <<feed, monitor, jobs, db, lost, caughtUpAt>>
  BY DEF ThreadOsmChange
<1> DEFINE f == jobs[k]
           t == TaskOf(f, end)
<1>3. end \in Ends
  BY DEF Downloads, Ends
<1>4. f \in Files /\ jobs \in Seq(Files) /\ tasks \in Seq(TaskType)
  <2>1. jobs \in Seq(Files) /\ tasks \in Seq(TaskType)
    BY DEF TypeOK
  <2> QED BY <1>2, <2>1
<1>5. /\ t \in TaskType /\ t.url = f /\ t.status # "none"
      /\ t.query \subseteq Enabled
      /\ t.status = "success" => end \in {"ok", "readError"}
      /\ end = "ok" /\ HasChanges(f) => t.query = Enabled
  BY <1>3, <1>4, TaskOfFacts
<1>6. /\ tasks' \in Seq(TaskType) /\ Len(tasks') = Len(tasks)
      /\ DOMAIN tasks' = DOMAIN tasks
      /\ tasks'[k] = t
      /\ \A l \in DOMAIN tasks : l # k => tasks'[l] = tasks[l]
  BY <1>1, <1>4, <1>5, ExceptSeq
<1>7. /\ fate' \in [Files -> Ends \cup {"unseen"}]
      /\ fate'[f] = end
      /\ \A s \in Files : s # f => fate'[s] = fate[s]
  BY <1>1, <1>3, <1>4 DEF TypeOK
<1> HIDE DEF f, t
<1>8. TypeOK'
  BY <1>2, <1>6, <1>7 DEF TypeOK
<1>9. PosInv' /\ FullInv'
  BY <1>2 DEF PosInv, FullInv, MustAdvance
<1>10. SlotInv'
  <2> SUFFICES ASSUME NEW l \in DOMAIN tasks
               PROVE  \/ tasks'[l] = NoTask
                      \/ l \in DOMAIN jobs /\ \E e \in Ends : tasks'[l] = TaskOf(jobs[l], e)
    BY <1>2, <1>6 DEF SlotInv
  <2>1. CASE l = k
    BY <1>2, <1>3, <1>6, <2>1 DEF f, t
  <2>2. CASE l # k
    BY <1>6, <2>2 DEF SlotInv
  <2> QED BY <2>1, <2>2
<1>11. SeenInv'
  <2> SUFFICES ASSUME NEW s \in Start + 1 .. remote
               PROVE  fate'[s] # "unseen" \/ Pending(s)'
    BY <1>2 DEF SeenInv
  <2>0. s \in Files
    BY PositionAssumption DEF TypeOK, Files
  <2>1. CASE s = f
    BY <1>3, <1>7, <2>1 DEF Ends
  <2>2. CASE s # f
    <3>1. fate[s] # "unseen" \/ Pending(s)
      BY <1>2 DEF SeenInv
    <3>2. ASSUME Pending(s) PROVE Pending(s)'
      <4>1. PICK l \in DOMAIN jobs : jobs[l] = s /\ tasks[l].status = "none"
        BY <3>2 DEF Pending
      <4>2. l # k
        BY <2>2, <4>1 DEF f
      <4>3. l \in DOMAIN tasks
        <5>1. Len(jobs) <= concurrentTasks /\ Len(tasks) = concurrentTasks
          BY <1>2 DEF TypeOK
        <5>2. concurrentTasks \in Nat /\ Len(jobs) \in Nat
          BY <1>4 DEF TypeOK
        <5> QED BY <1>4, <4>1, <5>1, <5>2
      <4> QED BY <1>2, <1>6, <4>1, <4>2, <4>3 DEF Pending
    <3> QED BY <1>7, <2>0, <2>2, <3>1, <3>2
  <2> QED BY <2>1, <2>2
<1>12. AccountInv'
  <2> SUFFICES ASSUME NEW s \in Files, NEW st \in Enabled,
                      fate'[s] = "ok", HasChanges(s)
               PROVE  Settled(s, st)' \/ InRound(s, st)'
    BY DEF AccountInv
  <2>1. CASE s = f
    <3>1. end = "ok"
      BY <1>7, <2>1
    <3>2. tasks'[k].url = s /\ st \in tasks'[k].query
      BY <1>5, <1>6, <2>1, <3>1
    <3> QED BY <1>2, <1>6, <3>2 DEF InRound
  <2>2. CASE s # f
    <3>1. Settled(s, st) \/ InRound(s, st)
      BY <1>7, <2>2 DEF AccountInv
    <3>2. ASSUME InRound(s, st) PROVE InRound(s, st)'
      <4>1. PICK l \in DOMAIN tasks : tasks[l].url = s /\ st \in tasks[l].query
        BY <3>2 DEF InRound
      <4>2. l # k
        <5>1. tasks[k] = NoTask
          <6>1. \A e \in Ends : tasks[k] # TaskOf(jobs[k], e)
            BY <1>2, <1>4, TaskOfFacts DEF f
          <6> QED BY <6>1 DEF SlotInv
        <5> QED BY <4>1, <5>1, NoTaskFacts
      <4> QED BY <1>2, <1>6, <4>1, <4>2 DEF InRound
    <3> QED BY <1>2, <3>1, <3>2 DEF Settled
  <2> QED BY <2>1, <2>2
<1>13. RunInv'
  BY <1>2 DEF RunInv, Settled
<1>14. SteadyInv'
  <2> SUFFICES ASSUME caughtUp PROVE SteadyInv'
    BY <1>2 DEF SteadyInv
  <2>1. concurrentTasks = 1 /\ DOMAIN jobs = {1} /\ k = 1 /\ f = remote /\ jobs # <<>>
    <3>1. concurrentTasks = 1 /\ Len(jobs) <= 1 /\ Len(jobs) \in Nat
      BY <1>4 DEF SteadyInv, TypeOK
    <3>2. DOMAIN jobs = 1 .. Len(jobs)
      BY <1>4, LenProperties
    <3>3. k \in 1 .. Len(jobs)
      BY <1>2, <3>2
    <3>4. Len(jobs) = 1 /\ k = 1 /\ DOMAIN jobs = {1}
      BY <3>1, <3>2, <3>3
    <3>5. jobs # <<>>
      <4>1. 1 \in DOMAIN jobs /\ 1 \notin DOMAIN << >>
        BY <3>4
      <4> QED BY ONLY <4>1
    <3>6. jobs[1] = remote
      BY <3>4, <3>5 DEF PosInv
    <3> QED BY <3>1, <3>4, <3>5, <3>6 DEF f
  <2>2. DOMAIN tasks = {1}
    <3>1. Len(tasks) = 1
      BY <1>2, <2>1 DEF TypeOK
    <3> QED BY <1>4, <3>1
  <2>3. \A l \in DOMAIN tasks' :
          tasks'[l].status = "success" => fate'[remote] \in {"ok", "readError"}
    BY <1>5, <1>6, <1>7, <2>1, <2>2
  <2>4. ASSUME NEW s \in caughtUpAt.at + 1 .. remote - 1
        PROVE  fate'[s] \in {"ok", "readError"}
    <3>1. caughtUpAt.at \in Files /\ fate[s] \in {"ok", "readError"}
      BY DEF SteadyInv
    <3>2. remote \in Start .. MaxSeq
      BY DEF TypeOK
    <3>3. s \in Files /\ s # remote
      BY <3>1, <3>2, FilesAreNat, PositionAssumption DEF Files
    <3> QED BY <1>7, <2>1, <3>1, <3>3
  <2>5. /\ caughtUpAt.at \in Files /\ caughtUpAt.at <= remote
        /\ HasChanges(caughtUpAt.at) =>
             \A st \in Enabled : Settled(caughtUpAt.at, st)
    BY DEF SteadyInv
  <2> QED BY <1>2, <2>1, <2>3, <2>4, <2>5 DEF SteadyInv, Settled
<1>15. WindowCovered'
  BY <1>2 DEF WindowCovered
<1> QED BY <1>8, <1>9, <1>10, <1>11, <1>12, <1>13, <1>14, <1>15

LEMMA ResolverStep ==
  ASSUME IInv, NEW k \in DOMAIN tasks, ResolverThrows(k)
  PROVE  IInv'
<1> USE DEF IInv, ResolverThrows, feed, history
<1>1. TypeOK'
  BY DEF TypeOK, PcValues
<1>2. PosInv' /\ SlotInv' /\ FullInv' /\ SeenInv'
  BY DEF PosInv, SlotInv, FullInv, SeenInv, MustAdvance
<1>3. AccountInv'
  BY DEF AccountInv, InRound, Settled
<1>4. RunInv' /\ SteadyInv' /\ WindowCovered'
  BY DEF RunInv, SteadyInv, WindowCovered, Settled
<1> QED BY <1>1, <1>2, <1>3, <1>4

\* The statements of a connection run at the end of a round: what they share.
LEMMA QueryStep ==
  ASSUME IInv, NEW store \in Stores, RunQuery(store),
         UNCHANGED <<feed, remote, lastStatus, closest, caughtUp,
                     concurrentTasks, jobs, tasks, fate, caughtUpAt>>,
         \/ pc = "post" /\ store = "underpass" /\ pc' = "osmquery"
         \/ pc = "osmquery" /\ store = "osm" /\ pc' = "closest",
         Len(jobs) = concurrentTasks,
         \A k \in DOMAIN tasks : tasks[k].status # "none"
  PROVE  IInv'
<1> USE DEF IInv, feed
<1>1. /\ db' \in [Stores -> Seq(Seq(Nat \cup {NoUrl}))]
      /\ \A s, st : st \in Stores /\ Settled(s, st) => Settled(s, st)'
      /\ \A s, k : /\ k \in DOMAIN tasks /\ store \in tasks[k].query
                   /\ tasks[k].url = s /\ s # NoUrl
                   => Settled(s, store)'
  BY RunQueryFacts
<1>2. \A k \in DOMAIN tasks :
        tasks[k].url \in Files /\ tasks[k].query \subseteq Enabled
  <2> SUFFICES ASSUME NEW k \in DOMAIN tasks
               PROVE  tasks[k].url \in Files /\ tasks[k].query \subseteq Enabled
    OBVIOUS
  <2>1. PICK end \in Ends : k \in DOMAIN jobs /\ tasks[k] = TaskOf(jobs[k], end)
    BY NoTaskFacts DEF SlotInv
  <2>2. jobs \in Seq(Files)
    BY DEF TypeOK
  <2>3. jobs[k] \in Files
    BY <2>1, <2>2
  <2> QED BY <2>1, <2>3, TaskOfFacts
<1>3. TypeOK'
  <2>1. lost' \in [Stores -> SUBSET Files]
    <3>1. FilesOf(AllTasksQueries(tasks, store)) \subseteq Files
      <4>1. tasks \in Seq(TaskType)
        BY DEF TypeOK
      <4>2. ASSUME NEW f \in FilesOf(AllTasksQueries(tasks, store))
            PROVE  f \in Files
        <5>1. \E k \in DOMAIN tasks : tasks[k].url = f
          BY <4>1, <4>2, BatchFacts
        <5> QED BY <1>2, <5>1
      <4> QED BY <4>2
    <3>2. lost \in [Stores -> SUBSET Files]
      BY DEF TypeOK
    <3> QED BY <3>1, <3>2 DEF RunQuery
  <2> QED BY <1>1, <2>1 DEF TypeOK, PcValues
<1>4. PosInv' /\ SlotInv' /\ FullInv'
  BY DEF PosInv, SlotInv, FullInv
<1>5. SeenInv'
  <2>1. \A s : ~Pending(s)
    <3>1. \A k \in DOMAIN jobs : k \in DOMAIN tasks
      <4>1. jobs \in Seq(Files) /\ tasks \in Seq(TaskType) /\ Len(tasks) = concurrentTasks
        BY DEF TypeOK
      <4> QED BY <4>1, LenProperties
    <3> QED BY <3>1 DEF Pending
  <2> QED BY <2>1 DEF SeenInv
<1>6. AccountInv'
  <2> SUFFICES ASSUME NEW s \in Files, NEW st \in Enabled, fate[s] = "ok", HasChanges(s)
               PROVE  Settled(s, st)' \/ InRound(s, st)'
    BY DEF AccountInv
  <2>1. st \in Stores /\ s # NoUrl
    BY EnabledAssumption, FilesAreNat
  <2>2. CASE Settled(s, st)
    BY <1>1, <2>1, <2>2
  <2>3. CASE InRound(s, st)
    <3>1. PICK k \in DOMAIN tasks : tasks[k].url = s /\ st \in tasks[k].query
      BY <2>3 DEF InRound
    <3>2. CASE st = store
      BY <1>1, <2>1, <3>1, <3>2
    <3>3. CASE st # store
      <4>1. st = "osm" /\ pc' = "osmquery"
        BY <2>1, <2>3, <3>3 DEF Stores, InRound
      <4> QED BY <3>1, <4>1 DEF InRound
    <3> QED BY <3>2, <3>3
  <2> QED BY <2>2, <2>3 DEF AccountInv
<1>7. RunInv'
  <2>1. ASSUME NEW k \in DOMAIN tasks, NEW st \in tasks[k].query,
               pc' = "closest" \/ st = "underpass", NEW s, s = tasks[k].url
        PROVE  Settled(s, st)'
    <3>1. s # NoUrl /\ st \in Stores
      BY <1>2, <2>1, EnabledAssumption, FilesAreNat
    <3>2. CASE st = store
      BY <1>1, <2>1, <3>1, <3>2
    <3>3. CASE st # store
      <4>1. pc = "osmquery" /\ st = "underpass"
        BY <2>1, <3>1, <3>3 DEF Stores
      <4>2. Settled(tasks[k].url, st)
        BY <4>1 DEF RunInv
      <4> QED BY <1>1, <2>1, <3>1, <4>2
    <3> QED BY <3>2, <3>3
  <2>2. ASSUME NEW s, s = closest.url, s # NoUrl, HasChanges(s), NEW st \in Enabled
        PROVE  Settled(s, st)'
    <3>1. Settled(s, st)
      BY <2>2 DEF RunInv
    <3> QED BY <1>1, <3>1, EnabledAssumption
  <2>3. \A k \in DOMAIN tasks' : \A st \in tasks'[k].query :
          pc' = "closest" \/ (pc' = "osmquery" /\ st = "underpass")
            => Settled(tasks[k].url, st)'
    BY <2>1 DEF Settled
  <2>4. closest'.url # NoUrl /\ HasChanges(closest'.url) =>
          \A st \in Enabled : Settled(closest.url, st)'
    BY <2>2 DEF Settled
  <2> QED BY <2>3, <2>4 DEF RunInv
<1>8. SteadyInv'
  <2> SUFFICES ASSUME caughtUp PROVE SteadyInv'
    BY DEF SteadyInv
  <2>1. ASSUME NEW s, s = caughtUpAt.at, HasChanges(s), NEW st \in Enabled
        PROVE  Settled(s, st)'
    <3>1. Settled(s, st)
      BY <2>1 DEF SteadyInv
    <3> QED BY <1>1, <3>1, EnabledAssumption
  <2>2. HasChanges(caughtUpAt'.at) =>
          \A st \in Enabled : Settled(caughtUpAt.at, st)'
    BY <2>1 DEF Settled
  <2> QED BY <2>2 DEF SteadyInv
<1>9. WindowCovered'
  BY DEF WindowCovered
<1> QED BY <1>3, <1>4, <1>5, <1>6, <1>7, <1>8, <1>9

LEMMA JoinStep == IInv /\ JoinAndQuery => IInv'
BY QueryStep DEF JoinAndQuery, Stores

LEMMA OsmQueryStep == IInv /\ OsmQuery => IInv'
BY QueryStep DEF OsmQuery, Stores, IInv, PosInv, FullInv

LEMMA UpdateStep == IInv /\ UpdatePosition => IInv'
<1> SUFFICES ASSUME IInv, UpdatePosition PROVE IInv'
  OBVIOUS
<1> DEFINE caught == ~caughtUp /\ Minutes(now, closest'.timestamp) <= 2
           Keep == UNCHANGED <<remote, caughtUp, concurrentTasks, caughtUpAt>>
           Switch ==
             /\ closest'.url # NoUrl
             /\ caughtUp' = TRUE
             /\ remote' = closest'.url
             /\ concurrentTasks' = 1
             /\ caughtUpAt' = [ at |-> closest'.url,
                                batches |-> [st \in Stores |-> Len(db[st])] ]
<1>1. /\ pc = "closest" /\ jobs' = <<>> /\ tasks' = <<>>
      /\ UNCHANGED <<now, newest, db, fate, lost>>
  BY DEF UpdatePosition, feed
<1>2. PICK k \in DOMAIN tasks :
        /\ lastStatus' = tasks[k].status
        /\ closest' = Remember(tasks[k])
        /\ \/ Keep \/ Switch
        /\ pc' \in {"round", "stopped", "crashed"}
        /\ pc' = "stopped" => EndReached(tasks[k])
  BY DEF UpdatePosition, RewindTo
<1> HIDE DEF caught
<1> USE DEF IInv
<1> DEFINE f == jobs[k]
           t == tasks[k]
<1>3. /\ remote \in Start .. MaxSeq /\ Start \in Nat /\ MaxSeq \in Nat
      /\ jobs \in Seq(Files) /\ tasks \in Seq(TaskType)
      /\ concurrentTasks \in Nat \ {0} /\ Len(jobs) = concurrentTasks
      /\ db \in [Stores -> Seq(Seq(Nat \cup {NoUrl}))]
  BY <1>1, PositionAssumption DEF TypeOK, PosInv
<1>4. PICK end \in Ends : k \in DOMAIN jobs /\ t = TaskOf(f, end)
  <2>1. t.status # "none"
    BY <1>1 DEF FullInv
  <2>2. t # NoTask
    BY <2>1, NoTaskFacts
  <2> QED BY <2>2 DEF SlotInv
<1>5. f \in Files /\ f \in Nat /\ f <= remote /\ f # NoUrl
  <2>1. f \in Files
    BY <1>3, <1>4
  <2>2. f <= remote
    BY <1>4 DEF PosInv
  <2> QED BY <2>1, <2>2, FilesAreNat
<1>6. /\ t \in TaskType /\ t.url = f
      /\ t.timestamp # NotADateTime => t.timestamp = Stamp(f) /\ end = "ok"
      /\ end = "ok" /\ HasChanges(f) => t.query = Enabled
  BY <1>4, <1>5, TaskOfFacts
<1> HIDE DEF f, t
<1>7. remote \in Files
  <2>1. Len(jobs) \in DOMAIN jobs
    BY <1>3, LenProperties
  <2>2. jobs[Len(jobs)] \in Files
    BY <1>3, <2>1
  <2>3. 1 \in DOMAIN jobs
    BY <1>3, LenProperties
  <2>4. jobs # <<>>
    <3>1. 1 \notin DOMAIN << >>
      BY ONLY TRUE
    <3> QED BY <2>3, <3>1
  <2> QED BY <2>2, <2>4 DEF PosInv
<1>8. /\ closest' \in [url : Files \cup {NoUrl}, timestamp : Times]
      /\ closest'.url # NoUrl => closest'.url \in Files /\ closest'.url <= remote
  <2>1. CASE t.timestamp # NotADateTime
    <3>1. closest' = [url |-> f, timestamp |-> t.timestamp]
      BY <1>2, <1>6, <2>1 DEF Remember, t
    <3>2. t.timestamp \in Times
      BY <1>6 DEF TaskType
    <3> QED BY <1>5, <3>1, <3>2
  <2>2. CASE t.timestamp = NotADateTime
    <3>1. closest' = closest
      BY <1>2, <2>2 DEF Remember, t
    <3> QED BY <3>1 DEF TypeOK, PosInv
  <2> QED BY <2>1, <2>2
<1>9. remote' \in Files /\ remote' <= remote
  <2>1. CASE Keep
    BY <1>3, <1>7, <2>1
  <2>2. CASE Switch
    BY <1>8, <2>2
  <2> QED BY <1>2, <2>1, <2>2
<1>10. \A s \in Start + 1 .. remote : fate[s] # "unseen"
  BY <1>1 DEF SeenInv, Pending
<1>11. TypeOK'
  <2>1. remote' \in Start .. MaxSeq
    BY <1>3, <1>9, FilesAreNat
  <2>2. lastStatus' \in Statuses
    BY <1>2, <1>6 DEF TaskType, t
  <2>3. /\ caughtUp' \in BOOLEAN /\ concurrentTasks' \in Nat \ {0}
        /\ caughtUpAt' \in [at : Files \cup {NoUrl}, batches : [Stores -> Nat]]
    <3>1. CASE Keep
      BY <3>1 DEF TypeOK
    <3>2. CASE Switch
      <4>1. [st \in Stores |-> Len(db[st])] \in [Stores -> Nat]
        BY <1>3, LenProperties
      <4> QED BY <1>8, <3>2, <4>1
    <3> QED BY <1>2, <3>1, <3>2
  <2>4. jobs' \in Seq(Files) /\ Len(jobs') <= concurrentTasks' /\ tasks' \in Seq(TaskType)
    BY <1>1, <2>3
  <2>5. /\ now' \in Nat /\ newest' \in Nat
        /\ db' \in [Stores -> Seq(Seq(Nat \cup {NoUrl}))]
        /\ fate' \in [Files -> Ends \cup {"unseen"}]
        /\ lost' \in [Stores -> SUBSET Files]
    BY <1>1 DEF TypeOK
  <2>6. pc' \in PcValues /\ pc' \notin {"post", "osmquery", "closest"}
    BY <1>2 DEF PcValues
  <2> QED BY <1>8, <2>1, <2>2, <2>3, <2>4, <2>5, <2>6 DEF TypeOK
<1>12. PosInv'
  <2>1. remote' # Start
    BY <1>3, <1>9, FilesAreNat
  <2>2. closest'.url # NoUrl => closest'.url <= remote'
    <3>1. CASE Keep
      BY <1>8, <3>1
    <3>2. CASE Switch
      BY <1>8, <3>2, FilesAreNat
    <3> QED BY <1>2, <3>1, <3>2
  <2> QED BY <1>1, <1>2, <2>1, <2>2 DEF PosInv
<1>13. SlotInv' /\ FullInv'
  BY <1>1 DEF SlotInv, FullInv
<1>14. SeenInv'
  <2> SUFFICES ASSUME NEW s \in Start + 1 .. remote' PROVE fate[s] # "unseen"
    BY <1>1 DEF SeenInv
  <2>1. s \in Start + 1 .. remote
    BY <1>3, <1>9, FilesAreNat
  <2> QED BY <1>10, <2>1
<1>15. AccountInv'
  BY <1>1 DEF AccountInv, InRound, Settled
<1>16. ASSUME NEW s, s = closest'.url, s # NoUrl, HasChanges(s), NEW st \in Enabled
       PROVE  Settled(s, st)
  <2>1. CASE t.timestamp # NotADateTime
    <3>1. s = f
      BY <1>2, <1>6, <1>16, <2>1 DEF Remember, t
    <3>2. st \in t.query
      BY <1>6, <1>16, <2>1, <3>1
    <3>3. Settled(t.url, st)
      BY <1>1, <3>2 DEF RunInv, t
    <3> QED BY <1>6, <3>1, <3>3
  <2>2. CASE t.timestamp = NotADateTime
    BY <1>2, <1>16, <2>2 DEF Remember, RunInv, t
  <2> QED BY <2>1, <2>2
<1>17. RunInv'
  BY <1>1, <1>16 DEF RunInv, Settled
<1>18. SteadyInv'
  <2>1. CASE Keep
    <3> SUFFICES ASSUME caughtUp PROVE SteadyInv'
      BY <2>1 DEF SteadyInv
    <3>1. lastStatus' = "success" => fate[remote] \in {"ok", "readError"}
      BY <1>2 DEF SteadyInv
    <3> QED BY <1>1, <2>1, <3>1 DEF SteadyInv, Settled
  <2>2. CASE Switch
    <3>1. caughtUpAt'.at = closest'.url /\ remote' = closest'.url
      BY <2>2
    <3>2. remote' \in Int
      BY <1>9, FilesAreNat
    <3>3. HasChanges(caughtUpAt'.at) => \A st \in Enabled : Settled(closest'.url, st)
      BY <1>16, <2>2, <3>1
    <3>4. \A s \in caughtUpAt'.at + 1 .. remote' - 1 : FALSE
      BY <3>1, <3>2
    <3>5. caughtUpAt'.at <= remote' /\ ~(remote' > caughtUpAt'.at)
      BY <3>1, <3>2
    <3>6. caughtUpAt'.at \in Files /\ concurrentTasks' = 1
      BY <1>9, <2>2, <3>1
    <3> QED BY <1>1, <3>1, <3>3, <3>4, <3>5, <3>6 DEF SteadyInv, Settled
  <2> QED BY <1>2, <2>1, <2>2
<1>19. WindowCovered'
  <2> SUFFICES ASSUME pc' = "stopped", NEW s \in Files, Stamp(s) < EndTime
               PROVE  fate[s] # "unseen"
    BY <1>1 DEF WindowCovered
  <2>1. /\ t.timestamp # NotADateTime /\ EndTime # NotADateTime
        /\ t.timestamp >= EndTime
    BY <1>2 DEF EndReached, t
  <2>2. EndTime \in Int
    BY <2>1, EndAssumption DEF Times
  <2>3. Stamp(f) >= EndTime
    BY <1>6, <2>1
  <2>4. s \in Nat
    BY FilesAreNat
  <2>5. Stamp(s) \in Nat /\ Stamp(f) \in Nat
    BY <1>5, <2>4, StampFacts
  <2>6. Stamp(s) < Stamp(f)
    BY <2>2, <2>3, <2>5
  <2>7. s < f
    BY <1>5, <2>4, <2>6, StampFacts
  <2>8. s \in Start + 1 .. remote
    BY <1>3, <1>5, <2>4, <2>7, FilesAreNat
  <2> QED BY <1>10, <2>8
<1> QED
  BY <1>11, <1>12, <1>13, <1>14, <1>15, <1>17, <1>18, <1>19

-----------------------------------------------------------------------------
(* The theorems.                                                           *)

LEMMA InductiveStep == IInv /\ [Next]_vars => IInv'
<1> SUFFICES ASSUME IInv, [Next]_vars PROVE IInv'
  OBVIOUS
<1>1. CASE Tick \/ Publish
  BY <1>1, TickStep, PublishStep
<1>2. CASE Monitor
  BY <1>2, BeginRoundStep, PostTaskStep, JoinStep, OsmQueryStep, UpdateStep
  DEF Monitor
<1>3. CASE \E k \in DOMAIN tasks : Worker(k)
  BY <1>3, ThreadStep, ResolverStep DEF Worker
<1>4. CASE UNCHANGED vars
  BY <1>4, FeedStep DEF vars, feed, IInv, TypeOK
<1> QED BY <1>1, <1>2, <1>3, <1>4 DEF Next

LEMMA Invariance == Spec => []IInv
BY InitInv, InductiveStep, PTL DEF Spec

\* Every variable of the monitor keeps to its type, and the vector of tasks has
\* a slot for every worker of the round.
THEOREM TypeCorrect == Spec => []TypeOK
<1>1. IInv => TypeOK
  BY DEF IInv
<1> QED BY <1>1, Invariance, PTL

\* No file up to the position is left that nobody asked for, and what was
\* downloaded is written unless its transaction failed.
THEOREM Accounted == Spec => []EveryFileAccounted
<1>1. IInv => EveryFileAccounted
  <2> SUFFICES ASSUME IInv, pc = "round", NEW s \in Start + 1 .. remote
               PROVE  /\ fate[s] # "unseen"
                      /\ fate[s] = "ok" /\ HasChanges(s) =>
                           \A st \in Enabled : Settled(s, st)
    BY DEF EveryFileAccounted
  <2>1. fate[s] # "unseen"
    BY DEF IInv, SeenInv, Pending
  <2>2. s \in Files
    BY PositionAssumption DEF IInv, TypeOK, Files
  <2> QED BY <2>1, <2>2 DEF IInv, AccountInv, InRound
<1> QED BY <1>1, Invariance, PTL

\* Once caught up, a file is left behind only after the server gave it.
THEOREM SteadyTheorem == Spec => []SteadyNeverSkips
<1>1. IInv => SteadyNeverSkips
  BY DEF IInv, SteadyInv, SteadyNeverSkips
<1> QED BY <1>1, Invariance, PTL

\* The monitor stops at end_time only after every file of the window was handed
\* to a worker.
THEOREM Window == Spec => []WindowCovered
<1>1. IInv => WindowCovered
  BY DEF IInv
<1> QED BY <1>1, Invariance, PTL

-----------------------------------------------------------------------------
(***************************************************************************)
(* MonitorChanges implements FeedFollower, for every feed, configuration   *)
(* and set of faults.                                                      *)
(*                                                                         *)
(* To the inductive invariant IInv, RoundInv adds what a round looks like: *)
(* its jobs are successive files from the follower's next one, or all of   *)
(* them that file, and a round of one job has in its slot what was last    *)
(* heard of the file.                                                      *)
(***************************************************************************)

WidthInv == ~caughtUp => concurrentTasks = 2 * Cores

JobsInv ==
  \A k \in DOMAIN jobs :
    jobs[k] = IF MustAdvance THEN remote - Len(jobs) + k ELSE remote

LastHeard ==
  concurrentTasks = 1 =>
    \A k \in DOMAIN tasks :
      tasks[k].status # "none" => tasks[k] = TaskOf(jobs[k], fate[jobs[k]])

RoundInv == WidthInv /\ JobsInv /\ LastHeard

-----------------------------------------------------------------------------
(* RoundInv is inductive, given IInv.                                      *)

LEMMA InitRound == Init => RoundInv
BY DEF Init, RoundInv, WidthInv, JobsInv, LastHeard

LEMMA BeginRoundKeeps == IInv /\ RoundInv /\ BeginRound => RoundInv'
<1> SUFFICES ASSUME IInv, RoundInv, BeginRound PROVE RoundInv'
  OBVIOUS
<1>1. WidthInv' /\ JobsInv'
  BY DEF RoundInv, WidthInv, JobsInv, BeginRound, MustAdvance
<1>2. \A k \in DOMAIN tasks' : tasks'[k].status = "none"
  BY NoTaskFacts DEF BeginRound
<1> QED BY <1>1, <1>2 DEF RoundInv, LastHeard

LEMMA PostTaskKeeps == IInv /\ RoundInv /\ PostTask => RoundInv'
<1> SUFFICES ASSUME IInv, RoundInv, PostTask PROVE RoundInv'
  OBVIOUS
<1> USE DEF PostTask
<1>1. /\ jobs \in Seq(Files) /\ remote \in Int /\ Len(jobs) \in Nat
      /\ remote' \in Int
  BY PositionAssumption DEF IInv, TypeOK
<1>2. /\ Len(jobs') = Len(jobs) + 1
      /\ DOMAIN jobs' = 1 .. Len(jobs) + 1 /\ DOMAIN jobs = 1 .. Len(jobs)
      /\ \A k \in DOMAIN jobs : jobs'[k] = jobs[k]
      /\ jobs'[Len(jobs) + 1] = remote'
  <2>1. jobs \in Seq(Int)
    BY <1>1, FilesAreNat
  <2> QED BY <1>1, <2>1
<1>3. MustAdvance' = MustAdvance
  BY DEF MustAdvance
<1>4. JobsInv'
  <2> SUFFICES ASSUME NEW k \in DOMAIN jobs'
               PROVE  jobs'[k] = IF MustAdvance THEN remote' - Len(jobs') + k ELSE remote'
    BY <1>3 DEF JobsInv
  <2>1. CASE k = Len(jobs) + 1
    BY <1>1, <1>2, <2>1
  <2>2. CASE k # Len(jobs) + 1
    <3>1. k \in DOMAIN jobs
      BY <1>1, <1>2, <2>2
    <3>2. jobs[k] = IF MustAdvance THEN remote - Len(jobs) + k ELSE remote
      BY <3>1 DEF RoundInv, JobsInv
    <3> QED BY <1>1, <1>2, <3>1, <3>2
  <2> QED BY <2>1, <2>2
<1>5. LastHeard'
  <2>1. ASSUME NEW k \in DOMAIN tasks, tasks[k].status # "none"
        PROVE  k \in DOMAIN jobs
    BY <2>1, NoTaskFacts DEF IInv, SlotInv
  <2>2. \A k \in DOMAIN tasks : tasks[k].status # "none" => jobs'[k] = jobs[k]
    BY <1>2, <2>1
  <2> QED BY <2>2 DEF RoundInv, LastHeard, history
<1> QED BY <1>4, <1>5 DEF RoundInv, WidthInv

\* What a worker does, as the lemmas below need it.
LEMMA ThreadFacts ==
  ASSUME IInv, NEW k \in DOMAIN tasks, ThreadOsmChange(k)
  PROVE  \E end \in Ends :
           /\ jobs[k] \in Files /\ k \in DOMAIN jobs
           /\ tasks[k].status = "none" /\ pc = "post"
           /\ DOMAIN tasks' = DOMAIN tasks
           /\ tasks'[k] = TaskOf(jobs[k], end)
           /\ \A l \in DOMAIN tasks : l # k => tasks'[l] = tasks[l]
           /\ fate' = [fate EXCEPT ![jobs[k]] = end]
           /\ UNCHANGED <<feed, monitor, jobs, db, lost, caughtUpAt>>
<1>1. PICK end \in Downloads(jobs[k]) :
        /\ tasks' = [tasks EXCEPT ![k] = TaskOf(jobs[k], end)]
        /\ fate' = [fate EXCEPT ![jobs[k]] = end]
  BY DEF ThreadOsmChange, StoreTask
<1>2. end \in Ends
  BY DEF Downloads, Ends
<1>3. jobs \in Seq(Files) /\ tasks \in Seq(TaskType) /\ k \in DOMAIN jobs
  BY DEF IInv, TypeOK, ThreadOsmChange
<1>4. jobs[k] \in Files
  BY <1>3
<1>5. TaskOf(jobs[k], end) \in TaskType
  BY <1>2, <1>4, TaskOfFacts
<1>6. /\ DOMAIN tasks' = DOMAIN tasks
      /\ tasks'[k] = TaskOf(jobs[k], end)
      /\ \A l \in DOMAIN tasks : l # k => tasks'[l] = tasks[l]
  BY <1>1, <1>3
<1> QED BY <1>1, <1>2, <1>3, <1>4, <1>6 DEF ThreadOsmChange

LEMMA ThreadKeeps ==
  ASSUME IInv, RoundInv, NEW k \in DOMAIN tasks, ThreadOsmChange(k)
  PROVE  RoundInv'
<1>1. PICK end \in Ends :
        /\ jobs[k] \in Files /\ k \in DOMAIN jobs
        /\ tasks[k].status = "none" /\ pc = "post"
        /\ DOMAIN tasks' = DOMAIN tasks
        /\ tasks'[k] = TaskOf(jobs[k], end)
        /\ \A l \in DOMAIN tasks : l # k => tasks'[l] = tasks[l]
        /\ fate' = [fate EXCEPT ![jobs[k]] = end]
        /\ UNCHANGED <<feed, monitor, jobs, db, lost, caughtUpAt>>
  BY ThreadFacts
<1>2. WidthInv' /\ JobsInv'
  BY <1>1 DEF RoundInv, WidthInv, JobsInv, MustAdvance, monitor
<1>3. LastHeard'
  <2> SUFFICES ASSUME concurrentTasks = 1
               PROVE  \A l \in DOMAIN tasks' : tasks'[l] = TaskOf(jobs[l], fate'[jobs[l]])
    BY <1>1 DEF LastHeard, monitor
  <2>1. DOMAIN tasks = {1}
    <3>1. tasks \in Seq(TaskType) /\ Len(tasks) = 1
      BY <1>1 DEF IInv, TypeOK
    <3> QED BY <3>1
  <2>2. fate'[jobs[k]] = end
    BY <1>1 DEF IInv, TypeOK
  <2> QED BY <1>1, <2>1, <2>2
<1> QED BY <1>2, <1>3 DEF RoundInv

LEMMA UpdateKeeps == IInv /\ RoundInv /\ UpdatePosition => RoundInv'
<1> SUFFICES ASSUME IInv, RoundInv, UpdatePosition PROVE RoundInv'
  OBVIOUS
<1>1. jobs' = <<>> /\ tasks' = <<>>
  BY DEF UpdatePosition
<1>2. \/ UNCHANGED <<caughtUp, concurrentTasks>>
      \/ caughtUp' = TRUE
  BY DEF UpdatePosition
<1>3. WidthInv'
  BY <1>2 DEF RoundInv, WidthInv
<1> QED BY <1>1, <1>3 DEF RoundInv, JobsInv, LastHeard

LEMMA RoundStep == IInv /\ RoundInv /\ [Next]_vars => RoundInv'
<1> SUFFICES ASSUME IInv, RoundInv, [Next]_vars PROVE RoundInv'
  OBVIOUS
<1>1. ASSUME UNCHANGED <<remote, lastStatus, caughtUp, concurrentTasks, jobs, tasks, fate>>
      PROVE  RoundInv'
  BY <1>1 DEF RoundInv, WidthInv, JobsInv, LastHeard, MustAdvance
<1>2. CASE Tick \/ Publish \/ UNCHANGED vars
  BY <1>1, <1>2 DEF Tick, Publish, vars, monitor, history
<1>3. CASE JoinAndQuery \/ OsmQuery
  BY <1>1, <1>3 DEF JoinAndQuery, OsmQuery
<1>4. CASE BeginRound \/ PostTask \/ UpdatePosition
  BY <1>4, BeginRoundKeeps, PostTaskKeeps, UpdateKeeps
<1>5. CASE \E k \in DOMAIN tasks : ThreadOsmChange(k)
  BY <1>5, ThreadKeeps
<1>6. CASE \E k \in DOMAIN tasks : ResolverThrows(k)
  BY <1>1, <1>6 DEF ResolverThrows, history
<1> QED BY <1>2, <1>3, <1>4, <1>5, <1>6 DEF Next, Monitor, Worker

-----------------------------------------------------------------------------
(* The refinement: the initial state, then one lemma for each action.      *)

LEMMA InitFollows == Init => Follower!Init
<1> SUFFICES ASSUME Init PROVE Follower!Init
  OBVIOUS
<1> USE DEF Init
<1>1. FollowerPhase = "behind" /\ FollowerNext = Start + 1
  BY PositionAssumption DEF FollowerPhase, FollowerNext, MustAdvance, FirstStatus
<1>2. [s \in Files |-> AnswerOf(fate[s])] = [s \in Follower!Files |-> "unasked"]
  BY DEF Files, Follower!Files, AnswerOf
<1>3. [st \in Enabled |-> Committed(db[st])] = [st \in Enabled |-> {}]
  BY EnabledAssumption DEF Committed
<1>4. [st \in Enabled |-> lost[st]] = [st \in Enabled |-> {}]
  BY EnabledAssumption
<1> QED BY <1>1, <1>2, <1>3, <1>4 DEF Follower!Init

\* A step that changes nothing the mapping reads is none of the follower's.
LEMMA Stutters ==
  ASSUME FollowerPhase' = FollowerPhase, FollowerNext' = FollowerNext,
         UNCHANGED <<fate, db, lost>>
  PROVE  UNCHANGED Follower!vars
BY DEF Follower!vars

\* The jobs of a round are in the follower's window.
LEMMA JobsInWindow ==
  ASSUME IInv, RoundInv, pc \in {"post", "osmquery"}, NEW k \in DOMAIN jobs
  PROVE  jobs[k] \in Follower!Window
<1>1. /\ jobs \in Seq(Files) /\ remote \in Int /\ Len(jobs) <= concurrentTasks
      /\ concurrentTasks \in Nat \ {0} /\ Len(jobs) \in Nat /\ k \in 1 .. Len(jobs)
  BY PositionAssumption DEF IInv, TypeOK
<1>2. jobs[k] \in Files /\ jobs[k] \in Int
  BY <1>1, FilesAreNat
<1>3. jobs[k] = IF MustAdvance THEN remote - Len(jobs) + k ELSE remote
  BY DEF RoundInv, JobsInv
<1>4. FollowerPhase = IF caughtUp THEN "steady" ELSE "behind"
  BY DEF FollowerPhase
<1>5. concurrentTasks = IF caughtUp THEN 1 ELSE 2 * Cores
  BY DEF RoundInv, WidthInv, IInv, SteadyInv
<1>6. FollowerNext <= jobs[k] /\ jobs[k] < FollowerNext + concurrentTasks
  BY <1>1, <1>3 DEF FollowerNext
<1> QED BY <1>2, <1>4, <1>5, <1>6 DEF Follower!Window, Follower!Files, Files

LEMMA PostFollows == IInv /\ PostTask => UNCHANGED Follower!vars
<1> SUFFICES ASSUME IInv, PostTask PROVE UNCHANGED Follower!vars
  OBVIOUS
<1>1. /\ jobs \in Seq(Files) /\ remote \in Int /\ Len(jobs) \in Nat
      /\ remote' \in Int
  BY PositionAssumption DEF IInv, TypeOK, PostTask
<1>2. Len(jobs') = Len(jobs) + 1
  <2>1. jobs \in Seq(Int)
    BY <1>1, FilesAreNat
  <2> QED BY <1>1, <2>1 DEF PostTask
<1>3. FollowerNext' = FollowerNext
  BY <1>1, <1>2 DEF FollowerNext, MustAdvance, PostTask
<1>4. FollowerPhase' = FollowerPhase
  BY DEF FollowerPhase, PostTask
<1> QED BY <1>3, <1>4, Stutters DEF PostTask, history

LEMMA ThreadFollows ==
  ASSUME IInv, RoundInv, NEW k \in DOMAIN tasks, ThreadOsmChange(k)
  PROVE  Follower!Next
<1>1. PICK end \in Ends :
        /\ jobs[k] \in Files /\ k \in DOMAIN jobs /\ pc = "post"
        /\ fate' = [fate EXCEPT ![jobs[k]] = end]
        /\ UNCHANGED <<feed, monitor, jobs, db, lost, caughtUpAt>>
  BY ThreadFacts
<1>2. jobs[k] \in Follower!Window
  BY <1>1, JobsInWindow
<1>3. FollowerPhase # "ended"
  BY <1>1 DEF FollowerPhase
<1>4. FollowerPhase' = FollowerPhase /\ FollowerNext' = FollowerNext
  BY <1>1 DEF FollowerPhase, FollowerNext, MustAdvance, monitor
<1>5. AnswerOf(end) \in Follower!Answers \ {"unasked"}
  BY DEF Ends, AnswerOf, Follower!Answers
<1>6. [s \in Files |-> AnswerOf(fate'[s])]
        = [[s \in Files |-> AnswerOf(fate[s])] EXCEPT ![jobs[k]] = AnswerOf(end)]
  BY <1>1 DEF IInv, TypeOK
<1>7. Follower!Ask(jobs[k])
  BY <1>1, <1>2, <1>3, <1>4, <1>5, <1>6 DEF Follower!Ask
<1> QED BY <1>1, <1>7 DEF Follower!Next, Follower!Files, Files

\* Only a good download of a file with changes has statements.
LEMMA QueryOfTask ==
  ASSUME NEW s, NEW end, TaskOf(s, end).query # {}
  PROVE  end = "ok" /\ HasChanges(s)
BY DEF TaskOf, Task

\* The files of a batch may be written now.
LEMMA BatchWritable ==
  ASSUME IInv, RoundInv, NEW store \in Stores, pc \in {"post", "osmquery"},
         Len(jobs) = concurrentTasks, \A k \in DOMAIN tasks : tasks[k].status # "none",
         NEW f \in FilesOf(AllTasksQueries(tasks, store))
  PROVE  f \in Follower!Writable /\ store \in Enabled
<1>1. /\ tasks \in Seq(TaskType) /\ jobs \in Seq(Files) /\ Len(tasks) = concurrentTasks
      /\ remote \in Start .. MaxSeq /\ fate \in [Files -> Ends \cup {"unseen"}]
  BY DEF IInv, TypeOK
<1>2. PICK k \in DOMAIN tasks : tasks[k].url = f /\ store \in tasks[k].query
  BY <1>1, BatchFacts
<1>3. PICK end \in Ends : k \in DOMAIN jobs /\ tasks[k] = TaskOf(jobs[k], end)
  BY NoTaskFacts DEF IInv, SlotInv
<1>4. /\ jobs[k] = f /\ f \in Files /\ store \in Enabled
  <2>1. jobs[k] \in Files
    BY <1>1, <1>3
  <2> QED BY <1>2, <1>3, <2>1, TaskOfFacts
<1>5. HasChanges(f)
  BY <1>2, <1>3, <1>4, QueryOfTask
<1>6. f \in Follower!Window
  BY <1>3, <1>4, JobsInWindow
<1>7. FollowerPhase = IF caughtUp THEN "steady" ELSE "behind"
  BY DEF FollowerPhase
<1>8. CASE caughtUp
  <2>1. tasks[k] = TaskOf(f, fate[f])
    BY <1>4, <1>8 DEF IInv, SteadyInv, RoundInv, LastHeard
  <2>2. fate[f] = "ok"
    BY <1>2, <2>1, QueryOfTask
  <2>3. AnswerOf(fate[f]) = "given"
    BY <2>2 DEF AnswerOf
  <2> QED BY <1>4, <1>5, <1>6, <2>3 DEF Follower!Writable
<1>9. CASE ~caughtUp
  <2>1. ~Pending(f)
    <3>1. \A l \in DOMAIN jobs : l \in DOMAIN tasks
      BY <1>1, LenProperties
    <3> QED BY <3>1 DEF Pending
  <2>2. f \in Start + 1 .. remote
    <3>1. f <= remote
      BY <1>3, <1>4 DEF IInv, PosInv
    <3> QED BY <1>1, <1>4, <3>1, FilesAreNat DEF Files
  <2>3. fate[f] # "unseen"
    BY <2>1, <2>2 DEF IInv, SeenInv
  <2>4. AnswerOf(fate[f]) # "unasked"
    BY <2>3 DEF AnswerOf
  <2> QED BY <1>4, <1>5, <1>6, <1>7, <1>9, <2>4 DEF Follower!Writable
<1> QED BY <1>4, <1>8, <1>9

LEMMA QueryFollows ==
  ASSUME IInv, RoundInv, NEW store \in Stores, RunQuery(store),
         UNCHANGED <<feed, remote, lastStatus, closest, caughtUp,
                     concurrentTasks, jobs, tasks, fate, caughtUpAt>>,
         pc \in {"post", "osmquery"}, pc' \in {"osmquery", "closest"},
         Len(jobs) = concurrentTasks,
         \A k \in DOMAIN tasks : tasks[k].status # "none"
  PROVE  Follower!Next \/ UNCHANGED Follower!vars
<1> DEFINE batch == AllTasksQueries(tasks, store)
           S == FilesOf(batch)
           written == [st \in Enabled |-> Committed(db[st])]
           missed == [st \in Enabled |-> lost[st]]
<1>1. /\ FollowerPhase' = FollowerPhase /\ FollowerPhase # "ended"
      /\ FollowerNext' = FollowerNext
  BY DEF FollowerPhase, FollowerNext, MustAdvance
<1>2. /\ tasks \in Seq(TaskType)
      /\ db \in [Stores -> Seq(Seq(Nat \cup {NoUrl}))]
      /\ lost \in [Stores -> SUBSET Files]
      /\ Enabled \subseteq Stores
  BY EnabledAssumption DEF IInv, TypeOK
<1>3. CASE UNCHANGED <<db, lost>>
  BY <1>1, <1>3, Stutters
<1>4. ASSUME S # {} PROVE S \in (SUBSET Follower!Writable) \ {{}} /\ store \in Enabled
  BY <1>4, BatchWritable
<1>5. CASE S # {} /\ db' = [db EXCEPT ![store] = Append(@, batch)] /\ UNCHANGED lost
  <2>1. Committed(db'[store]) = Committed(db[store]) \cup S
    BY <1>2, <1>5, CommittedAppend
  <2>2. written' = [written EXCEPT ![store] = @ \cup S]
    BY <1>2, <1>5, <2>1
  <2>3. Follower!Write(store)
    BY <1>1, <1>4, <1>5, <2>2 DEF Follower!Write
  <2> QED BY <1>4, <1>5, <2>3 DEF Follower!Next
<1>6. CASE S # {} /\ lost' = [lost EXCEPT ![store] = @ \cup S] /\ UNCHANGED db
  <2>1. missed' = [missed EXCEPT ![store] = @ \cup S]
    BY <1>2, <1>6
  <2>2. Follower!Write(store)
    BY <1>1, <1>4, <1>6, <2>1 DEF Follower!Write
  <2> QED BY <1>4, <1>6, <2>2 DEF Follower!Next
<1>7. \/ UNCHANGED <<db, lost>>
      \/ S # {} /\ db' = [db EXCEPT ![store] = Append(@, batch)] /\ UNCHANGED lost
      \/ S # {} /\ lost' = [lost EXCEPT ![store] = @ \cup S] /\ UNCHANGED db
  BY DEF RunQuery
<1> QED BY ONLY <1>3, <1>5, <1>6, <1>7

\* At the end of a round, every file up to the position is done with.
LEMMA DoneUpTo ==
  ASSUME IInv, pc = "closest", NEW n \in Int, n <= remote + 1
  PROVE  Follower!DoneBefore(n)
<1>1. remote \in Start .. MaxSeq /\ Start \in Nat /\ MaxSeq \in Nat
  BY PositionAssumption DEF IInv, TypeOK
<1> SUFFICES ASSUME NEW s \in Files, s < n
             PROVE  /\ AnswerOf(fate[s]) # "unasked"
                    /\ AnswerOf(fate[s]) = "given" /\ HasChanges(s) =>
                         \A st \in Enabled : s \in Committed(db[st]) \cup lost[st]
  BY DEF Follower!DoneBefore, Follower!Files, Files
<1>2. s \in Start + 1 .. remote
  BY <1>1, FilesAreNat
<1>3. fate[s] # "unseen"
  BY <1>2 DEF IInv, SeenInv, Pending
<1>4. ASSUME fate[s] = "ok", HasChanges(s), NEW st \in Enabled
      PROVE  s \in Committed(db[st]) \cup lost[st]
  BY <1>4 DEF IInv, AccountInv, InRound, Settled
<1> QED BY <1>3, <1>4 DEF AnswerOf

\* The task closest to now has gone no further than the position.
LEMMA ClosestBehind ==
  ASSUME IInv, UpdatePosition, closest'.url # NoUrl
  PROVE  closest'.url <= remote
<1>1. PICK k \in DOMAIN tasks : closest' = Remember(tasks[k]) /\ pc = "closest"
  BY DEF UpdatePosition
<1>2. tasks[k].status # "none"
  BY <1>1 DEF IInv, FullInv
<1>3. PICK end \in Ends : k \in DOMAIN jobs /\ tasks[k] = TaskOf(jobs[k], end)
  BY <1>2, NoTaskFacts DEF IInv, SlotInv
<1>4. jobs[k] \in Files /\ jobs[k] <= remote
  <2>1. jobs \in Seq(Files)
    BY DEF IInv, TypeOK
  <2> QED BY <1>3, <2>1 DEF IInv, PosInv
<1>5. tasks[k].url = jobs[k]
  BY <1>3, <1>4, TaskOfFacts
<1> QED BY <1>1, <1>4, <1>5 DEF Remember, IInv, PosInv

LEMMA UpdateFollows == IInv /\ RoundInv /\ UpdatePosition => Follower!Next
<1> SUFFICES ASSUME IInv, RoundInv, UpdatePosition PROVE Follower!Next
  OBVIOUS
<1> DEFINE Keep == UNCHANGED <<remote, caughtUp>>
           Switch ==
             /\ ~caughtUp /\ caughtUp' = TRUE
             /\ closest'.url # NoUrl /\ remote' = closest'.url
<1>1. /\ pc = "closest" /\ jobs' = <<>> /\ UNCHANGED <<db, fate, lost>>
      /\ pc' \in {"round", "stopped", "crashed"}
      /\ \E k \in DOMAIN tasks : lastStatus' = tasks[k].status
  BY DEF UpdatePosition
<1>2. Keep \/ Switch
  BY DEF UpdatePosition, RewindTo
<1>3. /\ remote \in Int /\ Cores \in Nat \ {0} /\ Start \in Nat
      /\ Len(jobs) = concurrentTasks /\ jobs \in Seq(Files)
      /\ concurrentTasks = IF caughtUp THEN 1 ELSE 2 * Cores
  BY <1>1, PositionAssumption, CoresAssumption
  DEF IInv, TypeOK, PosInv, SteadyInv, RoundInv, WidthInv
<1>4. remote \in Files
  <2>1. Len(jobs) \in DOMAIN jobs
    BY <1>3
  <2>2. jobs[Len(jobs)] \in Files
    BY <1>3, <2>1
  <2>3. jobs # <<>>
    BY <1>3
  <2> QED BY <2>2, <2>3 DEF IInv, PosInv
<1>5. /\ FollowerNext \in Int /\ FollowerNext <= remote
      /\ remote + 1 <= FollowerNext + concurrentTasks
      /\ caughtUp => FollowerNext = remote
  BY <1>3 DEF FollowerNext
<1>6. FollowerNext' = IF MustAdvance' THEN remote' + 1 ELSE remote'
  <2>1. Len(jobs') = 0
    BY <1>1
  <2>2. remote' \in Int
    <3>1. IInv'
      BY UpdateStep
    <3> QED BY <3>1, PositionAssumption DEF IInv, TypeOK
  <2>3. FollowerNext' = IF MustAdvance' THEN remote' - Len(jobs') + 1 ELSE remote'
    BY DEF FollowerNext
  <2>4. remote' - 0 + 1 = remote' + 1
    BY <2>2
  <2> QED BY <2>1, <2>3, <2>4
<1>7. FollowerPhase' \in {IF caughtUp' THEN "steady" ELSE "behind", "ended"}
  BY <1>1 DEF FollowerPhase
<1>8. FollowerPhase = IF caughtUp THEN "steady" ELSE "behind"
  BY <1>1 DEF FollowerPhase
<1>9. ASSUME NEW n \in Int, n <= remote + 1, FollowerNext' = n,
             NEW p, FollowerPhase' \in {p, "ended"}
      PROVE  Follower!GoTo(n, p)
  <2>1. Follower!DoneBefore(n)
    BY <1>1, <1>9, DoneUpTo
  <2> QED BY <1>1, <1>9, <2>1 DEF Follower!GoTo
<1>10. CASE Keep /\ ~caughtUp
  <2>1. FollowerNext' \in FollowerNext .. FollowerNext + 2 * Cores /\ FollowerNext' <= remote + 1
    BY <1>3, <1>5, <1>6, <1>10
  <2>2. PICK n \in FollowerNext .. FollowerNext + 2 * Cores : FollowerNext' = n
    BY <2>1
  <2>3. n \in Int
    BY <1>3, <1>5
  <2>4. Follower!GoTo(n, "behind")
    BY <1>7, <1>9, <1>10, <2>1, <2>2, <2>3
  <2>5. Follower!MoveOn
    BY <1>8, <1>10, <2>4 DEF Follower!MoveOn
  <2> QED BY <2>5 DEF Follower!Next
<1>11. CASE Switch
  <2>1. remote' \in Files /\ remote' <= remote
    <3>1. IInv'
      BY UpdateStep
    <3>2. closest'.url \in Files
      BY <1>11, <3>1 DEF IInv, TypeOK
    <3>3. closest'.url <= remote
      BY <1>11, ClosestBehind
    <3> QED BY <1>11, <3>2, <3>3
  <2>2. /\ FollowerNext' \in Start + 1 .. FollowerNext + 2 * Cores
        /\ FollowerNext' <= remote + 1
    BY <1>3, <1>5, <1>6, <1>11, <2>1, FilesAreNat
  <2>3. PICK n \in Start + 1 .. FollowerNext + 2 * Cores : FollowerNext' = n
    BY <2>2
  <2>4. n \in Int
    BY <1>3, <1>5
  <2>5. Follower!GoTo(n, "steady")
    BY <1>7, <1>9, <1>11, <2>2, <2>3, <2>4
  <2>6. Follower!CatchUp
    BY <1>8, <1>11, <2>5 DEF Follower!CatchUp
  <2> QED BY <2>6 DEF Follower!Next
<1>12. CASE Keep /\ caughtUp
  <2>1. FollowerNext = remote /\ FollowerPhase = "steady" /\ caughtUp'
    BY <1>5, <1>8, <1>12
  <2>2. CASE MustAdvance'
    <3>1. lastStatus' = "success"
      BY <2>1, <2>2 DEF MustAdvance
    <3>2. fate[remote] \in {"ok", "readError"}
      BY <1>1, <1>12, <3>1 DEF IInv, SteadyInv
    <3>3. AnswerOf(fate[remote]) \in {"given", "unreadable"}
      BY <3>2 DEF AnswerOf
    <3>4. FollowerNext' = remote + 1
      BY <1>6, <1>12, <2>2
    <3>5. Follower!GoTo(FollowerNext + 1, "steady")
      BY <1>3, <1>7, <1>9, <2>1, <3>4
    <3>6. Follower!Follow
      BY <1>4, <2>1, <3>3, <3>5 DEF Follower!Follow, Follower!Files, Files
    <3> QED BY <3>6 DEF Follower!Next
  <2>3. CASE ~MustAdvance'
    <3>1. FollowerNext' = remote
      BY <1>6, <1>12, <2>3
    <3>2. Follower!GoTo(FollowerNext, "steady")
      BY <1>3, <1>7, <1>9, <2>1, <3>1
    <3>3. Follower!Follow
      BY <2>1, <3>2 DEF Follower!Follow
    <3> QED BY <3>3 DEF Follower!Next
  <2> QED BY <2>2, <2>3
<1> QED BY <1>2, <1>10, <1>11, <1>12

LEMMA NextFollows ==
  IInv /\ RoundInv /\ [Next]_vars => Follower!Next \/ UNCHANGED Follower!vars
<1> SUFFICES ASSUME IInv, RoundInv, [Next]_vars
             PROVE  Follower!Next \/ UNCHANGED Follower!vars
  OBVIOUS
<1>1. CASE Tick \/ Publish \/ UNCHANGED vars
  BY <1>1, Stutters
  DEF Tick, Publish, vars, monitor, history, FollowerPhase, FollowerNext, MustAdvance
<1>2. CASE BeginRound
  BY <1>2, Stutters DEF BeginRound, history, FollowerPhase, FollowerNext, MustAdvance
<1>3. CASE PostTask
  BY <1>3, PostFollows
<1>4. CASE JoinAndQuery
  BY <1>4, QueryFollows DEF JoinAndQuery, Stores
<1>5. CASE OsmQuery
  BY <1>5, QueryFollows DEF OsmQuery, Stores, IInv, PosInv, FullInv
<1>6. CASE UpdatePosition
  BY <1>6, UpdateFollows
<1>7. CASE \E k \in DOMAIN tasks : ThreadOsmChange(k)
  BY <1>7, ThreadFollows
<1>8. CASE \E k \in DOMAIN tasks : ResolverThrows(k)
  <2>1. Follower!Die
    BY <1>8 DEF Follower!Die, ResolverThrows, history, FollowerPhase, FollowerNext, MustAdvance
  <2> QED BY <2>1 DEF Follower!Next
<1> QED BY <1>1, <1>2, <1>3, <1>4, <1>5, <1>6, <1>7, <1>8 DEF Next, Monitor, Worker

\* The monitor, with its rounds, pool, slots, batches, retries and the rewind, is a
\* follower that settles what it is given and, once caught up, takes file after file:
\* for every number of cores, feed, configuration and set of faults.
THEOREM Refinement == Spec => FollowerSpec
<1>1. IInv /\ RoundInv /\ [Next]_vars => RoundInv'
  BY RoundStep
<1>2. IInv /\ RoundInv /\ [Next]_vars => [Follower!Next]_Follower!vars
  BY NextFollows
<1> QED BY <1>1, <1>2, InitFollows, InitRound, Invariance, PTL
        DEF Spec, FollowerSpec, Follower!Spec

-----------------------------------------------------------------------------
(* The order of the batches.  Front(st) is a file that no batch of st has  *)
(* gone past since the monitor caught up (or started): the next round      *)
(* writes nothing before it, and nothing at it once caught up.             *)

\* The statements of this round for st were run.
Ran(st) == pc = "closest" \/ (pc = "osmquery" /\ st = "underpass")

Front(st) ==
  IF Ran(st)
    THEN IF caughtUp /\ tasks[1].status # "success" THEN remote - 1 ELSE remote
    ELSE IF MustAdvance THEN remote - Len(jobs)
         ELSE IF caughtUp THEN remote - 1 ELSE remote

SwitchInv ==
  \A st \in Stores :
    /\ caughtUpAt.batches[st] <= Len(db[st])
    /\ ~caughtUp => caughtUpAt.batches[st] = 0

FrontInv ==
  \A st \in Stores :
    \A b \in DOMAIN db[st] :
      b > caughtUpAt.batches[st] => \A f \in FilesOf(db[st][b]) : f <= Front(st)

OrderInv == SwitchInv /\ FrontInv /\ AppliedInOrder

LEMMA InitOrder == Init => OrderInv
BY DEF Init, OrderInv, SwitchInv, FrontInv, AppliedInOrder, NoSwitch, Stores

LEMMA FrontInt == IInv => \A st : Front(st) \in Int
<1> SUFFICES ASSUME IInv, NEW st PROVE Front(st) \in Int
  OBVIOUS
<1>1. remote \in Int /\ Len(jobs) \in Nat
  BY PositionAssumption DEF IInv, TypeOK
<1> QED BY <1>1 DEF Front

LEMMA FrontIntNext == ASSUME IInv' PROVE \A st : Front(st)' \in Int
<1> SUFFICES ASSUME NEW st PROVE Front(st)' \in Int
  OBVIOUS
<1>1. remote' \in Int /\ Len(jobs') \in Nat
  BY PositionAssumption DEF IInv, TypeOK
<1> QED BY <1>1 DEF Front

\* A file of a batch is a number.
LEMMA LoggedFiles ==
  ASSUME IInv, NEW st \in Stores, NEW b \in DOMAIN db[st]
  PROVE  /\ db[st][b] \in Seq(Nat \cup {NoUrl})
         /\ FilesOf(db[st][b]) \subseteq Nat
         /\ b \in Nat
<1>1. db[st] \in Seq(Seq(Nat \cup {NoUrl}))
  BY DEF IInv, TypeOK
<1>2. db[st][b] \in Seq(Nat \cup {NoUrl}) /\ b \in Nat
  BY <1>1
<1> QED BY <1>2 DEF FilesOf

\* A step that writes nothing and does not move the front back keeps the order.
LEMMA FrontAside ==
  ASSUME IInv, IInv', OrderInv, UNCHANGED <<db, caughtUp, caughtUpAt>>,
         \A st \in Stores : Front(st) <= Front(st)'
  PROVE  OrderInv'
<1>1. SwitchInv'
  BY DEF OrderInv, SwitchInv
<1>2. AppliedInOrder'
  BY DEF OrderInv, AppliedInOrder
<1>3. FrontInv'
  <2> SUFFICES ASSUME NEW st \in Stores, NEW b \in DOMAIN db[st],
                      b > caughtUpAt.batches[st], NEW f \in FilesOf(db[st][b])
               PROVE  f <= Front(st)'
    BY DEF FrontInv
  <2>1. f <= Front(st)
    BY DEF OrderInv, FrontInv
  <2>2. f \in Int /\ Front(st) \in Int
    BY LoggedFiles, FrontInt
  <2>3. Front(st)' \in Int
    BY FrontIntNext
  <2> QED BY <2>1, <2>2, <2>3
<1> QED BY <1>1, <1>2, <1>3 DEF OrderInv

\* What a batch of the round holds: files of its own jobs, none behind the front,
\* in order, and once caught up only the file the round was for.
LEMMA BatchOrder ==
  ASSUME IInv, RoundInv, NEW st \in Stores, ~Ran(st), pc \in {"post", "osmquery"},
         Len(jobs) = concurrentTasks, \A k \in DOMAIN tasks : tasks[k].status # "none",
         NEW batch, batch = AllTasksQueries(tasks, st)
  PROVE  /\ DOMAIN batch = 1 .. concurrentTasks
         /\ batch \in Seq(Nat \cup {NoUrl})
         /\ \A k \in DOMAIN batch : batch[k] # NoUrl =>
              /\ batch[k] = jobs[k] /\ Front(st) <= batch[k] /\ batch[k] <= remote
              /\ caughtUp => Front(st) < batch[k] /\ tasks[1].status = "success"
         /\ \A k, l \in DOMAIN batch :
              k < l /\ batch[k] # NoUrl /\ batch[l] # NoUrl => batch[k] <= batch[l]
         /\ caughtUp => concurrentTasks = 1
<1>1. /\ tasks \in Seq(TaskType) /\ jobs \in Seq(Files) /\ Len(tasks) = concurrentTasks
      /\ remote \in Int /\ concurrentTasks \in Nat \ {0}
  BY PositionAssumption DEF IInv, TypeOK
<1>2. DOMAIN batch = 1 .. concurrentTasks /\ DOMAIN jobs = 1 .. concurrentTasks
  BY <1>1 DEF AllTasksQueries
<1>3. batch \in Seq(Nat \cup {NoUrl})
  BY <1>1, BatchFacts
<1>4. caughtUp => concurrentTasks = 1
  BY DEF IInv, SteadyInv
<1>5. \A k \in DOMAIN batch :
        jobs[k] \in Int /\ jobs[k] = IF MustAdvance THEN remote - Len(jobs) + k ELSE remote
  BY <1>1, <1>2, FilesAreNat DEF RoundInv, JobsInv
<1>6. ASSUME NEW k \in DOMAIN batch, batch[k] # NoUrl
      PROVE  batch[k] = jobs[k] /\ tasks[k].status = "success"
  <2>1. batch[k] = tasks[k].url /\ tasks[k].query # {}
    BY <1>1, <1>2, <1>6 DEF AllTasksQueries
  <2>2. PICK end \in Ends : k \in DOMAIN jobs /\ tasks[k] = TaskOf(jobs[k], end)
    BY <1>1, <1>2, NoTaskFacts DEF IInv, SlotInv
  <2>3. jobs[k] \in Files
    BY <1>1, <2>2
  <2>4. end = "ok"
    BY <2>1, <2>2, QueryOfTask
  <2>5. tasks[k].status = "success"
    BY <2>2, <2>4 DEF TaskOf, Task
  <2> QED BY <2>1, <2>2, <2>3, <2>5, TaskOfFacts
<1>7. Front(st) = IF MustAdvance THEN remote - Len(jobs)
                  ELSE IF caughtUp THEN remote - 1 ELSE remote
  BY DEF Front
<1>8. ASSUME NEW k \in DOMAIN batch
      PROVE  Front(st) <= jobs[k] /\ jobs[k] <= remote
  BY <1>1, <1>2, <1>5, <1>7
<1>9. ASSUME NEW k \in DOMAIN batch, caughtUp
      PROVE  Front(st) < jobs[k] /\ k = 1
  BY <1>1, <1>2, <1>4, <1>5, <1>7, <1>9
<1>10. \A k, l \in DOMAIN batch : k < l => jobs[k] <= jobs[l]
  BY <1>1, <1>2, <1>5
<1> QED BY <1>2, <1>3, <1>4, <1>6, <1>8, <1>9, <1>10

LEMMA QueryOrder ==
  ASSUME IInv, IInv', RoundInv, OrderInv, NEW store \in Stores, RunQuery(store),
         UNCHANGED <<remote, lastStatus, caughtUp, concurrentTasks, jobs, tasks,
                     caughtUpAt>>,
         \/ pc = "post" /\ store = "underpass" /\ pc' = "osmquery"
         \/ pc = "osmquery" /\ store = "osm" /\ pc' = "closest",
         Len(jobs) = concurrentTasks,
         \A k \in DOMAIN tasks : tasks[k].status # "none"
  PROVE  OrderInv'
<1> DEFINE batch == AllTasksQueries(tasks, store)
<1>1. /\ \A st \in Stores : st # store => Front(st)' = Front(st)
      /\ ~Ran(store) /\ Ran(store)'
  BY DEF Stores, Front, Ran, MustAdvance
<1>2. Front(store) <= Front(store)'
  <2>1. Front(store)' = IF caughtUp /\ tasks[1].status # "success" THEN remote - 1 ELSE remote
    BY <1>1 DEF Front
  <2>2. Front(store) = IF MustAdvance THEN remote - Len(jobs)
                       ELSE IF caughtUp THEN remote - 1 ELSE remote
    BY <1>1 DEF Front
  <2>3. remote \in Int /\ Len(jobs) \in Nat \ {0}
    BY PositionAssumption DEF IInv, TypeOK
  <2> QED BY <2>1, <2>2, <2>3
<1>3. \A st \in Stores : Front(st) <= Front(st)'
  BY <1>1, <1>2, FrontInt
<1>4. CASE UNCHANGED db
  BY <1>3, <1>4, FrontAside
<1>5. CASE db' = [db EXCEPT ![store] = Append(@, batch)]
  <2> DEFINE log == db[store]
             n == caughtUpAt.batches[store]
  <2>1. /\ DOMAIN batch = 1 .. concurrentTasks
        /\ batch \in Seq(Nat \cup {NoUrl})
        /\ \A k \in DOMAIN batch : batch[k] # NoUrl =>
             /\ batch[k] = jobs[k] /\ Front(store) <= batch[k] /\ batch[k] <= remote
             /\ caughtUp => Front(store) < batch[k] /\ tasks[1].status = "success"
        /\ \A k, l \in DOMAIN batch :
             k < l /\ batch[k] # NoUrl /\ batch[l] # NoUrl => batch[k] <= batch[l]
        /\ caughtUp => concurrentTasks = 1
    BY <1>1, BatchOrder
  <2>2. /\ log \in Seq(Seq(Nat \cup {NoUrl})) /\ n \in Nat
        /\ db \in [Stores -> Seq(Seq(Nat \cup {NoUrl}))]
    BY DEF IInv, TypeOK
  <2> HIDE DEF batch
  <2>3. /\ \A st \in Stores : st # store => db'[st] = db[st]
        /\ DOMAIN db'[store] = DOMAIN log \cup {Len(log) + 1}
        /\ DOMAIN log = 1 .. Len(log) /\ Len(log) \in Nat
        /\ Len(db'[store]) = Len(log) + 1
        /\ db'[store][Len(log) + 1] = batch
        /\ \A b \in DOMAIN log : db'[store][b] = log[b]
    BY <1>5, <2>1, <2>2
  <2>4. n <= Len(log)
    BY DEF OrderInv, SwitchInv
  <2>5. SwitchInv'
    BY <2>2, <2>3, <2>4 DEF OrderInv, SwitchInv
  <2>6. ASSUME NEW b \in DOMAIN log, b > n, NEW k \in DOMAIN log[b], log[b][k] # NoUrl
        PROVE  log[b][k] <= Front(store) /\ log[b][k] \in Int
    <3>1. log[b][k] \in FilesOf(log[b])
      BY <2>6 DEF FilesOf
    <3> QED BY <2>6, <3>1, LoggedFiles DEF OrderInv, FrontInv
  <2>7. FrontInv'
    <3> SUFFICES ASSUME NEW st \in Stores, NEW b \in DOMAIN db'[st],
                        b > caughtUpAt.batches[st], NEW f \in FilesOf(db'[st][b])
                 PROVE  f <= Front(st)'
      BY DEF FrontInv
    <3>1. CASE st # store
      <4>1. db'[st] = db[st] /\ Front(st)' = Front(st)
        BY <1>1, <2>3, <3>1
      <4> QED BY <4>1 DEF OrderInv, FrontInv
    <3>2. CASE st = store /\ b \in DOMAIN log
      <4>1. f \in FilesOf(log[b])
        BY <2>3, <3>2
      <4>2. f <= Front(store)
        BY <3>2, <4>1 DEF OrderInv, FrontInv
      <4>3. f \in Int /\ Front(store) \in Int
        BY <3>2, <4>1, LoggedFiles, FrontInt
      <4>4. Front(store)' \in Int
        BY FrontIntNext
      <4> QED BY <1>2, <3>2, <4>2, <4>3, <4>4
    <3>3. CASE st = store /\ b = Len(log) + 1
      <4>1. PICK k \in DOMAIN batch : batch[k] = f /\ f # NoUrl
        BY <2>3, <3>3 DEF FilesOf
      <4>2. Front(store)' = IF caughtUp /\ tasks[1].status # "success" THEN remote - 1 ELSE remote
        BY <1>1 DEF Front
      <4>3. Front(store)' = remote
        BY <2>1, <4>1, <4>2
      <4> QED BY <2>1, <3>3, <4>1, <4>3
    <3> QED BY <2>3, <3>1, <3>2, <3>3
  <2>8. AppliedInOrder'
    <3> SUFFICES ASSUME NEW st \in Stores, NEW b \in DOMAIN db'[st], NEW c \in DOMAIN db'[st],
                        NEW k \in DOMAIN db'[st][b], NEW l \in DOMAIN db'[st][c],
                        Before(b, k, c, l),
                        db'[st][b][k] # NoUrl, db'[st][c][l] # NoUrl,
                        b > caughtUpAt.batches[st] \/ c <= caughtUpAt.batches[st]
                 PROVE  \/ db'[st][b][k] < db'[st][c][l]
                        \/ db'[st][b][k] = db'[st][c][l] /\ c <= caughtUpAt.batches[st]
                        \/ db'[st][b][k] = db'[st][c][l] /\ ~caughtUp
      BY DEF AppliedInOrder
    <3>1. CASE st # store
      <4>1. db'[st] = db[st]
        BY <2>3, <3>1
      <4> QED BY <4>1 DEF OrderInv, AppliedInOrder
    <3>2. CASE st = store /\ b \in DOMAIN log /\ c \in DOMAIN log
      <4>1. db'[store][b] = log[b] /\ db'[store][c] = log[c]
        BY <2>3, <3>2
      <4> QED BY <3>2, <4>1 DEF OrderInv, AppliedInOrder
    <3>3. CASE st = store /\ c = Len(log) + 1
      <4>1. c > n /\ b > n
        BY <2>2, <2>3, <2>4, <3>3
      <4>2. /\ batch[l] # NoUrl /\ l \in DOMAIN batch /\ db'[store][c] = batch
            /\ Front(store) <= batch[l] /\ Front(store) \in Int /\ batch[l] \in Int
            /\ caughtUp => Front(store) < batch[l]
        <5>1. batch[l] # NoUrl /\ l \in DOMAIN batch /\ db'[store][c] = batch
          BY <2>3, <3>3
        <5>2. batch[l] \in Int
          BY <2>1, <5>1 DEF NoUrl
        <5> QED BY <2>1, <5>1, <5>2, FrontInt
      <4>3. CASE b \in DOMAIN log
        <5>1. log[b][k] <= Front(store) /\ log[b][k] \in Int /\ db'[store][b] = log[b]
          BY <2>3, <2>6, <3>3, <4>1, <4>3
        <5>2. CASE caughtUp
          BY <3>3, <4>2, <5>1, <5>2
        <5>3. CASE ~caughtUp
          <6>1. log[b][k] <= batch[l]
            BY <4>2, <5>1
          <6>2. log[b][k] < batch[l] \/ log[b][k] = batch[l]
            BY <4>2, <5>1, <6>1
          <6> QED BY <3>3, <4>2, <5>1, <5>3, <6>2
        <5> QED BY <5>2, <5>3
      <4>4. CASE b = Len(log) + 1
        <5>1. k < l /\ k \in DOMAIN batch /\ db'[store][b] = batch /\ batch[k] # NoUrl
          BY <2>3, <3>3, <4>4 DEF Before
        <5>2. batch[k] <= batch[l] /\ batch[k] \in Int
          <6>1. batch[k] \in Int
            BY <2>1, <5>1 DEF NoUrl
          <6> QED BY <2>1, <4>2, <5>1, <6>1
        <5>3. ~caughtUp
          BY <2>1, <4>2, <5>1
        <5>4. batch[k] < batch[l] \/ batch[k] = batch[l]
          BY <4>2, <5>2
        <5> QED BY <3>3, <4>2, <5>1, <5>3, <5>4
      <4> QED BY <2>3, <3>3, <4>3, <4>4
    <3>4. st = store /\ c \in DOMAIN log => b \in DOMAIN log
      BY <2>3 DEF Before
    <3> QED BY <2>3, <3>1, <3>2, <3>3, <3>4
  <2> QED BY <2>5, <2>7, <2>8 DEF OrderInv
<1>6. UNCHANGED db \/ db' = [db EXCEPT ![store] = Append(@, batch)]
  BY Zenon DEF RunQuery
<1> QED BY ONLY <1>4, <1>5, <1>6

LEMMA UpdateOrder ==
  ASSUME IInv, IInv', RoundInv, OrderInv, UpdatePosition
  PROVE  OrderInv'
<1>1. /\ pc = "closest" /\ jobs' = <<>> /\ UNCHANGED db
      /\ pc' \in {"round", "stopped", "crashed"}
  BY DEF UpdatePosition
<1>2. PICK k \in DOMAIN tasks : lastStatus' = tasks[k].status
  BY DEF UpdatePosition
<1>3. /\ \A st : Ran(st) /\ ~Ran(st)'
      /\ remote \in Int /\ remote' \in Int /\ Len(jobs') = 0
  BY <1>1, PositionAssumption DEF Ran, IInv, TypeOK
<1>4. CASE UNCHANGED <<remote, caughtUp, caughtUpAt>>
  <2>1. ASSUME NEW st \in Stores PROVE Front(st) <= Front(st)'
    <3>1. Front(st) = IF caughtUp /\ tasks[1].status # "success" THEN remote - 1 ELSE remote
      BY <1>3 DEF Front
    <3>2. Front(st)' = IF MustAdvance' THEN remote' - Len(jobs')
                       ELSE IF caughtUp' THEN remote' - 1 ELSE remote'
      BY <1>3 DEF Front
    <3>3. Front(st)' = IF MustAdvance' \/ ~caughtUp THEN remote ELSE remote - 1
      BY <1>3, <1>4, <3>2
    <3>4. caughtUp /\ tasks[1].status = "success" => MustAdvance'
      <4> SUFFICES ASSUME caughtUp, tasks[1].status = "success" PROVE MustAdvance'
        OBVIOUS
      <4>1. k = 1
        <5>1. tasks \in Seq(TaskType) /\ Len(tasks) = 1
          BY <1>1 DEF IInv, TypeOK, SteadyInv
        <5> QED BY <5>1
      <4> QED BY <1>2, <4>1 DEF MustAdvance
    <3> QED BY <1>3, <3>1, <3>3, <3>4
  <2> QED BY <1>1, <1>4, <2>1, FrontAside
<1>5. CASE /\ ~caughtUp /\ caughtUp' = TRUE
           /\ caughtUpAt'.batches = [st \in Stores |-> Len(db[st])]
  <2>1. \A st \in Stores : caughtUpAt.batches[st] = 0 /\ caughtUpAt'.batches[st] = Len(db[st])
    BY <1>5 DEF OrderInv, SwitchInv
  <2>2. ASSUME NEW st \in Stores
        PROVE  Len(db[st]) \in Nat /\ DOMAIN db[st] = 1 .. Len(db[st])
    <3>1. db[st] \in Seq(Seq(Nat \cup {NoUrl}))
      BY DEF IInv, TypeOK
    <3> QED BY <3>1
  <2>3. SwitchInv'
    BY <1>1, <1>5, <2>1, <2>2 DEF SwitchInv
  <2>4. FrontInv'
    BY <1>1, <2>1, <2>2 DEF FrontInv
  <2>5. AppliedInOrder'
    <3> SUFFICES ASSUME NEW st \in Stores, NEW b \in DOMAIN db[st], NEW c \in DOMAIN db[st],
                        NEW i \in DOMAIN db[st][b], NEW l \in DOMAIN db[st][c],
                        Before(b, i, c, l), db[st][b][i] # NoUrl, db[st][c][l] # NoUrl
                 PROVE  \/ db[st][b][i] < db[st][c][l]
                        \/ db[st][b][i] = db[st][c][l] /\ c <= caughtUpAt'.batches[st]
      BY <1>1 DEF AppliedInOrder
    <3>1. b > caughtUpAt.batches[st] /\ c <= caughtUpAt'.batches[st]
      BY <2>1, <2>2
    <3> QED BY <3>1 DEF OrderInv, AppliedInOrder
  <2> QED BY <2>3, <2>4, <2>5 DEF OrderInv
<1>6. \/ UNCHANGED <<remote, caughtUp, caughtUpAt>>
      \/ /\ ~caughtUp /\ caughtUp' = TRUE
         /\ caughtUpAt'.batches = [st \in Stores |-> Len(db[st])]
  BY DEF UpdatePosition
<1> QED BY ONLY <1>4, <1>5, <1>6

LEMMA OrderStep ==
  ASSUME IInv, IInv', RoundInv, OrderInv, [Next]_vars
  PROVE  OrderInv'
<1> USE FrontInt
<1>1. ASSUME UNCHANGED <<remote, lastStatus, caughtUp, jobs, tasks, db, caughtUpAt>>,
             \A st \in Stores : Ran(st)' = Ran(st)
      PROVE  OrderInv'
  <2>1. ASSUME NEW st \in Stores PROVE Front(st)' = Front(st)
    BY <1>1, <2>1 DEF Front, MustAdvance
  <2> QED BY <1>1, <2>1, FrontAside
<1>2. CASE Tick \/ Publish \/ UNCHANGED vars
  BY <1>1, <1>2 DEF Tick, Publish, vars, monitor, history, Ran
<1>3. ASSUME UNCHANGED <<remote, lastStatus, caughtUp, jobs, db, caughtUpAt>>,
             \A st \in Stores : ~Ran(st) /\ ~Ran(st)'
      PROVE  OrderInv'
  <2>1. ASSUME NEW st \in Stores PROVE Front(st)' = Front(st)
    BY <1>3, <2>1 DEF Front, MustAdvance
  <2> QED BY <1>3, <2>1, FrontAside
<1>4. CASE BeginRound
  BY <1>3, <1>4 DEF BeginRound, Ran, history
<1>5. CASE PostTask
  <2>1. /\ remote \in Int /\ Len(jobs) \in Nat /\ Len(jobs') = Len(jobs) + 1
        /\ MustAdvance' = MustAdvance
        /\ remote' = IF MustAdvance THEN remote + 1 ELSE remote
        /\ \A st \in Stores : ~Ran(st) /\ ~Ran(st)'
    <3>1. remote \in Int /\ jobs \in Seq(Int)
      <4>1. jobs \in Seq(Files)
        BY DEF IInv, TypeOK
      <4> QED BY <4>1, FilesAreNat, PositionAssumption DEF IInv, TypeOK
    <3> QED BY <1>5, <3>1 DEF PostTask, MustAdvance, Ran
  <2>2. ASSUME NEW st \in Stores PROVE Front(st)' = Front(st)
    <3>1. /\ Front(st) = IF MustAdvance THEN remote - Len(jobs)
                         ELSE IF caughtUp THEN remote - 1 ELSE remote
          /\ Front(st)' = IF MustAdvance' THEN remote' - Len(jobs')
                          ELSE IF caughtUp' THEN remote' - 1 ELSE remote'
      BY <2>1 DEF Front
    <3>2. caughtUp' = caughtUp
      BY <1>5 DEF PostTask
    <3>3. CASE MustAdvance
      BY <2>1, <3>1, <3>3
    <3>4. CASE ~MustAdvance
      BY <2>1, <3>1, <3>2, <3>4
    <3> QED BY <3>3, <3>4
  <2> QED BY <1>5, <2>2, FrontAside DEF PostTask, history
<1>6. CASE \E k \in DOMAIN tasks : ThreadOsmChange(k)
  BY <1>3, <1>6 DEF ThreadOsmChange, Ran, monitor
<1>7. CASE \E k \in DOMAIN tasks : ResolverThrows(k)
  BY <1>3, <1>7 DEF ResolverThrows, Ran, history
<1>8. CASE JoinAndQuery
  BY <1>8, QueryOrder DEF JoinAndQuery, Stores
<1>9. CASE OsmQuery
  BY <1>9, QueryOrder DEF OsmQuery, Stores, IInv, PosInv, FullInv
<1>10. CASE UpdatePosition
  BY <1>10, UpdateOrder
<1> QED BY <1>2, <1>4, <1>5, <1>6, <1>7, <1>8, <1>9, <1>10 DEF Next, Monitor, Worker

\* In whatever order the workers of a pool finish, the statements of the files run in the
\* order of the feed: weakly while catching up, strictly, each file at most once, after it.
THEOREM Order == Spec => []AppliedInOrder
<1>1. IInv /\ RoundInv /\ [Next]_vars => RoundInv'
  BY RoundStep
<1>2. IInv /\ IInv' /\ RoundInv /\ OrderInv /\ [Next]_vars => OrderInv'
  BY OrderStep
<1>3. OrderInv => AppliedInOrder
  BY DEF OrderInv
<1> QED BY <1>1, <1>2, <1>3, InitRound, InitOrder, Invariance, PTL DEF Spec
=============================================================================
