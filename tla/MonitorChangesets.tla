------------------------- MODULE MonitorChangesets -------------------------
(***************************************************************************)
(* The thread that follows the feed of changesets: startMonitorChangesets  *)
(* and its pool of threadChangeSet workers.  It differs from the OsmChange *)
(* monitor in what makes it hard:                                          *)
(*  - a round has 2*cores - 1 tasks, and each worker appends its result to *)
(*    the vector of the round when it ends, so that the statements run in  *)
(*    the order of completion;                                             *)
(*  - last_task starts without a status, so that the tasks of the first    *)
(*    round all ask for the file the program is started at;                *)
(*  - the timestamp of a file is what its changesets say of themselves,    *)
(*    and can be that of a much earlier file;                              *)
(*  - workers that run at once share the position of strtok, and a         *)
(*    reference into the vector of servers the loop rotates.               *)
(***************************************************************************)
EXTENDS ReplicationTasks, FiniteSets

CONSTANTS
  Start,        \* file the program is started at (option --changeseturl)
  Cores,        \* config.concurrency
  PerServer,    \* cores per Planet object (the code: 4)
  EndTime,      \* config.end_time; NotADateTime when not given
  Content,      \* Content[s]: the changesets of file s
  Faults,       \* what may go wrong, a subset of FaultKinds
  FirstNow,     \* clock and newest file when the monitor starts
  FirstNewest,
  MaxNow,       \* bound: last tick of the clock
  MaxSeq,       \* bound: last file of the feed
  MaxBatches    \* bound: batches committed before the last round

INSTANCE ChangesetFile

Files == Start .. MaxSeq

FaultKinds ==
  { "gatewayTimeout",  \* the server answers 504: reported as remoteNotFound
    "systemError",     \* connect, handshake or write fails
    "readError",       \* the body cannot be read, unzipped or parsed
    "connect",         \* no connection for a Planet object: its constructor throws
    "dns",             \* the resolver throws outside every try block
    "sql" }            \* the transaction of a batch fails

ASSUME PositionAssumption == Start \in Nat /\ MaxSeq \in Nat /\ Start <= MaxSeq
ASSUME CoresAssumption == Cores \in Nat \ {0} /\ PerServer \in Nat \ {0}
ASSUME EndAssumption == EndTime \in Times
ASSUME ContentAssumption ==
  DOMAIN Content = Files /\ \A s \in Files : IsChangesetFile(Content[s])
ASSUME FaultsAssumption == Faults \subseteq FaultKinds
ASSUME FeedAssumption ==
  /\ FirstNow \in Nat /\ FirstNewest \in Nat /\ MaxNow \in Nat
  /\ FirstNewest <= MaxSeq /\ FirstNow <= MaxNow /\ MaxBatches \in Nat

VARIABLES
  now, newest,   \* the clock; the newest file on the server
  pc,            \* where the monitor thread is
  remote,        \* remote: the position in the feed
  lastStatus,    \* last_task->status
  closest,       \* closest: last position with a timestamp
  caughtUp,      \* caughtUpWithNow
  cores,         \* cores: 1 once caught up
  jobs,          \* the files handed to the pool in this round, in order
  ended,         \* indices of the jobs whose worker has ended
  tasks,         \* the vector of results, in the order of completion
  db,            \* batches committed, in order
  \* History, for the properties only:
  fate,          \* how the last download of each file ended
  lost,          \* files of batches whose transaction failed
  mixed,         \* files whose last parse took hashtags of another worker's
  caughtUpAt     \* position, furthest file asked for, and batches, when it caught up

feed == <<now, newest>>
monitor == <<pc, remote, lastStatus, closest, caughtUp, cores>>
pool == <<jobs, ended, tasks>>
history == <<fate, lost, mixed, caughtUpAt>>
vars == <<feed, monitor, pool, db, history>>

PcValues == {"connect", "round", "post", "closest", "stopped", "crashed"}
Ends == {"ok", "readError", "remoteNotFound", "systemError"}

NotYet == [at |-> NoUrl, furthest |-> NoUrl, batches |-> 0]

\* Mutant of Width: i-- in the place of --i.
WidthOneMore == 2 * cores

\* Tasks of a round: while (--i), from i = cores*2.
Width == 2 * cores - 1

\* planets: one object, and one more for every PerServer cores.
Planets == Cores \div PerServer + 1

\* Changesets a file writes a row of.
Mentions ==
  [s \in Files |-> LET kept == AreaFilter(Content[s]) IN {kept[i].id : i \in DOMAIN kept}]

-----------------------------------------------------------------------------
Init ==
  /\ now = FirstNow /\ newest = FirstNewest
  /\ pc = "connect"
  /\ remote = Start
  /\ lastStatus = "none"
  /\ closest = [url |-> NoUrl, timestamp |-> NotADateTime]
  /\ caughtUp = FALSE
  /\ cores = Cores
  /\ jobs = <<>> /\ ended = {} /\ tasks = <<>>
  /\ db = <<>>
  /\ fate = [s \in Files |-> "unseen"]
  /\ lost = {} /\ mixed = {}
  /\ caughtUpAt = NotYet

Tick ==
  /\ now < MaxNow
  /\ now' = now + 1
  /\ UNCHANGED <<newest, monitor, pool, db, history>>

Publish ==
  /\ newest < MaxSeq
  /\ Stamp(newest + 1) <= now
  /\ newest' = newest + 1
  /\ UNCHANGED <<now, monitor, pool, db, history>>

-----------------------------------------------------------------------------
(* The monitor thread.                                                     *)

\* The Planet objects are made before the loop; each connects to the domain of
\* remote (servers is rotated and not used), and a constructor that throws ends
\* the program.
Connect ==
  /\ pc = "connect"
  /\ \/ pc' = "round"
     \/ "connect" \in Faults /\ pc' = "crashed"
  /\ UNCHANGED <<feed, remote, lastStatus, closest, caughtUp, cores, pool, db, history>>

\* Mutant of MustAdvance: the caught-up monitor passes over what is not there.
MustAdvanceOnNotFound == lastStatus \in {"success", "remoteNotFound"}

\* The condition of remote->increment().
MustAdvance ==
  \/ lastStatus = "success"
  \/ lastStatus = "remoteNotFound" /\ ~caughtUp

BeginRound ==
  /\ pc = "round"
  /\ remote + (IF MustAdvance THEN Width ELSE 0) <= MaxSeq
  /\ Len(db) < MaxBatches
  /\ pc' = "post"
  /\ UNCHANGED <<feed, remote, lastStatus, closest, caughtUp, cores, pool, db, history>>

\* One turn of while (--i): move the position, and post a worker on a copy of it.
PostTask ==
  /\ pc = "post" /\ Len(jobs) < Width
  /\ remote' = IF MustAdvance THEN remote + 1 ELSE remote
  /\ jobs' = Append(jobs, remote')
  /\ UNCHANGED <<feed, pc, lastStatus, closest, caughtUp, cores, ended, tasks, db, history>>

\* What Planet::downloadFile and the parser can make of file s now.
Downloads(s) ==
  {IF s <= newest THEN "ok" ELSE "remoteNotFound"}
  \cup (Faults \cap {"systemError", "readError"})
  \cup (IF "gatewayTimeout" \in Faults THEN {"remoteNotFound"} ELSE {})

\* The ReplicationTask of file s.  A body that cannot be read still has status
\* success: it has no timestamp and no statements.
TaskOf(s, end) ==
  CASE end = "ok" ->
         Task(s, TimestampOf(Content[s]), "success",
              IF Mentions[s] = {} THEN {} ELSE {"underpass"})
    [] end = "readError" -> Task(s, NotADateTime, "success", {})
    [] OTHER -> Task(s, NotADateTime, end, {})

\* strtok keeps one position for all threads: with another worker in the pool, the
\* hashtags of a file may be cut out of another file's.
MayMix(k) == Len(jobs) > 1

\* Mutant of PushBack: without the lock, a result takes the place of another's.
PushBackUnlocked(task) ==
  IF tasks = <<>> THEN <<task>> ELSE [tasks EXCEPT ![Len(tasks)] = task]

\* tasks->push_back(task), under tasks_changeset_mutex.
PushBack(task) == Append(tasks, task)

\* A worker of the pool, from the download to the result it appends.
ThreadChangeSet(k) ==
  /\ pc = "post"
  /\ k \in DOMAIN jobs \ ended
  /\ \E end \in Downloads(jobs[k]), mixes \in BOOLEAN :
       /\ mixes => end = "ok" /\ MayMix(k)
       /\ tasks' = PushBack(TaskOf(jobs[k], end))
       /\ fate' = [fate EXCEPT ![jobs[k]] = end]
       /\ mixed' = IF mixes THEN mixed \cup {jobs[k]}
                   ELSE IF end = "ok" THEN mixed \ {jobs[k]} ELSE mixed
  /\ ended' = ended \cup {k}
  /\ UNCHANGED <<feed, monitor, jobs, db, lost, caughtUpAt>>

\* A worker that takes down the program: the resolver throws, or it reads the first
\* entry of planets, whose reference it was given, while the loop rotates them.
WorkerDies(k) ==
  /\ pc = "post"
  /\ k \in DOMAIN jobs \ ended
  /\ "dns" \in Faults \/ Planets > 1
  /\ pc' = "crashed"
  /\ UNCHANGED <<feed, remote, lastStatus, closest, caughtUp, cores, pool, db, history>>

\* allTasksQueries, in the order of the vector.  Both connections of this monitor
\* go to the same database.
Batch == AllTasksQueries(tasks, "underpass")

\* pool.join(), then the statements in one transaction whose failure is only logged.
JoinAndQuery ==
  /\ pc = "post"
  /\ Len(jobs) = Width
  /\ ended = DOMAIN jobs
  /\ \/ FilesOf(Batch) = {} /\ UNCHANGED <<db, lost>>
     \/ FilesOf(Batch) # {} /\ db' = Append(db, Batch) /\ UNCHANGED lost
     \/ /\ FilesOf(Batch) # {} /\ "sql" \in Faults
        /\ lost' = lost \cup FilesOf(Batch) /\ UNCHANGED db
  /\ pc' = "closest"
  /\ UNCHANGED <<feed, remote, lastStatus, closest, caughtUp, cores, pool,
                 fate, mixed, caughtUpAt>>

Remember(task) ==
  IF task.timestamp # NotADateTime
    THEN [url |-> task.url, timestamp |-> task.timestamp]
    ELSE closest

EndReached(task) ==
  /\ task.timestamp # NotADateTime /\ EndTime # NotADateTime
  /\ task.timestamp >= EndTime

\* remote->updatePath(...) of the numbers in closest.url.
RewindTo(url) == url

\* Mutant of CoresOnceCaughtUp: the rounds stay as wide as they were.
CoresUnchanged == Cores

\* cores = 1
CoresOnceCaughtUp == 1

Furthest == LET S == {s \in Files : fate[s] # "unseen"} IN CHOOSE s \in S : \A t \in S : t <= s

\* getClosest, the end_time test and the caught-up test.
UpdatePosition ==
  /\ pc = "closest"
  /\ \E k \in DOMAIN tasks :
       /\ IsClosest(tasks, now, k)
       /\ lastStatus' = tasks[k].status
       /\ closest' = Remember(tasks[k])
       /\ LET caught == ~caughtUp /\ Minutes(now, closest'.timestamp) <= 2
              after == IF EndReached(tasks[k]) THEN "stopped" ELSE "round"
          IN  \/ /\ ~caught
                 /\ pc' = after
                 /\ UNCHANGED <<remote, caughtUp, cores, caughtUpAt>>
              \/ /\ caught
                 /\ closest'.url # NoUrl
                 /\ pc' = after
                 /\ caughtUp' = TRUE
                 /\ remote' = RewindTo(closest'.url)
                 /\ cores' = CoresOnceCaughtUp
                 /\ caughtUpAt' = [ at |-> closest'.url, furthest |-> Furthest,
                                    batches |-> Len(db) ]
              \/ \* std::stoi of the empty string throws: the program terminates
                 /\ caught
                 /\ closest'.url = NoUrl
                 /\ pc' = "crashed"
                 /\ UNCHANGED <<remote, caughtUp, cores, caughtUpAt>>
  /\ jobs' = <<>> /\ ended' = {} /\ tasks' = <<>>
  /\ UNCHANGED <<feed, db, fate, lost, mixed>>

Next ==
  \/ Tick \/ Publish
  \/ Connect \/ BeginRound \/ PostTask \/ JoinAndQuery \/ UpdatePosition
  \/ \E k \in DOMAIN jobs : ThreadChangeSet(k) \/ WorkerDies(k)

Spec == Init /\ [][Next]_vars

-----------------------------------------------------------------------------
\* Type invariant: the results of a round are those of its workers that have ended.
TypeOK ==
  /\ pc \in PcValues
  /\ remote \in Files
  /\ lastStatus \in Statuses
  /\ closest \in [url : Files \cup {NoUrl}, timestamp : Times]
  /\ caughtUp \in BOOLEAN /\ cores \in {1, Cores}
  /\ Len(jobs) <= Width /\ ended \subseteq DOMAIN jobs
  /\ Len(tasks) = Cardinality(ended)
  /\ \A k \in DOMAIN tasks : tasks[k] \in TaskType
  /\ \A b \in DOMAIN db : Len(db[b]) \in 1 .. 2 * Cores - 1
  /\ fate \in [Files -> Ends \cup {"unseen"}]
  /\ lost \subseteq Files /\ mixed \subseteq Files

Written(s) == s \in Committed(db)

\* Whenever a round is over, every file from the first to the position was handed to
\* a worker; and of every file whose download ended well the changesets that meet the
\* priority area, and only those, are in the table, unless the transaction of their
\* batch failed.
EveryFileAccounted ==
  pc = "round" /\ lastStatus # "none" =>
    \A s \in Start .. remote :
      /\ fate[s] # "unseen"
      /\ fate[s] = "ok" => KeepsInside(Content[s])
      /\ fate[s] = "ok" /\ Mentions[s] # {} => Written(s) \/ s \in lost

\* The file the row of changeset c was last written from: the last one of the last
\* batch that speaks of it (the upsert keeps whatever comes last).
Speaks(b, k, c) == db[b][k] # NoUrl /\ c \in Mentions[db[b][k]]

LastBatch(c) ==
  CHOOSE b \in DOMAIN db :
    /\ \E k \in DOMAIN db[b] : Speaks(b, k, c)
    /\ \A d \in DOMAIN db : (\E k \in DOMAIN db[d] : Speaks(d, k, c)) => d <= b

RowOf(c) ==
  LET b == LastBatch(c)
      k == CHOOSE i \in DOMAIN db[b] :
             Speaks(b, i, c) /\ \A j \in DOMAIN db[b] : Speaks(b, j, c) => j <= i
  IN  db[b][k]

Stored == UNION {Mentions[s] : s \in Committed(db)}

NewestOf(c) ==
  LET S == {s \in Committed(db) : c \in Mentions[s]} IN CHOOSE s \in S : \A t \in S : t <= s

\* Workers end in any order, so that the row of a changeset may be that of an older
\* file than the newest applied; but never of one as old as a round is wide, neither
\* across rounds nor while the files after the rewind are applied again.
StaleByLessThanARound ==
  \A c \in Stored : NewestOf(c) - RowOf(c) < 2 * Cores - 1

\* Once the monitor has caught up and come back to the furthest file it had asked for,
\* the row of a changeset that some file after the rewind speaks of is that of the
\* newest: unless the second download of such a file could not be read, or the
\* transaction of its batch failed.
RowsSettle ==
  caughtUp /\ pc = "round" /\ remote >= caughtUpAt.furthest =>
    \A c \in Stored :
      /\ NewestOf(c) > caughtUpAt.at
      /\ \A s \in caughtUpAt.at + 1 .. remote :
           c \in Mentions[s] => fate[s] = "ok" /\ s \notin lost
      => RowOf(c) = NewestOf(c)

\* Once caught up a worker is alone in its pool: no changeset of a later file has the
\* hashtags of another one's, whatever the rounds before did to them.
CleanOnceSteady ==
  caughtUp /\ pc = "round" =>
    \A s \in caughtUpAt.at + 1 .. remote : fate[s] = "ok" => s \notin mixed

(***************************************************************************)
(* This monitor implements FeedFollower too, from the file before Start:   *)
(* its first round asks for the file it is started at.                     *)
(***************************************************************************)
FollowerPhase ==
  IF pc \in {"stopped", "crashed"} THEN "ended" ELSE IF caughtUp THEN "steady" ELSE "behind"

FollowerNext == IF MustAdvance THEN remote - Len(jobs) + 1 ELSE remote

AnswerOf(end) ==
  CASE end = "ok" -> "given"
    [] end = "readError" -> "unreadable"
    [] end = "unseen" -> "unasked"
    [] OTHER -> "refused"

Follower ==
  INSTANCE FeedFollower WITH
    Start <- Start - 1, Last <- MaxSeq, Width <- 2 * Cores - 1, Stores <- {"underpass"},
    Content <- {s \in Files : Mentions[s] # {}},
    phase <- FollowerPhase, next <- FollowerNext,
    answer <- [s \in Files |-> AnswerOf(fate[s])],
    written <- [st \in {"underpass"} |-> Committed(db)],
    lost <- [st \in {"underpass"} |-> lost]

\* Every step of the rounds, in whatever order the workers end, is a step of a
\* follower that goes past no file it did not ask for, or was given and not settled.
FollowerSpec == Follower!Spec
=============================================================================
