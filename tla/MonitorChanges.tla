--------------------------- MODULE MonitorChanges ---------------------------
(***************************************************************************)
(* The thread that follows the OsmChange feed: startMonitorChanges, its    *)
(* pool of threadOsmChange workers, the two database connections and the   *)
(* planet server they read from.                                           *)
(*                                                                         *)
(* A round posts concurrentTasks workers on successive files, joins them,  *)
(* runs all their statements as one transaction per connection, and lets   *)
(* the youngest task (getClosest) decide how to go on.  While behind, a    *)
(* round takes 2*Cores files at a time; once the youngest file is at most  *)
(* two minutes old the monitor goes back to it and follows one file at a   *)
(* time, retrying a file the server does not have yet.                     *)
(***************************************************************************)
EXTENDS ReplicationTasks

CONSTANTS
  Start,      \* file the program is started at (option --url or a timestamp)
  Cores,      \* config.concurrency
  EndTime,    \* config.end_time; NotADateTime when not given
  Enabled,    \* connections that get statements (disable_raw, disable_stats,
              \* disable_validation)
  Outside,    \* files with no change in the priority area
  Empty,      \* files with no change at all
  Faults,     \* what may go wrong, a subset of FaultKinds
  FirstNow,   \* clock and newest file of the feed when the monitor starts
  FirstNewest,
  MaxNow,     \* bound: last tick of the clock
  MaxSeq,     \* bound: last file of the feed
  MaxBatches  \* bound: batches a connection commits before the last round

FaultKinds ==
  { "gatewayTimeout",  \* the server answers 504: reported as remoteNotFound
    "systemError",     \* connect, handshake or write fails
    "localError",      \* the cached file vanishes before it is read
    "readError",       \* the body cannot be read or is no gzipped OsmChange
    "dns",             \* the resolver throws outside every try block
    "sql" }            \* the transaction of a batch fails

ASSUME PositionAssumption == Start \in Nat /\ MaxSeq \in Nat /\ Start <= MaxSeq
ASSUME BatchesAssumption == MaxBatches \in Nat
ASSUME CoresAssumption == Cores \in Nat \ {0}
ASSUME EndAssumption == EndTime \in Times
ASSUME EnabledAssumption == Enabled \subseteq Stores
ASSUME FaultsAssumption == Faults \subseteq FaultKinds
ASSUME ContentAssumption == Outside \subseteq Nat /\ Empty \subseteq Nat
ASSUME FeedAssumption ==
  /\ FirstNow \in Nat /\ FirstNewest \in Nat /\ MaxNow \in Nat
  /\ FirstNewest <= MaxSeq /\ FirstNow <= MaxNow
  /\ Stamp(FirstNewest) <= FirstNow

VARIABLES
  now, newest,     \* the clock; the newest file on the server
  pc,              \* where the monitor thread is
  remote,          \* remote: the position in the feed
  lastStatus,      \* last_task->status
  closest,         \* closest: last position with a timestamp
  caughtUp,        \* caughtUpWithNow
  concurrentTasks, \* tasks of a round
  jobs,            \* the files handed to the pool in this round, in order
  tasks,           \* the vector of results, one slot per task
  db,              \* db[store]: batches committed, in order
  \* History, for the properties only:
  fate,            \* how the last download of each file ended
  lost,            \* lost[store]: files of batches whose transaction failed
  caughtUpAt       \* position and numbers of batches when it caught up

feed == <<now, newest>>
monitor == <<pc, remote, lastStatus, closest, caughtUp, concurrentTasks>>
history == <<fate, lost, caughtUpAt>>
vars == <<feed, monitor, jobs, tasks, db, history>>

Files == Start + 1 .. MaxSeq

PcValues == {"round", "post", "osmquery", "closest", "stopped", "crashed"}

\* How a download can end.
Ends == {"ok", "readError", "remoteNotFound", "systemError", "localError"}

NoSwitch == [at |-> NoUrl, batches |-> [st \in Stores |-> 0]]

\* A file with something to write for this configuration.
HasChanges(s) == s \notin Outside \cup Empty

\* last_task->status before the first round.
FirstStatus == "success"

-----------------------------------------------------------------------------
Init ==
  /\ now = FirstNow /\ newest = FirstNewest
  /\ pc = "round"
  /\ remote = Start
  /\ lastStatus = FirstStatus
  /\ closest = [url |-> NoUrl, timestamp |-> NotADateTime]
  /\ caughtUp = FALSE
  /\ concurrentTasks = 2 * Cores
  /\ jobs = <<>> /\ tasks = <<>>
  /\ db = [st \in Stores |-> <<>>]
  /\ fate = [s \in Files |-> "unseen"]
  /\ lost = [st \in Stores |-> {}]
  /\ caughtUpAt = NoSwitch

-----------------------------------------------------------------------------
(* The world: the clock, and a server that publishes a file some time      *)
(* after its last entry was made.                                          *)

Tick ==
  /\ now < MaxNow
  /\ now' = now + 1
  /\ UNCHANGED <<newest, monitor, jobs, tasks, db, history>>

Publish ==
  /\ newest < MaxSeq
  /\ Stamp(newest + 1) <= now
  /\ newest' = newest + 1
  /\ UNCHANGED <<now, monitor, jobs, tasks, db, history>>

-----------------------------------------------------------------------------
(* The monitor thread.                                                     *)

\* Mutant of MustAdvance: a file that is not there yet is passed over even when
\* the monitor has caught up.
MustAdvanceOnNotFound == lastStatus \in {"success", "remoteNotFound"}

\* The condition of remote->increment().
MustAdvance ==
  \/ lastStatus = "success"
  \/ lastStatus = "remoteNotFound" /\ ~caughtUp

\* Head of while (monitoring): a fresh vector of tasks and a fresh pool.  The
\* bounds MaxSeq and MaxBatches are here: no round starts that would leave the
\* feed, nor after so many batches.
BeginRound ==
  /\ pc = "round"
  /\ remote + (IF MustAdvance THEN concurrentTasks ELSE 0) <= MaxSeq
  /\ \A st \in Stores : Len(db[st]) < MaxBatches
  /\ tasks' = [k \in 1 .. concurrentTasks |-> NoTask]
  /\ pc' = "post"
  /\ UNCHANGED <<feed, remote, lastStatus, closest, caughtUp, concurrentTasks,
                 jobs, db, history>>

\* Mutant of PostTask: the task is given the position before the increment.
PostTaskBeforeIncrement ==
  /\ pc = "post" /\ Len(jobs) < concurrentTasks
  /\ remote' = IF MustAdvance THEN remote + 1 ELSE remote
  /\ jobs' = Append(jobs, remote)
  /\ UNCHANGED <<feed, pc, lastStatus, closest, caughtUp, concurrentTasks,
                 tasks, db, history>>

\* One turn of the do-while: move the position, post a worker on a copy of it.
PostTask ==
  /\ pc = "post" /\ Len(jobs) < concurrentTasks
  /\ remote' = IF MustAdvance THEN remote + 1 ELSE remote
  /\ jobs' = Append(jobs, remote')
  /\ UNCHANGED <<feed, pc, lastStatus, closest, caughtUp, concurrentTasks,
                 tasks, db, history>>

\* What Planet::downloadFile and the parser can make of file s now.
Downloads(s) ==
  {IF s <= newest THEN "ok" ELSE "remoteNotFound"}
  \cup (Faults \cap {"systemError", "localError", "readError"})
  \cup (IF "gatewayTimeout" \in Faults THEN {"remoteNotFound"} ELSE {})

\* The ReplicationTask threadOsmChange makes of it.  A body that cannot be read,
\* unzipped or parsed still has status success: it only has no timestamp and no
\* statements.
TaskOf(s, end) ==
  CASE end = "ok" ->
         Task(s, IF s \in Empty THEN NotADateTime ELSE Stamp(s), "success",
              IF HasChanges(s) THEN Enabled ELSE {})
    [] end = "readError" -> Task(s, NotADateTime, "success", {})
    [] OTHER -> Task(s, NotADateTime, end, {})

\* Mutant of StoreTask: a worker that ends after one of a later file takes the
\* place behind it, as if results were kept in the order of completion.
StoreTaskInCompletionOrder(k, task) ==
  LET later == {l \in DOMAIN tasks : l > k /\ tasks[l].status # "none"}
      last == CHOOSE l \in later : \A j \in later : j <= l
  IN  IF later = {} THEN [tasks EXCEPT ![k] = task]
      ELSE [tasks EXCEPT ![k] = tasks[last], ![last] = task]

\* (*tasks)[taskIndex] = task, under tasks_change_mutex.
StoreTask(k, task) == [tasks EXCEPT ![k] = task]

\* A worker of the pool, from the download to the slot it fills.
ThreadOsmChange(k) ==
  /\ pc = "post"
  /\ k \in DOMAIN jobs
  /\ tasks[k].status = "none"
  /\ \E end \in Downloads(jobs[k]) :
       /\ tasks' = StoreTask(k, TaskOf(jobs[k], end))
       /\ fate' = [fate EXCEPT ![jobs[k]] = end]
  /\ UNCHANGED <<feed, monitor, jobs, db, lost, caughtUpAt>>

\* The resolver throws in a worker: no handler, the program terminates.
ResolverThrows(k) ==
  /\ "dns" \in Faults
  /\ pc = "post"
  /\ k \in DOMAIN jobs
  /\ tasks[k].status = "none"
  /\ pc' = "crashed"
  /\ UNCHANGED <<feed, remote, lastStatus, closest, caughtUp, concurrentTasks,
                 jobs, tasks, db, history>>

\* Pq::query of a batch: one transaction, or nothing; an exception is logged and
\* the caller is not told.  No statements, no query.
RunQuery(store) ==
  LET batch == AllTasksQueries(tasks, store)
  IN  \/ /\ FilesOf(batch) = {}
         /\ UNCHANGED <<db, lost>>
      \/ /\ FilesOf(batch) # {}
         /\ db' = [db EXCEPT ![store] = Append(@, batch)]
         /\ UNCHANGED lost
      \/ /\ FilesOf(batch) # {}
         /\ "sql" \in Faults
         /\ lost' = [lost EXCEPT ![store] = @ \cup FilesOf(batch)]
         /\ UNCHANGED db

\* pool.join(), then the statements for the Underpass connection.
JoinAndQuery ==
  /\ pc = "post"
  /\ Len(jobs) = concurrentTasks
  /\ \A k \in DOMAIN tasks : tasks[k].status # "none"
  /\ RunQuery("underpass")
  /\ pc' = "osmquery"
  /\ UNCHANGED <<feed, remote, lastStatus, closest, caughtUp, concurrentTasks,
                 jobs, tasks, fate, caughtUpAt>>

\* The statements for the raw OSM connection.
OsmQuery ==
  /\ pc = "osmquery"
  /\ RunQuery("osm")
  /\ pc' = "closest"
  /\ UNCHANGED <<feed, remote, lastStatus, closest, caughtUp, concurrentTasks,
                 jobs, tasks, fate, caughtUpAt>>

\* closest after a round whose youngest task is task.
Remember(task) ==
  IF task.timestamp # NotADateTime
    THEN [url |-> task.url, timestamp |-> task.timestamp]
    ELSE closest

\* Mutant of EndReached: any timestamp ends the monitoring.
EndReachedTooEarly(task) ==
  /\ task.timestamp # NotADateTime
  /\ EndTime # NotADateTime

\* last_task->timestamp >= config.end_time (false when there is no end_time).
EndReached(task) ==
  /\ task.timestamp # NotADateTime
  /\ EndTime # NotADateTime
  /\ task.timestamp >= EndTime

\* Mutant of RewindTo: one file too far.
RewindPastIt(url) == url + 1

\* remote->updatePath(...) of the numbers in closest.url.
RewindTo(url) == url

\* getClosest, the end_time test and the caught-up test.
UpdatePosition ==
  /\ pc = "closest"
  /\ \E k \in DOMAIN tasks :
       /\ IsClosest(tasks, now, k)
       /\ lastStatus' = tasks[k].status
       /\ closest' = Remember(tasks[k])
       /\ LET caught == ~caughtUp /\ Minutes(now, closest'.timestamp) <= 2
              after == IF EndReached(tasks[k]) THEN "stopped" ELSE "round"
          IN  \/ /\ ~caught
                 /\ pc' = after
                 /\ UNCHANGED <<remote, caughtUp, concurrentTasks, caughtUpAt>>
              \/ /\ caught
                 /\ closest'.url # NoUrl
                 /\ pc' = after
                 /\ caughtUp' = TRUE
                 /\ remote' = RewindTo(closest'.url)
                 /\ concurrentTasks' = 1
                 /\ caughtUpAt' = [ at |-> closest'.url,
                                    batches |-> [st \in Stores |-> Len(db[st])] ]
              \/ \* std::stoi of the empty string throws: the program terminates
                 /\ caught
                 /\ closest'.url = NoUrl
                 /\ pc' = "crashed"
                 /\ UNCHANGED <<remote, caughtUp, concurrentTasks, caughtUpAt>>
  /\ jobs' = <<>> /\ tasks' = <<>>   \* the pool and the vector go out of scope
  /\ UNCHANGED <<feed, db, fate, lost>>

Monitor == BeginRound \/ PostTask \/ JoinAndQuery \/ OsmQuery \/ UpdatePosition

Worker(k) == ThreadOsmChange(k) \/ ResolverThrows(k)

Next ==
  \/ Tick \/ Publish
  \/ Monitor
  \/ \E k \in DOMAIN tasks : Worker(k)

Spec == Init /\ [][Next]_vars

(***************************************************************************)
(* Fairness: the monitor thread and the threads of its pool are scheduled  *)
(* and no call of theirs blocks for ever (downloads and transactions end   *)
(* or throw).  The server is only assumed not to refuse a published file   *)
(* every single time it is asked for it.                                   *)
(***************************************************************************)
Deliver == \E k \in DOMAIN tasks : ThreadOsmChange(k) /\ fate'[jobs[k]] = "ok"

FairSpec ==
  /\ Spec
  /\ WF_vars(Monitor)
  /\ \A k \in 1 .. 2 * Cores : WF_vars(k \in DOMAIN tasks /\ Worker(k))
  /\ SF_vars(Deliver)

-----------------------------------------------------------------------------
\* Type invariant: every variable of the monitor keeps to its type; the vector
\* of tasks always has one slot per task of the round.
TypeOK ==
  /\ now \in Nat /\ newest \in Nat
  /\ pc \in PcValues
  /\ remote \in Start .. MaxSeq
  /\ lastStatus \in Statuses
  /\ closest \in [url : Files \cup {NoUrl}, timestamp : Times]
  /\ caughtUp \in BOOLEAN
  /\ concurrentTasks \in Nat \ {0}
  /\ jobs \in Seq(Files) /\ Len(jobs) <= concurrentTasks
  /\ tasks \in Seq(TaskType)
  /\ pc \in {"post", "osmquery", "closest"} => Len(tasks) = concurrentTasks
  /\ db \in [Stores -> Seq(Seq(Nat \cup {NoUrl}))]
  /\ fate \in [Files -> Ends \cup {"unseen"}]
  /\ lost \in [Stores -> SUBSET Files]
  /\ caughtUpAt \in [at : Files \cup {NoUrl}, batches : [Stores -> Nat]]

\* The changes of file s reached connection st, or its transaction failed.
Settled(s, st) == s \in Committed(db[st]) \cup lost[st]

\* Whenever a round is over, every file up to the position was handed to a
\* worker, and the changes of every file whose download ended well are in the
\* database, unless the transaction of their batch failed: neither the carry of
\* the position over a round, nor a retry, nor the rewind of the catch-up leaves
\* a file that nobody asked for.
EveryFileAccounted ==
  pc = "round" =>
    \A s \in Start + 1 .. remote :
      /\ fate[s] # "unseen"
      /\ fate[s] = "ok" /\ HasChanges(s) => \A st \in Enabled : Settled(s, st)

\* Once caught up, the position only leaves a file behind after the server gave
\* it: a file that is not there yet, a server that fails and a cached file that
\* vanishes are tried again.  (A body that cannot be read counts as given: see
\* TaskOf.)  And the file it went back to when it caught up had been processed.
SteadyNeverSkips ==
  caughtUp =>
    /\ HasChanges(caughtUpAt.at) => \A st \in Enabled : Settled(caughtUpAt.at, st)
    /\ \A s \in caughtUpAt.at + 1 .. remote - 1 : fate[s] \in {"ok", "readError"}

\* Position k of batch b runs before position l of batch c.
Before(b, k, c, l) == b < c \/ (b = c /\ k < l)

\* Statements run in the order of the files whatever order the workers finish
\* in: while catching up no file runs after a later one, and once caught up
\* every file runs at most once, in order.  (Catching up itself goes back once.)
AppliedInOrder ==
  \A st \in Stores :
    LET log == db[st]
        n == caughtUpAt.batches[st]
    IN  \A b, c \in DOMAIN log :
          \A k \in DOMAIN log[b], l \in DOMAIN log[c] :
            /\ Before(b, k, c, l)
            /\ log[b][k] # NoUrl /\ log[c][l] # NoUrl
            /\ b > n \/ c <= n
            => \/ log[b][k] < log[c][l]
               \/ log[b][k] = log[c][l] /\ c <= n
               \/ log[b][k] = log[c][l] /\ ~caughtUp

\* When the monitor stops at end_time, every file of the window it was asked for
\* had been handed to a worker: it does not stop on a file of the same round
\* with later ones, inside the window, not yet seen.
WindowCovered ==
  pc = "stopped" =>
    \A s \in Files : Stamp(s) < EndTime => fate[s] # "unseen"

\* Once caught up, the changes of every later file are downloaded some time
\* after the server publishes it, however often the server fails in between.
FollowsTheFeed ==
  \A s \in Files :
    caughtUp /\ caughtUpAt.at < s /\ s <= newest ~> fate[s] = "ok"

(***************************************************************************)
(* The monitor implements FeedFollower.  The file the follower is at is    *)
(* the first of the round: the position stands behind it when the loop     *)
(* will increment it, and has gone past it by the jobs posted.             *)
(***************************************************************************)
FollowerPhase ==
  IF pc \in {"stopped", "crashed"} THEN "ended" ELSE IF caughtUp THEN "steady" ELSE "behind"

FollowerNext == IF MustAdvance THEN remote - Len(jobs) + 1 ELSE remote

AnswerOf(end) ==
  CASE end = "ok" -> "given"
    [] end = "readError" -> "unreadable"
    [] end = "unseen" -> "unasked"
    [] OTHER -> "refused"

Follower ==
  INSTANCE FeedFollower WITH
    Start <- Start, Last <- MaxSeq, Width <- 2 * Cores, Stores <- Enabled,
    Content <- {s \in Files : HasChanges(s)},
    phase <- FollowerPhase, next <- FollowerNext,
    answer <- [s \in Files |-> AnswerOf(fate[s])],
    written <- [st \in Enabled |-> Committed(db[st])],
    lost <- [st \in Enabled |-> lost[st]]

\* Every step of the rounds, the pool and the two connections is a step of a follower
\* that asks for files one after the other, or none of its: in particular the rewind
\* and the retries go past no file that was not asked for, or given and not settled.
FollowerSpec == Follower!Spec
=============================================================================
