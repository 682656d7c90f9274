-------------------------- MODULE ReplicationTasks --------------------------
(***************************************************************************)
(* What the two monitor threads of threads.cc share: the result of one     *)
(* download (ReplicationTask), the statements a round hands to the two     *)
(* database connections (allTasksQueries), the choice of the task that     *)
(* decides how the monitor goes on (getClosest), and the feed of           *)
(* replication files they read, which is outside the program.              *)
(*                                                                         *)
(* A file is its sequence number (module RemoteURL shows that a path and   *)
(* its sequence number are the same thing).  Time is in ticks,             *)
(* TicksPerMinute of them to the minute, because the code compares         *)
(* timestamps truncated to minutes.                                        *)
(***************************************************************************)
EXTENDS Integers, Sequences

CONSTANTS
  NotADateTime,     \* boost's not_a_date_time
  NadtMinutes,      \* hours()*60 + minutes() of (now - not_a_date_time)
  TicksPerMinute,   \* resolution of the clock
  Period            \* ticks between the last entries of two successive files

\* The minute count of a special duration depends on the width of boost's
\* hour_type: a huge number of either sign.  Nothing here depends on which.
ASSUME NadtAssumption == NotADateTime \notin Int /\ NadtMinutes \in Int
ASSUME ClockAssumption == TicksPerMinute \in Nat \ {0} /\ Period \in Nat \ {0}

\* replication::reqfile_t
Statuses ==
  {"none", "localError", "remoteNotFound", "corrupted", "systemError", "success"}

\* The two database connections of a monitor: result[0] goes to db (statistics
\* and validation), result[1] to osmdb (the raw tables).
Stores == {"underpass", "osm"}

\* url of a ReplicationTask that was never filled in (the empty string).
NoUrl == -1

Times == Int \cup {NotADateTime}

\* Final entry of file s, which a task takes as its timestamp.
Stamp(s) == s * Period

(***************************************************************************)
(* struct ReplicationTask.  query is abstracted to the set of connections  *)
(* it holds statements for; which statements is the business of the        *)
(* modules of the tables.                                                  *)
(***************************************************************************)
Task(url, timestamp, status, query) ==
  [url |-> url, timestamp |-> timestamp, status |-> status, query |-> query]

TaskType ==
  [ url : Nat \cup {NoUrl}, timestamp : Times, status : Statuses,
    query : SUBSET Stores ]

\* A default-constructed ReplicationTask.
NoTask == Task(NoUrl, NotADateTime, "none", {})

\* A position remembered from an earlier task: url and timestamp.
ClosestType == [url : Nat \cup {NoUrl}, timestamp : Times]

(***************************************************************************)
(* allTasksQueries: the statements of all tasks, in the order of the       *)
(* vector, as one string per connection.  A batch lists the files whose    *)
(* statements are in that string, slot by slot.                            *)
(***************************************************************************)
AllTasksQueries(tasks, store) ==
  [ k \in DOMAIN tasks |->
      IF store \in tasks[k].query THEN tasks[k].url ELSE NoUrl ]

FilesOf(batch) == {batch[k] : k \in DOMAIN batch} \ {NoUrl}

\* Files whose statements some committed batch of a connection holds.
Committed(log) == UNION {FilesOf(log[b]) : b \in DOMAIN log}

(***************************************************************************)
(* delta.hours() * 60 + delta.minutes(), truncated to whole minutes.       *)
(***************************************************************************)
Minutes(now, ts) ==
  IF ts = NotADateTime THEN NadtMinutes ELSE (now - ts) \div TicksPerMinute

(***************************************************************************)
(* getClosest: start from the first task whatever it is, and let every     *)
(* task with a timestamp replace it when it is strictly fewer minutes old. *)
(* So the result is the first of the youngest among the first task and the *)
(* tasks with a timestamp; a first task without one takes part with        *)
(* NadtMinutes.                                                            *)
(***************************************************************************)
Candidates(tasks) ==
  {k \in DOMAIN tasks : k = 1 \/ tasks[k].timestamp # NotADateTime}

IsClosest(tasks, now, k) ==
  /\ k \in Candidates(tasks)
  /\ \A l \in Candidates(tasks) :
       LET mk == Minutes(now, tasks[k].timestamp)
           ml == Minutes(now, tasks[l].timestamp)
       IN  mk < ml \/ (mk = ml /\ k <= l)
=============================================================================
