----------------------------- MODULE Bootstrap ------------------------------
(***************************************************************************)
(* underpass --bootstrap: every row of the four raw tables is validated    *)
(* once, a round of Concurrency pages at a time (Bootstrap::processWays,   *)
(* processNodes, processRelations and their three kinds of task).          *)
(*                                                                         *)
(* Rows are numbered 1, 2, ... in the order they are read, by descending   *)
(* id, so that lastid is the number of the last row read and 0 stands for  *)
(* "from the top".  The tables do not change meanwhile.                    *)
(***************************************************************************)
EXTENDS Integers, Sequences

CONSTANTS
  PageSize,     \* config.bootstrap_page_size
  Concurrency,  \* config.concurrency
  RowCounts,    \* numbers of rows a table may have
  MaxFailures   \* bound: page queries that fail

ASSUME PageSizeAssumption == PageSize \in Nat \ {0}
ASSUME ConcurrencyAssumption == Concurrency \in Nat \ {0}
ASSUME RowCountsAssumption == RowCounts \subseteq Nat
ASSUME FailuresAssumption == MaxFailures \in Nat

VARIABLES
  total,       \* rows of each table
  table,       \* the table at hand
  chunkIndex,  \* rounds of it that are done
  lastid,      \* the last row read
  page,        \* rows read for the round
  tasks,       \* the slots: rows a task has processed, or NotRun
  processed,   \* rows of each table whose statements were executed
  again,       \* rows of each table whose statements were executed twice
  pc,          \* where the program is
  failures

vars == <<total, table, chunkIndex, lastid, page, tasks, processed, again, pc, failures>>

\* In the order of start(): processWays takes the first two.
Order == <<"ways_poly", "ways_line", "nodes", "relations">>
Tables == {"ways_poly", "ways_line", "nodes", "relations"}

NotRun == {0}
TaskIndexes == 0 .. Concurrency - 1
Idle == [k \in TaskIndexes |-> NotRun]

Round == Concurrency * PageSize

\* Mutant of LastRound: rounded up.
LastRoundUp == (total[table] \div PageSize) \div Concurrency + 1

\* The bound of the loop: num_chunks / concurrentTasks.
LastRound == (total[table] \div PageSize) \div Concurrency

\* getWaysFromDB and its like: at most Round rows after lastid.
RowsAfter(last) == {r \in 1 .. total[table] : last < r /\ r <= last + Round}

\* Mutant of Share: the last row of a page belongs to nobody.
ShareMissesLast(k) ==
  {r \in page : k * PageSize <= r - lastid - 1 /\ r - lastid - 1 < (k + 1) * PageSize - 1}

\* What task k takes of the page, from taskIndex * page_size on.
Share(k) ==
  {r \in page : k * PageSize <= r - lastid - 1 /\ r - lastid - 1 < (k + 1) * PageSize}

-----------------------------------------------------------------------------
Init ==
  /\ total \in [Tables -> RowCounts]
  /\ table = Order[1]
  /\ chunkIndex = 0 /\ lastid = 0
  /\ page = {} /\ tasks = Idle
  /\ processed = [t \in Tables |-> {}] /\ again = [t \in Tables |-> {}]
  /\ pc = "round" /\ failures = 0

\* The head of the loop: the progress is a percentage of the rows of the table
\* (undefined for none: the program dies, or goes on), the page is read, and the
\* tasks are posted.
BeginRound ==
  /\ pc = "round"
  /\ chunkIndex <= LastRound
  /\ \/ page' = RowsAfter(lastid) /\ UNCHANGED failures
     \/ failures < MaxFailures /\ failures' = failures + 1 /\ page' = {}
  /\ pc' = "tasks"
  /\ UNCHANGED <<total, table, chunkIndex, lastid, tasks, processed, again>>

DivideByZero ==
  /\ pc = "round"
  /\ total[table] = 0
  /\ pc' = "crashed"
  /\ UNCHANGED <<total, table, chunkIndex, lastid, page, tasks, processed, again, failures>>

\* threadBootstrapWayTask, NodeTask and RelationTask, in any order.
ThreadTask(k) ==
  /\ pc = "tasks"
  /\ tasks[k] = NotRun
  /\ tasks' = [tasks EXCEPT ![k] = Share(k)]
  /\ UNCHANGED <<total, table, chunkIndex, lastid, page, processed, again, pc, failures>>

\* Rows of the slots, and those two slots share.
Taken == UNION {tasks[k] : k \in TaskIndexes}
Shared == {r \in Taken : \E i, k \in TaskIndexes : i # k /\ r \in tasks[i] \cap tasks[k]}

\* The values ways->back().id can have: the last row of the page, and anything
\* when the page is empty.
LastRead ==
  IF page = {} THEN 0 .. total[table]
  ELSE {r \in page : \A s \in page : s <= r}

\* Mutant of Join: the round is not counted.
JoinForgetsRound ==
  /\ pc = "tasks"
  /\ \A k \in TaskIndexes : tasks[k] # NotRun
  /\ processed' = [processed EXCEPT ![table] = @ \cup Taken]
  /\ again' = [again EXCEPT ![table] = @ \cup Shared \cup (Taken \cap processed[table])]
  /\ pc' = "round" /\ lastid' \in LastRead
  /\ page' = {} /\ tasks' = Idle
  /\ UNCHANGED <<total, table, chunkIndex, failures>>

\* pool.join(), the statements of all slots, and the next position; the last row of
\* an empty page is undefined, and reading it may end the program.
Join ==
  /\ pc = "tasks"
  /\ \A k \in TaskIndexes : tasks[k] # NotRun
  /\ processed' = [processed EXCEPT ![table] = @ \cup Taken]
  /\ again' = [again EXCEPT ![table] = @ \cup Shared \cup (Taken \cap processed[table])]
  /\ \/ pc' = "round" /\ lastid' \in LastRead
     \/ page = {} /\ pc' = "crashed" /\ UNCHANGED lastid
  /\ chunkIndex' = chunkIndex + 1
  /\ page' = {} /\ tasks' = Idle
  /\ UNCHANGED <<total, table, failures>>

\* Mutant of NextTable: the next table is read on from the position of the last.
NextTableReadsOn ==
  /\ pc = "round"
  /\ chunkIndex > LastRound
  /\ IF table = "relations"
       THEN pc' = "done" /\ UNCHANGED table
       ELSE /\ \E i \in 1 .. 3 : Order[i] = table /\ table' = Order[i + 1]
            /\ UNCHANGED pc
  /\ chunkIndex' = 0
  /\ UNCHANGED <<total, lastid, page, tasks, processed, again, failures>>

\* The table is done: the next one, from the top.
NextTable ==
  /\ pc = "round"
  /\ chunkIndex > LastRound
  /\ IF table = "relations"
       THEN pc' = "done" /\ UNCHANGED table
       ELSE /\ \E i \in 1 .. 3 : Order[i] = table /\ table' = Order[i + 1]
            /\ UNCHANGED pc
  /\ chunkIndex' = 0 /\ lastid' = 0
  /\ UNCHANGED <<total, page, tasks, processed, again, failures>>

Next ==
  \/ BeginRound \/ DivideByZero \/ Join \/ NextTable
  \/ \E k \in TaskIndexes : ThreadTask(k)

\* The pool runs every task that was posted, and nothing blocks the loop.
Spec == Init /\ [][Next]_vars /\ WF_vars(Next)

-----------------------------------------------------------------------------
TypeOK ==
  /\ total \in [Tables -> RowCounts]
  /\ table \in Tables
  /\ chunkIndex \in Nat /\ lastid \in 0 .. total[table]
  /\ page \subseteq 1 .. total[table]
  /\ tasks \in [TaskIndexes -> SUBSET Nat]
  /\ processed \in [Tables -> SUBSET Nat] /\ again \in [Tables -> SUBSET Nat]
  /\ pc \in {"round", "tasks", "done", "crashed"}
  /\ failures \in 0 .. MaxFailures

\* The tables the program has finished with.
Before(t, u) ==
  \/ t = "ways_poly" /\ u \in {"ways_line", "nodes", "relations"}
  \/ t = "ways_line" /\ u \in {"nodes", "relations"}
  \/ t = "nodes" /\ u = "relations"

Finished == {t \in Tables : pc = "done" \/ Before(t, table)}

\* When no query failed, every row of a finished table has been validated, and no
\* row of any table twice, however the rows divide into pages and pages into rounds.
EveryRowOnce ==
  failures = 0 =>
    \A t \in Tables :
      /\ again[t] = {}
      /\ t \in Finished => processed[t] = 1 .. total[t]

\* The program only dies for want of rows: a failed query, an empty table, or one
\* whose rows fill the rounds exactly, so that the last round reads none.
DiesForWantOfRows ==
  pc = "crashed" => failures > 0 \/ total[table] % Round = 0

\* The bootstrap ends, with all tables done or dead, whatever pages fail: a position
\* lost to a failed query does not make it go round for ever.
Terminates == <>(pc \in {"done", "crashed"})
=============================================================================
