-------------------------- MODULE BootstrapProofs ---------------------------
(***************************************************************************)
(* Every row is validated exactly once, for any number of rows, page size  *)
(* and number of tasks.                                                    *)
(***************************************************************************)
EXTENDS Bootstrap, TLAPS

\* The last round of a table of n rows starts at a row of the table, or just after
\* the last one, and ends beyond it.
LEMMA LastRoundBounds ==
  ASSUME NEW n \in Nat
  PROVE  LET last == (n \div PageSize) \div Concurrency
         IN  last \in Nat /\ last * Round <= n /\ n < (last + 1) * Round
<1> DEFINE pages == n \div PageSize
           last == pages \div Concurrency
<1> USE PageSizeAssumption, ConcurrencyAssumption
<1>1. pages \in Nat /\ pages * PageSize <= n /\ n < (pages + 1) * PageSize
  OBVIOUS
<1>2. last \in Nat /\ last * Concurrency <= pages /\ pages + 1 <= (last + 1) * Concurrency
  BY <1>1
<1> HIDE DEF pages, last
<1>3. (last * Concurrency) * PageSize <= pages * PageSize
  BY <1>1, <1>2
<1>4. (pages + 1) * PageSize <= ((last + 1) * Concurrency) * PageSize
  BY <1>1, <1>2
<1>5. /\ (last * Concurrency) * PageSize = last * Round
      /\ ((last + 1) * Concurrency) * PageSize = (last + 1) * Round
  BY <1>2 DEF Round
<1>6. Round \in Nat \ {0}
  BY DEF Round
<1>7. last * Round <= n
  BY <1>1, <1>2, <1>3, <1>5, <1>6
<1>8. n < (last + 1) * Round
  BY <1>1, <1>2, <1>4, <1>5, <1>6
<1> QED
  BY <1>2, <1>7, <1>8 DEF last, pages

LEMMA RoundFacts ==
  /\ Round \in Nat \ {0}
  /\ \A c \in Nat : c * Round \in Nat /\ (c + 1) * Round = c * Round + Round
<1>1. Round \in Nat \ {0}
  BY PageSizeAssumption, ConcurrencyAssumption DEF Round
<1> HIDE DEF Round
<1> QED
  BY <1>1

\* Each row of a round falls to one task.
LEMMA OneTask ==
  ASSUME NEW d \in Nat, d < Round
  PROVE  /\ \E k \in TaskIndexes : k * PageSize <= d /\ d < (k + 1) * PageSize
         /\ \A i, k \in TaskIndexes :
              /\ i * PageSize <= d /\ d < (i + 1) * PageSize
              /\ k * PageSize <= d /\ d < (k + 1) * PageSize
              => i = k
<1> USE PageSizeAssumption, ConcurrencyAssumption
<1> DEFINE k0 == d \div PageSize
<1>1. k0 \in Nat /\ k0 * PageSize <= d /\ d < (k0 + 1) * PageSize
  OBVIOUS
<1> HIDE DEF k0
<1>2. k0 < Concurrency
  <2>1. SUFFICES ASSUME Concurrency <= k0 PROVE FALSE
    BY <1>1
  <2>2. Concurrency * PageSize <= k0 * PageSize
    BY <1>1, <2>1
  <2> QED
    BY <1>1, <2>2 DEF Round
<1>3. k0 \in TaskIndexes
  BY <1>1, <1>2 DEF TaskIndexes
<1>4. ASSUME NEW i \in TaskIndexes, NEW k \in TaskIndexes, i < k,
             d < (i + 1) * PageSize, k * PageSize <= d
      PROVE  FALSE
  <2>1. i \in Nat /\ k \in Nat /\ i + 1 <= k
    BY <1>4 DEF TaskIndexes
  <2>2. (i + 1) * PageSize <= k * PageSize
    BY <2>1
  <2>3. (i + 1) * PageSize \in Nat /\ k * PageSize \in Nat
    BY <2>1
  <2> QED
    BY <1>4, <2>2, <2>3
<1>5. ASSUME NEW i \in TaskIndexes, NEW k \in TaskIndexes,
             i * PageSize <= d, d < (i + 1) * PageSize,
             k * PageSize <= d, d < (k + 1) * PageSize
      PROVE  i = k
  BY <1>4, <1>5 DEF TaskIndexes
<1> QED
  BY <1>1, <1>3, <1>5

-----------------------------------------------------------------------------
(* The inductive invariant.                                                *)

\* Tables the program has not come to.
Ahead == Tables \ (Finished \cup {table})

\* Without failures the position is that of the rounds done, as long as there is a
\* round to come: only the last one can read nothing and lose it.
PosInv ==
  /\ pc \in {"round", "tasks"} /\ chunkIndex <= LastRound => lastid = chunkIndex * Round
  /\ pc = "tasks" => chunkIndex <= LastRound /\ page = RowsAfter(lastid)
  /\ pc = "round" => chunkIndex <= LastRound + 1

\* A slot is empty or has its task's share.
SlotInv ==
  pc = "tasks" => \A k \in TaskIndexes : tasks[k] \in {NotRun, Share(k)}

\* Finished tables are processed, the one at hand up to the rounds done, the others
\* not at all; and nothing twice.
RowsInv ==
  /\ \A t \in Tables : again[t] = {}
  /\ \A t \in Finished : processed[t] = 1 .. total[t]
  /\ \A t \in Ahead : processed[t] = {}
  /\ pc \in {"round", "tasks"} =>
       processed[table] = {r \in 1 .. total[table] : r <= chunkIndex * Round}

IInv ==
  /\ TypeOK
  /\ pc = "round" => page = {} /\ tasks = Idle
  /\ failures = 0 => PosInv /\ SlotInv /\ RowsInv
  /\ DiesForWantOfRows

LEMMA InitIInv == Init => IInv
<1> SUFFICES ASSUME Init PROVE IInv
  OBVIOUS
<1>1. table = "ways_poly" /\ pc = "round" /\ table \in Tables
  BY DEF Init, Order, Tables
<1>2. total[table] \in Nat
  BY <1>1, RowCountsAssumption DEF Init
<1>3. TypeOK
  BY <1>1, <1>2, FailuresAssumption DEF Init, TypeOK, Idle, NotRun
<1>4. LastRound \in Nat
  BY <1>2, LastRoundBounds DEF LastRound
<1>5. 0 * Round = 0
  BY RoundFacts
<1>6. Finished = {}
  BY <1>1 DEF Finished, Before
<1>7. PosInv
  BY <1>1, <1>4, <1>5 DEF PosInv, Init
<1>8. SlotInv
  BY <1>1 DEF SlotInv
<1>9. {r \in 1 .. total[table] : r <= 0} = {}
  BY <1>2
<1>10. RowsInv
  BY <1>1, <1>5, <1>6, <1>9 DEF RowsInv, Init, Ahead
<1> QED
  BY <1>1, <1>3, <1>7, <1>8, <1>10 DEF IInv, DiesForWantOfRows, Init, TypeOK

-----------------------------------------------------------------------------
\* Facts of every step: the totals stay, and the bounds of the table at hand.
LEMMA AtHand ==
  ASSUME TypeOK
  PROVE  /\ total[table] \in Nat
         /\ LastRound \in Nat
         /\ LastRound * Round <= total[table]
         /\ total[table] < (LastRound + 1) * Round
<1>1. total[table] \in Nat
  BY RowCountsAssumption DEF TypeOK
<1> QED
  BY <1>1, LastRoundBounds DEF LastRound

LEMMA BeginStep == IInv /\ BeginRound => IInv'
<1> SUFFICES ASSUME IInv, BeginRound PROVE IInv'
  OBVIOUS
<1> USE DEF IInv
<1>1. /\ pc = "round" /\ pc' = "tasks" /\ chunkIndex <= LastRound /\ tasks = Idle
      /\ UNCHANGED <<total, table, chunkIndex, lastid, tasks, processed, again>>
  BY DEF BeginRound
<1>2. page' \subseteq 1 .. total[table] /\ failures' \in 0 .. MaxFailures
  BY FailuresAssumption DEF BeginRound, RowsAfter, TypeOK
<1>3. TypeOK'
  BY <1>1, <1>2 DEF TypeOK
<1>4. ASSUME failures' = 0
      PROVE  failures = 0 /\ page' = RowsAfter(lastid)
  BY <1>4 DEF BeginRound, TypeOK
<1>5. LastRound' = LastRound /\ Finished' = Finished /\ Ahead' = Ahead
  BY <1>1 DEF LastRound, Finished, Ahead
<1>6. ASSUME failures' = 0 PROVE PosInv'
  BY <1>1, <1>4, <1>5, <1>6 DEF PosInv, RowsAfter
<1>7. SlotInv'
  BY <1>1 DEF SlotInv, Idle
<1>8. ASSUME failures' = 0 PROVE RowsInv'
  BY <1>1, <1>4, <1>5, <1>8 DEF RowsInv
<1> QED
  BY <1>1, <1>3, <1>6, <1>7, <1>8 DEF DiesForWantOfRows, TypeOK

LEMMA DivideStep == IInv /\ DivideByZero => IInv'
<1> SUFFICES ASSUME IInv, DivideByZero PROVE IInv'
  OBVIOUS
<1> USE DEF IInv
<1>1. /\ pc = "round" /\ pc' = "crashed" /\ total[table] = 0
      /\ UNCHANGED <<total, table, chunkIndex, lastid, page, tasks, processed, again, failures>>
  BY DEF DivideByZero
<1>2. TypeOK'
  BY <1>1 DEF TypeOK
<1>3. Finished' = Finished /\ Ahead' = Ahead
  BY <1>1 DEF Finished, Ahead
<1>4. failures' = 0 => PosInv' /\ SlotInv' /\ RowsInv'
  BY <1>1, <1>3 DEF PosInv, SlotInv, RowsInv
<1>5. 0 % Round = 0
  BY RoundFacts
<1> QED
  BY <1>1, <1>2, <1>4, <1>5 DEF DiesForWantOfRows

LEMMA TaskStep ==
  ASSUME IInv, NEW k \in TaskIndexes, ThreadTask(k)
  PROVE  IInv'
<1> USE DEF IInv
<1>1. /\ pc = "tasks" /\ tasks' = [tasks EXCEPT ![k] = Share(k)]
      /\ UNCHANGED <<total, table, chunkIndex, lastid, page, processed, again, pc, failures>>
  BY DEF ThreadTask
<1>2. Share(k) \subseteq Nat
  <2>1. total[table] \in Nat
    BY AtHand
  <2>2. page \subseteq Nat
    BY <2>1 DEF TypeOK
  <2> QED
    BY <2>2 DEF Share
<1>3. TypeOK'
  BY <1>1, <1>2 DEF TypeOK
<1>4. LastRound' = LastRound /\ Finished' = Finished /\ Ahead' = Ahead
  BY <1>1 DEF LastRound, Finished, Ahead
<1>5. \A i : Share(i)' = Share(i)
  BY <1>1 DEF Share
<1>6. failures' = 0 => PosInv'
  BY <1>1, <1>4 DEF PosInv, RowsAfter
<1>7. failures' = 0 => SlotInv'
  BY <1>1, <1>5 DEF SlotInv, TypeOK
<1>8. failures' = 0 => RowsInv'
  BY <1>1, <1>4 DEF RowsInv
<1> QED
  BY <1>1, <1>3, <1>6, <1>7, <1>8 DEF DiesForWantOfRows, TypeOK

\* When every task has run, the slots are the page, each row in one of them.
LEMMA SlotsArePage ==
  ASSUME TypeOK, SlotInv, pc = "tasks", page = RowsAfter(lastid),
         \A k \in TaskIndexes : tasks[k] # NotRun
  PROVE  Taken = page /\ Shared = {}
<1>1. \A k \in TaskIndexes : tasks[k] = Share(k)
  BY DEF SlotInv
<1>2. ASSUME NEW r \in page
      PROVE  r - lastid - 1 \in Nat /\ r - lastid - 1 < Round
  <2>1. lastid \in Nat /\ r \in Nat /\ lastid < r /\ r <= lastid + Round
    BY AtHand DEF TypeOK, RowsAfter
  <2> HIDE DEF Round
  <2> QED
    BY <2>1, RoundFacts
<1>3. ASSUME NEW r \in page
      PROVE  \E k \in TaskIndexes : r \in tasks[k]
  BY <1>1, <1>2, OneTask DEF Share
<1>4. ASSUME NEW i \in TaskIndexes, NEW k \in TaskIndexes, i # k,
             NEW r \in tasks[i] \cap tasks[k]
      PROVE  FALSE
  <2>1. r \in Share(i) /\ r \in Share(k)
    BY <1>1
  <2> QED
    BY <1>2, <1>4, <2>1, OneTask DEF Share
<1>5. Taken \subseteq page
  BY <1>1 DEF Taken, Share
<1> QED
  BY <1>3, <1>4, <1>5 DEF Taken, Shared

LEMMA JoinStep == IInv /\ Join => IInv'
<1> SUFFICES ASSUME IInv, Join PROVE IInv'
  OBVIOUS
<1> USE DEF IInv
<1>1. /\ pc = "tasks" /\ \A k \in TaskIndexes : tasks[k] # NotRun
      /\ processed' = [processed EXCEPT ![table] = @ \cup Taken]
      /\ again' = [again EXCEPT ![table] = @ \cup Shared \cup (Taken \cap processed[table])]
      /\ chunkIndex' = chunkIndex + 1
      /\ page' = {} /\ tasks' = Idle
      /\ UNCHANGED <<total, table, failures>>
  BY DEF Join
<1>2. \/ pc' = "round" /\ lastid' \in LastRead
      \/ page = {} /\ pc' = "crashed" /\ lastid' = lastid
  BY DEF Join
<1>3. total[table] \in Nat /\ page \subseteq 1 .. total[table]
  BY AtHand DEF TypeOK
<1>4. LastRead \subseteq 0 .. total[table]
  <2>1. 1 .. total[table] \subseteq 0 .. total[table]
    BY <1>3
  <2> QED
    BY <1>3, <2>1 DEF LastRead
<1>5. Taken \subseteq Nat /\ Shared \subseteq Taken
  <2>1. \A k \in TaskIndexes : tasks[k] \subseteq Nat
    BY DEF TypeOK
  <2>2. Taken \subseteq Nat
    BY <2>1 DEF Taken
  <2> QED
    BY <2>2 DEF Shared
<1>6. tasks' \in [TaskIndexes -> SUBSET Nat]
  BY <1>1 DEF Idle, NotRun
<1>7. TypeOK'
  <2>1. processed' \in [Tables -> SUBSET Nat] /\ again' \in [Tables -> SUBSET Nat]
    BY <1>1, <1>5 DEF TypeOK
  <2>2. lastid' \in 0 .. total'[table']
    BY <1>1, <1>2, <1>4 DEF TypeOK
  <2>3. page' \subseteq 1 .. total'[table'] /\ chunkIndex' \in Nat
    BY <1>1 DEF TypeOK
  <2> QED
    BY <1>1, <1>2, <1>6, <2>1, <2>2, <2>3 DEF TypeOK
<1>8. LastRound' = LastRound /\ Finished' = Finished /\ Ahead' = Ahead
  <2>1. pc # "done" /\ pc' # "done"
    BY <1>1, <1>2
  <2>2. Finished' = Finished
    BY <1>1, <2>1 DEF Finished
  <2>3. LastRound' = LastRound
    BY <1>1 DEF LastRound
  <2> QED
    BY <1>1, <2>2, <2>3 DEF Ahead
<1>9. ASSUME failures = 0
      PROVE  PosInv' /\ RowsInv' /\ DiesForWantOfRows'
  <2> DEFINE done == chunkIndex * Round
  <2>1. chunkIndex <= LastRound /\ page = RowsAfter(lastid) /\ lastid = done
    BY <1>1, <1>9 DEF PosInv
  <2>2. Taken = page /\ Shared = {}
    BY <1>1, <1>9, <2>1, SlotsArePage
  <2>3. /\ chunkIndex \in Nat /\ done \in Nat /\ Round \in Nat \ {0}
        /\ chunkIndex' * Round = done + Round
    BY <1>1, RoundFacts DEF TypeOK
  <2>4. LastRound \in Nat
    BY AtHand
  <2>5. ASSUME chunkIndex + 1 <= LastRound PROVE done + Round <= total[table]
    <3>1. (chunkIndex + 1) * Round <= LastRound * Round
      BY <2>3, <2>4, <2>5
    <3>2. LastRound * Round \in Nat
      BY <2>3, <2>4
    <3> QED
      BY <1>1, <1>3, <2>3, <3>1, <3>2, AtHand
  <2>6. ASSUME done + Round <= total[table] PROVE page # {} /\ LastRead = {done + Round}
    <3> HIDE DEF done, Round
    <3>1. page = {r \in 1 .. total[table] : done < r /\ r <= done + Round}
      BY <2>1 DEF RowsAfter
    <3>2. done + Round \in page
      BY <1>3, <2>3, <2>6, <3>1
    <3> QED
      BY <1>3, <2>3, <3>1, <3>2 DEF LastRead
  <2>7. PosInv'
    <3>1. ASSUME pc' = "round", chunkIndex' <= LastRound'
          PROVE  lastid' = chunkIndex' * Round
      BY <1>1, <1>2, <1>8, <2>3, <2>5, <2>6, <3>1
    <3>2. chunkIndex' <= LastRound' + 1
      BY <1>1, <1>8, <2>1, <2>3, <2>4
    <3> QED
      BY <1>2, <3>1, <3>2 DEF PosInv
  <2>8. RowsInv'
    <3>1. again'[table] = {} /\ processed'[table] = processed[table] \cup page
      <4>1. page \cap processed[table] = {}
        <5>1. processed[table] = {r \in 1 .. total[table] : r <= done}
          BY <1>1, <1>9 DEF RowsInv
        <5>2. page = {r \in 1 .. total[table] : done < r /\ r <= done + Round}
          BY <2>1 DEF RowsAfter
        <5> HIDE DEF done, Round
        <5> QED
          BY <1>3, <2>3, <5>1, <5>2
      <4> QED
        BY <1>1, <1>9, <2>2, <4>1 DEF TypeOK, RowsInv
    <3>2. processed'[table] = {r \in 1 .. total[table] : r <= done + Round}
      <4>1. processed[table] = {r \in 1 .. total[table] : r <= done}
        BY <1>1, <1>9 DEF RowsInv
      <4>2. page = {r \in 1 .. total[table] : done < r /\ r <= done + Round}
        BY <2>1 DEF RowsAfter
      <4> HIDE DEF done, Round
      <4> QED
        BY <1>3, <2>3, <3>1, <4>1, <4>2
    <3>3. \A t \in Tables : t # table => processed'[t] = processed[t] /\ again'[t] = again[t]
      BY <1>1 DEF TypeOK
    <3>4. Finished \subseteq Tables \ {table}
      BY <1>1 DEF Finished, Before, Tables, TypeOK
    <3>5. Ahead \subseteq Tables \ {table}
      BY DEF Ahead
    <3>6. \A t \in Tables : again'[t] = {}
      BY <1>9, <3>1, <3>3 DEF RowsInv
    <3>7. \A t \in Finished : processed'[t] = 1 .. total[t]
      BY <1>9, <3>3, <3>4 DEF RowsInv
    <3>8. \A t \in Ahead : processed'[t] = {}
      BY <1>9, <3>3, <3>5 DEF RowsInv
    <3>9. processed'[table'] = {r \in 1 .. total'[table'] : r <= chunkIndex' * Round}
      BY <1>1, <2>3, <3>2
    <3> QED
      BY <1>1, <1>8, <3>6, <3>7, <3>8, <3>9 DEF RowsInv
  <2>9. DiesForWantOfRows'
    <3>1. SUFFICES ASSUME page = {} PROVE total[table] % Round = 0
      BY <1>1, <1>2 DEF DiesForWantOfRows
    <3>2. done + 1 \notin page
      BY <3>1
    <3>3. total[table] <= done
      <4>1. page = {r \in 1 .. total[table] : done < r /\ r <= done + Round}
        BY <2>1 DEF RowsAfter
      <4> HIDE DEF done, Round
      <4> QED
        BY <1>3, <2>3, <3>2, <4>1
    <3>4. done <= LastRound * Round
      BY <2>1, <2>3, <2>4
    <3>5. total[table] = done
      <4>1. LastRound * Round \in Nat
        BY <2>3, <2>4
      <4> QED
        BY <1>3, <2>3, <3>3, <3>4, <4>1, AtHand
    <3>6. (chunkIndex * Round) % Round = 0
      BY <2>3
    <3> QED
      BY <3>5, <3>6
  <2> QED
    BY <2>7, <2>8, <2>9
<1>10. ASSUME failures # 0 PROVE DiesForWantOfRows'
  BY <1>1, <1>10 DEF DiesForWantOfRows, TypeOK
<1>11. SlotInv'
  BY <1>2 DEF SlotInv
<1> QED
  BY <1>1, <1>6, <1>7, <1>9, <1>10, <1>11

LEMMA NextTableStep == IInv /\ NextTable => IInv'
<1> SUFFICES ASSUME IInv, NextTable PROVE IInv'
  OBVIOUS
<1> USE DEF IInv
<1>1. /\ pc = "round" /\ chunkIndex > LastRound /\ tasks = Idle
      /\ chunkIndex' = 0 /\ lastid' = 0
      /\ UNCHANGED <<total, page, tasks, processed, again, failures>>
  BY DEF NextTable
<1>2. table \in Tables /\ total[table] \in Nat
  BY AtHand DEF TypeOK
<1>3. ASSUME failures = 0
      PROVE  processed[table] = 1 .. total[table]
  <2>1. chunkIndex = LastRound + 1
    BY <1>1, <1>3, AtHand DEF PosInv, TypeOK
  <2>2. total[table] < chunkIndex * Round
    BY <2>1, AtHand
  <2>3. chunkIndex * Round \in Nat
    BY RoundFacts DEF TypeOK
  <2>4. processed[table] = {r \in 1 .. total[table] : r <= chunkIndex * Round}
    BY <1>1, <1>3 DEF RowsInv
  <2> HIDE DEF Round
  <2> QED
    BY <1>2, <2>2, <2>3, <2>4
<1>4. /\ table' \in Tables /\ pc' \in {"round", "done"}
      /\ Finished' = Finished \cup {table}
      /\ Ahead' \subseteq Ahead
      /\ pc' = "round" => table' \in Ahead
  <2>1. CASE table = "relations"
    <3>1. pc' = "done" /\ table' = table
      BY <2>1 DEF NextTable
    <3> QED
      BY <1>1, <1>2, <2>1, <3>1 DEF Finished, Ahead, Before, Tables
  <2>2. CASE table # "relations"
    <3>1. pc' = "round" /\ \E i \in 1 .. 3 : Order[i] = table /\ table' = Order[i + 1]
      BY <1>1, <2>2 DEF NextTable
    <3>2. \/ table = "ways_poly" /\ table' = "ways_line"
          \/ table = "ways_line" /\ table' = "nodes"
          \/ table = "nodes" /\ table' = "relations"
      BY <3>1 DEF Order
    <3> QED
      BY <1>1, <3>1, <3>2 DEF Finished, Ahead, Before, Tables
  <2> QED
    BY <2>1, <2>2
<1>5. total'[table'] \in Nat
  BY <1>1, <1>4, RowCountsAssumption DEF TypeOK
<1>6. TypeOK'
  <2>1. page' = {}
    BY <1>1
  <2> QED
    BY <1>1, <1>4, <1>5, <2>1 DEF TypeOK
<1>7. PosInv'
  <2>1. LastRound' \in Nat
    BY <1>5, LastRoundBounds DEF LastRound
  <2>2. 0 * Round = 0
    BY RoundFacts
  <2>3. lastid' = chunkIndex' * Round /\ chunkIndex' <= LastRound' + 1
    <3>1. chunkIndex' = 0 /\ lastid' = 0
      BY <1>1
    <3>2. 0 <= LastRound' + 1
      BY <2>1 DEF LastRound
    <3> QED
      BY <2>2, <3>1, <3>2
  <2>4. pc' # "tasks"
    BY <1>4
  <2>5. Round' = Round
    BY DEF Round
  <2> QED
    BY <2>3, <2>4, <2>5 DEF PosInv
<1>8. SlotInv'
  BY <1>4 DEF SlotInv
<1>9. ASSUME failures = 0 PROVE RowsInv'
  <2>1. \A t \in Finished' : processed'[t] = 1 .. total'[t]
    BY <1>1, <1>3, <1>4, <1>9 DEF RowsInv
  <2>2. \A t \in Ahead' : processed'[t] = {}
    BY <1>1, <1>4, <1>9 DEF RowsInv
  <2>3. \A t \in Tables : again'[t] = {}
    BY <1>1, <1>9 DEF RowsInv
  <2>4. ASSUME pc' = "round"
        PROVE  processed'[table'] = {r \in 1 .. total'[table'] : r <= chunkIndex' * Round}
    <3>1. processed'[table'] = {}
      BY <1>1, <1>4, <1>9, <2>4 DEF RowsInv
    <3>2. chunkIndex' * Round = 0
      BY <1>1, RoundFacts
    <3> QED
      BY <1>5, <3>1, <3>2
  <2> QED
    BY <1>4, <2>1, <2>2, <2>3, <2>4 DEF RowsInv
<1>10. DiesForWantOfRows'
  BY <1>4 DEF DiesForWantOfRows
<1> QED
  BY <1>1, <1>6, <1>7, <1>8, <1>9, <1>10

LEMMA InductiveStep == IInv /\ [Next]_vars => IInv'
<1> SUFFICES ASSUME IInv, [Next]_vars PROVE IInv'
  OBVIOUS
<1>1. CASE BeginRound
  BY <1>1, BeginStep
<1>2. CASE DivideByZero
  BY <1>2, DivideStep
<1>3. CASE Join
  BY <1>3, JoinStep
<1>4. CASE NextTable
  BY <1>4, NextTableStep
<1>5. ASSUME NEW k \in TaskIndexes, ThreadTask(k) PROVE IInv'
  BY <1>5, TaskStep
<1>6. CASE UNCHANGED vars
  <2> USE <1>6 DEF vars
  <2>1. LastRound' = LastRound /\ Finished' = Finished /\ Ahead' = Ahead
    BY DEF LastRound, Finished, Ahead
  <2>2. \A k : Share(k)' = Share(k)
    BY DEF Share
  <2>3. RowsAfter(lastid)' = RowsAfter(lastid)
    BY DEF RowsAfter
  <2>4. TypeOK' /\ DiesForWantOfRows'
    BY DEF IInv, TypeOK, DiesForWantOfRows
  <2>5. PosInv => PosInv'
    BY <2>1, <2>3 DEF PosInv
  <2>6. SlotInv => SlotInv'
    BY <2>2 DEF SlotInv
  <2>7. RowsInv => RowsInv'
    BY <2>1 DEF RowsInv
  <2> QED
    BY <2>4, <2>5, <2>6, <2>7 DEF IInv
<1> QED
  BY <1>1, <1>2, <1>3, <1>4, <1>5, <1>6 DEF Next

LEMMA Invariance == Spec => []IInv
  BY InitIInv, InductiveStep, PTL DEF Spec

\* The state keeps to its type: above all, the position stays within the table at
\* hand, whatever page fails.
THEOREM TypeCorrect == Spec => []TypeOK
<1>1. IInv => TypeOK
  BY DEF IInv
<1> QED
  BY Invariance, <1>1, PTL

\* Without failures every row of every finished table is validated, none twice.
THEOREM OnceTheorem == Spec => []EveryRowOnce
<1>1. IInv => EveryRowOnce
  BY DEF IInv, RowsInv, EveryRowOnce
<1> QED
  BY Invariance, <1>1, PTL

\* The program dies only of a failed query, or of a table whose rows fill the rounds
\* exactly.
THEOREM DeathTheorem == Spec => []DiesForWantOfRows
<1>1. IInv => DiesForWantOfRows
  BY DEF IInv
<1> QED
  BY Invariance, <1>1, PTL
=============================================================================
