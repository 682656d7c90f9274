---------------------- MODULE ReplicationFilesProofs ----------------------
(***************************************************************************)
(* The files of the feed: their names, of RemoteURL, and the cache of      *)
(* them, of PlanetCache.                                                   *)
(*                                                                         *)
(* The names, for every radix, number of servers and feed: the type of the *)
(* object, the agreement of its strings with its numbers, and the          *)
(* arithmetic of increment and decrement.                                  *)
(*                                                                         *)
(* The cache, for any number of workers, files, rounds and crashes: what   *)
(* is missed has a cause, and bad files go.                                *)
(***************************************************************************)
EXTENDS RemoteURL, PlanetCache, TLAPS

-----------------------------------------------------------------------------
(* The names of the files.                                                 *)

LEMMA RadixFacts ==
  Radix \in Nat /\ Radix > 1 /\ Radix \in Int
BY RadixAssumption

LEMMA PathType ==
  ASSUME NEW a \in Nat, NEW b \in Group, NEW c \in Group
  PROVE  Path(a, b, c) \in Paths
BY DEF Path, Paths

\* increment keeps the three groups in range, and is one step in the feed.
LEMMA NextPathFacts ==
  ASSUME NEW p \in Paths
  PROVE  NextPath(p) \in Paths /\ Sequence(NextPath(p)) = Sequence(p) + 1
<1>1. PICK a \in Nat, b \in Group, c \in Group : p = Path(a, b, c)
  BY DEF Path, Paths
<1>2. b \in 0 .. Radix - 1 /\ c \in 0 .. Radix - 1 /\ b \in Int /\ c \in Int
  BY RadixFacts DEF Group
<1> DEFINE sq == Radix * Radix
<1>3. sq \in Int
  BY RadixFacts
<1>4. \A x, y, z : Sequence(Path(x, y, z)) = x * sq + y * Radix + z
  BY DEF Sequence, Path
<1>5. CASE b = Radix - 1 /\ c = Radix - 1
  <2>1. NextPath(p) = Path(a + 1, 0, 0)
    BY <1>1, <1>5 DEF NextPath, Path
  <2>2. Path(a + 1, 0, 0) \in Paths
    BY RadixFacts, PathType DEF Group
  <2>3. (a + 1) * sq + 0 * Radix + 0 = a * sq + sq
    BY <1>3, RadixFacts
  <2>4. b * Radix = sq - Radix
    BY <1>5, RadixFacts
  <2>5. a * sq \in Int /\ b * Radix \in Int
    BY <1>2, <1>3, RadixFacts
  <2>6. a * sq + b * Radix + c + 1 = a * sq + sq
    BY <1>3, <1>5, <2>4, <2>5, RadixFacts
  <2> QED BY <1>1, <1>4, <2>1, <2>2, <2>3, <2>6
<1>6. CASE b # Radix - 1 /\ c = Radix - 1
  <2>1. NextPath(p) = Path(a, b + 1, 0)
    BY <1>1, <1>6 DEF NextPath, Path
  <2>2. b + 1 \in Group /\ 0 \in Group
    BY <1>2, <1>6, RadixFacts DEF Group
  <2>3. Path(a, b + 1, 0) \in Paths
    BY <2>2, PathType
  <2>4. (b + 1) * Radix = b * Radix + Radix
    BY <1>2, RadixFacts
  <2>5. a * sq \in Int /\ b * Radix \in Int
    BY <1>2, <1>3, RadixFacts
  <2>6. a * sq + (b + 1) * Radix + 0 = a * sq + b * Radix + c + 1
    BY <1>6, <2>4, <2>5, RadixFacts
  <2> QED BY <1>1, <1>4, <2>1, <2>3, <2>6
<1>7. CASE c # Radix - 1
  <2>1. NextPath(p) = Path(a, b, c + 1)
    BY <1>1, <1>7 DEF NextPath, Path
  <2>2. c + 1 \in Group
    BY <1>2, <1>7, RadixFacts DEF Group
  <2>3. Path(a, b, c + 1) \in Paths
    BY <2>2, PathType
  <2>4. a * sq \in Int /\ b * Radix \in Int
    BY <1>2, <1>3, RadixFacts
  <2>5. a * sq + b * Radix + (c + 1) = a * sq + b * Radix + c + 1
    BY <1>2, <2>4
  <2> QED BY <1>1, <1>4, <2>1, <2>3, <2>5
<1> QED BY <1>5, <1>6, <1>7

\* Wherever there is a file below, decrement reaches the one that increment
\* would come back from.
LEMMA PrevPathFacts ==
  ASSUME NEW p \in Paths, Sequence(p) > 0
  PROVE  PrevPath(p) \in Paths /\ NextPath(PrevPath(p)) = p
<1>1. PICK a \in Nat, b \in Group, c \in Group : p = Path(a, b, c)
  BY DEF Path, Paths
<1>2. b \in 0 .. Radix - 1 /\ c \in 0 .. Radix - 1
  BY DEF Group
<1>3. CASE b = 0 /\ c = 0
  <2>1. a # 0
    <3>1. Sequence(Path(0, 0, 0)) = 0
      BY RadixFacts DEF Sequence, Path
    <3> QED BY <1>1, <1>3, <3>1
  <2>2. a - 1 \in Nat /\ (a - 1) + 1 = a
    BY <2>1
  <2>3. PrevPath(p) = Path(a - 1, Radix - 1, Radix - 1)
    BY <1>1, <1>3 DEF PrevPath, Path
  <2>4. Radix - 1 \in Group
    BY RadixFacts DEF Group
  <2>5. NextPath(Path(a - 1, Radix - 1, Radix - 1)) = Path((a - 1) + 1, 0, 0)
    BY DEF NextPath, Path
  <2> QED BY <1>1, <1>3, <2>2, <2>3, <2>4, <2>5, PathType
<1>4. CASE b # 0 /\ c = 0
  <2>1. PrevPath(p) = Path(a, b - 1, Radix - 1)
    BY <1>1, <1>4 DEF PrevPath, Path
  <2>2. b - 1 \in Group /\ Radix - 1 \in Group /\ (b - 1) + 1 = b
    BY <1>2, <1>4, RadixFacts DEF Group
  <2>3. b - 1 # Radix - 1
    BY <1>2, RadixFacts
  <2>4. NextPath(Path(a, b - 1, Radix - 1)) = Path(a, (b - 1) + 1, 0)
    BY <2>3 DEF NextPath, Path
  <2> QED BY <1>1, <1>4, <2>1, <2>2, <2>4, PathType
<1>5. CASE c # 0
  <2>1. PrevPath(p) = Path(a, b, c - 1)
    BY <1>1, <1>5 DEF PrevPath, Path
  <2>2. c - 1 \in Group /\ (c - 1) + 1 = c
    BY <1>2, <1>5, RadixFacts DEF Group
  <2>3. c - 1 # Radix - 1
    BY <1>2, RadixFacts
  <2>4. NextPath(Path(a, b, c - 1)) = Path(a, b, (c - 1) + 1)
    BY <2>3 DEF NextPath, Path
  <2> QED BY <1>1, <2>1, <2>2, <2>4, PathType
<1> QED BY <1>3, <1>4, <1>5

-----------------------------------------------------------------------------
\* Every string is the one parse or updatePath would make of the numbers.
UrlStrings ==
  remote = Parse(remote.domain, remote.path)

UrlInv == UrlTypeOK /\ UrlStrings

LEMMA ParseType ==
  ASSUME NEW s \in Servers, NEW p \in Paths
  PROVE  Parse(s, p) \in Remotes
BY DEF Parse, Remotes, Paths

LEMMA UpdateFacts ==
  ASSUME UrlTypeOK, NEW p \in Paths
  PROVE  /\ UpdatePath(remote, p) = Parse(remote.domain, p)
         /\ UpdatePath(remote, p) \in Remotes
<1> DEFINE dir == [major |-> p.major, minor |-> p.minor]
<1>1. PICK s \in Servers, q \in Paths, u \in Paths, v \in Paths,
           d \in [major : Nat, minor : Group] :
        remote = [ domain |-> s, path |-> q, subpath |-> u, filespec |-> v,
                   destdir |-> d ]
  BY DEF UrlTypeOK, Remotes
<1>2. UpdatePath(remote, p) =
        [ domain |-> s, path |-> p, subpath |-> p, filespec |-> p, destdir |-> dir ]
  <2> DEFINE fields == {"domain", "path", "subpath", "filespec", "destdir"}
             new == UpdatePath(remote, p)
             rec == [ domain |-> s, path |-> p, subpath |-> p, filespec |-> p,
                      destdir |-> dir ]
  <2>1. new = [ x \in DOMAIN new |-> new[x] ] /\ DOMAIN new = DOMAIN remote
    BY DEF UpdatePath
  <2>2. DOMAIN remote = fields
    BY <1>1
  <2>3. /\ new.domain = s /\ new.path = p /\ new.subpath = p
        /\ new.filespec = p /\ new.destdir = dir
    BY <1>1 DEF UpdatePath
  <2> HIDE DEF new
  <2>4. DOMAIN new = fields
    BY <2>1, <2>2
  <2>5. rec = [ x \in fields |-> rec[x] ]
    OBVIOUS
  <2>6. \A x \in fields : new[x] = rec[x]
    BY <2>3
  <2> HIDE DEF rec
  <2>7. new = [ x \in fields |-> new[x] ]
    BY <2>1, <2>4
  <2>8. new = rec
    BY <2>5, <2>6, <2>7
  <2> QED BY <2>8 DEF rec, new
<1>3. remote.domain = s
  BY <1>1
<1>4. UpdatePath(remote, p) = Parse(remote.domain, p)
  BY <1>2, <1>3 DEF Parse
<1> QED BY <1>3, <1>4, ParseType

LEMMA UrlInductive ==
  /\ UrlInit => UrlInv
  /\ UrlInv /\ [UrlNext]_urlVars => UrlInv'
<1>1. ASSUME UrlInit PROVE UrlInv
  <2>1. PICK s \in Servers, a \in 0 .. MaxMajor, b \in Group, c \in Group :
          remote = Parse(s, Path(a, b, c))
    BY <1>1 DEF UrlInit
  <2>2. Path(a, b, c) \in Paths
    BY PathType
  <2>3. remote.domain = s /\ remote.path = Path(a, b, c)
    BY <2>1 DEF Parse
  <2> QED BY <2>1, <2>2, <2>3, ParseType DEF UrlInv, UrlTypeOK, UrlStrings
<1>2. ASSUME UrlInv, NEW p \in Paths, remote' = UpdatePath(remote, p) PROVE UrlInv'
  <2>1. remote' = Parse(remote.domain, p) /\ remote' \in Remotes
    BY <1>2, UpdateFacts DEF UrlInv
  <2>2. remote'.domain = remote.domain /\ remote'.path = p
    BY <2>1 DEF Parse
  <2> QED BY <2>1, <2>2 DEF UrlInv, UrlTypeOK, UrlStrings
<1>3. ASSUME UrlInv, Increment PROVE UrlInv'
  <2>1. remote.path \in Paths
    BY <1>3 DEF UrlInv, UrlTypeOK, Remotes
  <2> QED BY <1>2, <1>3, <2>1, NextPathFacts DEF Increment
<1>4. ASSUME UrlInv, Decrement PROVE UrlInv'
  <2>1. remote.path \in Paths
    BY <1>4 DEF UrlInv, UrlTypeOK, Remotes
  <2> QED BY <1>2, <1>4, <2>1, PrevPathFacts DEF Decrement
<1>5. ASSUME UrlInv, Rewind PROVE UrlInv'
  <2>1. PICK a \in 0 .. MaxMajor, b \in Group, c \in Group :
          remote' = UpdatePath(remote, Path(a, b, c))
    BY <1>5 DEF Rewind
  <2>2. Path(a, b, c) \in Paths
    BY PathType
  <2> QED BY <1>2, <1>5, <2>1, <2>2
<1>6. ASSUME UrlInv, Rotate PROVE UrlInv'
  <2>1. PICK s \in Servers : remote' = UpdateDomain(remote, s)
    BY <1>6 DEF Rotate
  <2>2. remote.path \in Paths
    BY <1>6 DEF UrlInv, UrlTypeOK, Remotes
  <2>3. remote' = Parse(s, remote.path)
    BY <1>6, <2>1 DEF UrlInv, UrlStrings, UpdateDomain, Parse
  <2>4. remote'.domain = s /\ remote'.path = remote.path
    BY <2>3 DEF Parse
  <2> QED BY <2>2, <2>3, <2>4, ParseType DEF UrlInv, UrlTypeOK, UrlStrings
<1>7. ASSUME UrlInv, UNCHANGED urlVars PROVE UrlInv'
  BY <1>7 DEF UrlInv, UrlTypeOK, UrlStrings, urlVars
<1> QED BY <1>1, <1>3, <1>4, <1>5, <1>6, <1>7 DEF UrlNext

LEMMA UrlInvariance == UrlSpec => []UrlInv
BY UrlInductive, PTL DEF UrlSpec

-----------------------------------------------------------------------------
\* The groups stay groups in every life of the object.
THEOREM UrlTypeCorrect == UrlSpec => []UrlTypeOK
<1>1. UrlInv => UrlTypeOK
  BY DEF UrlInv
<1> QED BY <1>1, UrlInvariance, PTL

\* The copy a task gets by parsing the URL again is the object itself.
THEOREM CopyTheorem == UrlSpec => []CopyIsSame
<1>1. UrlInv => CopyIsSame
  BY DEF UrlInv, UrlStrings, CopyIsSame, Reparse, GetURL, Parse
<1> QED BY <1>1, UrlInvariance, PTL

\* increment() is one file forward, whatever carries it takes.
THEOREM IncrementTheorem == UrlSpec => IncrementIsNextFile
<1>1. ASSUME UrlInv, [UrlNext]_urlVars
      PROVE  [Increment => Sequence(remote'.path) = Sequence(remote.path) + 1]_urlVars
  <2>1. remote.path \in Paths
    BY <1>1 DEF UrlInv, UrlTypeOK, Remotes
  <2>2. ASSUME Increment PROVE remote'.path = NextPath(remote.path)
    <3>1. NextPath(remote.path) \in Paths
      BY <2>1, NextPathFacts
    <3>2. remote' = Parse(remote.domain, NextPath(remote.path))
      BY <1>1, <2>2, <3>1, UpdateFacts DEF Increment, UrlInv
    <3> QED BY <3>2 DEF Parse
  <2> QED BY <2>1, <2>2, NextPathFacts
<1> QED BY <1>1, UrlInvariance, PTL DEF UrlSpec, IncrementIsNextFile

\* decrement() undoes increment() wherever the feed has a file below.
THEOREM DecrementTheorem == UrlSpec => DecrementUndoesIncrement
<1>1. ASSUME UrlInv, [UrlNext]_urlVars
      PROVE  [ Decrement => /\ Sequence(remote'.path) = Sequence(remote.path) - 1
                                /\ NextPath(remote'.path) = remote.path ]_urlVars
  <2> SUFFICES ASSUME Decrement
               PROVE  /\ Sequence(remote'.path) = Sequence(remote.path) - 1
                      /\ NextPath(remote'.path) = remote.path
    OBVIOUS
  <2>1. remote.path \in Paths /\ Sequence(remote.path) > 0
    BY <1>1 DEF UrlInv, UrlTypeOK, Remotes, Decrement
  <2>2. PrevPath(remote.path) \in Paths
    BY <2>1, PrevPathFacts
  <2>3. remote' = Parse(remote.domain, PrevPath(remote.path))
    BY <1>1, <2>2, UpdateFacts DEF Decrement, UrlInv
  <2>4. remote'.path = PrevPath(remote.path)
    BY <2>3 DEF Parse
  <2>5. NextPath(remote'.path) = remote.path
    BY <2>1, <2>4, PrevPathFacts
  <2>6. Sequence(remote.path) = Sequence(remote'.path) + 1
    BY <2>2, <2>4, <2>5, NextPathFacts
  <2>7. Sequence(remote'.path) \in Int
    <3>1. /\ remote'.path.major \in Int /\ remote'.path.minor \in Int
          /\ remote'.path.index \in Int
      BY <2>2, <2>4, RadixFacts DEF Paths, Group
    <3> QED BY <3>1, RadixFacts DEF Sequence
  <2> QED BY <2>5, <2>6, <2>7
<1> QED BY <1>1, UrlInvariance, PTL DEF UrlSpec, DecrementUndoesIncrement

-----------------------------------------------------------------------------
(* The cache: what holds of the workers and of the disk.                   *)

Busy(w) == worker[w].at # "idle"

\* Two workers are at work on one file only if it is excused.
Alone ==
  \A v, w \in Workers :
    v # w /\ Busy(v) /\ Busy(w) /\ worker[v].file = worker[w].file =>
      worker[w].file \in excused

\* What a worker alone on its file holds, and finds on the disk.
SoundAt(w) ==
  /\ worker[w].at # "vanished"
  /\ worker[w].at = "cached" => disk[worker[w].file] = "whole"
  /\ worker[w].at = "sized" => disk[worker[w].file] = "whole" /\ worker[w].size = "whole"
  /\ worker[w].at \in {"fetched", "writing", "parsing"} => worker[w].data = "whole"
  /\ worker[w].at = "writing" => worker[w].linked /\ disk[worker[w].file] = "none"

Sound == \A w \in Workers : Busy(w) /\ worker[w].file \notin excused => SoundAt(w)

\* A file that is not excused is whole, or being written.
DiskSound ==
  \A f \in Files : f \notin excused =>
    \/ disk[f] \in {"absent", "whole"}
    \/ \E w \in Workers : worker[w].at = "writing" /\ worker[w].file = f

MissedInv == TypeOK /\ Alone /\ Sound /\ DiskSound /\ missed \subseteq excused

\* A worker that will write the file again, or remove it.
Mends(w, f) ==
  /\ worker[w].file = f
  /\ worker[w].linked \/ (worker[w].at = "parsing" /\ worker[w].data # "whole")

Mended(f) ==
  disk[f] \in {"absent", "whole"} \/ f \in damaged \/ \E w \in Workers : Mends(w, f)

\* Where files are removed that cannot be read, one that is bad has a worker that
\* mends it.
BadInv == TypeOK /\ (Removes => \A f \in Files : Mended(f))

Task == [at : Places, file : Files, size : Bytes, data : Bytes, linked : BOOLEAN]

-----------------------------------------------------------------------------
(* What a step of one worker does to the workers.                          *)

\* It keeps its file, and the others keep all.
Moves(w, at, size, data, linked) ==
  /\ worker' \in [Workers -> Task]
  /\ worker'[w] = [at |-> at, file |-> worker[w].file, size |-> size, data |-> data,
                   linked |-> linked]
  /\ \A v \in Workers : v # w => worker'[v] = worker[v]

\* It ends; workers that have its file open lose the name of it.
EndsUnlinking(w) ==
  /\ worker' \in [Workers -> Task]
  /\ worker'[w] = Idle
  /\ \A v \in Workers : v # w =>
       \/ worker[v].file # worker[w].file /\ worker'[v] = worker[v]
       \/ /\ worker[v].file = worker[w].file
          /\ worker'[v] = [worker[v] EXCEPT !.linked = FALSE]

Ends(w) ==
  /\ worker' \in [Workers -> Task]
  /\ worker'[w] = Idle
  /\ \A v \in Workers : v # w => worker'[v] = worker[v]

LEMMA IdleTask == Idle \in Task /\ Idle.at = "idle" /\ Idle.linked = FALSE
BY BoundsAssumption DEF Idle, Task, Places, Bytes, Files

LEMMA TypedTask == TypeOK => worker \in [Workers -> Task]
BY DEF TypeOK, Task

LEMMA TaskFields ==
  \A t \in Task : t = [at |-> t.at, file |-> t.file, size |-> t.size, data |-> t.data,
                       linked |-> t.linked]
BY DEF Task

LEMMA Posted ==
  ASSUME NEW f \in Files
  PROVE  LET task == [Idle EXCEPT !.at = "posted", !.file = f]
         IN  /\ task \in Task /\ ~task.linked
             /\ task.at = "posted" /\ task.file = f
<1> "none" \in Bytes /\ "posted" \in Places
  BY DEF Bytes, Places
<1> QED
  BY DEF Idle, Task

LEMMA CheckMoves ==
  ASSUME TypeOK, NEW w \in Workers, CheckCache(w)
  PROVE  \E at \in {"cached", "fetching"} :
           /\ at = "cached" <=> disk[worker[w].file] # "absent"
           /\ Moves(w, at, worker[w].size, worker[w].data, worker[w].linked)
<1> DEFINE at == IF disk[worker[w].file] # "absent" THEN "cached" ELSE "fetching"
<1>1. at \in {"cached", "fetching"} /\ at \in Places
  BY DEF Places
<1>2. worker' = [worker EXCEPT ![w].at = at]
  BY DEF CheckCache, Goto
<1>3. at = "cached" <=> disk[worker[w].file] # "absent"
  OBVIOUS
<1> HIDE DEF at
<1>4. Moves(w, at, worker[w].size, worker[w].data, worker[w].linked)
  BY <1>1, <1>2, TypedTask DEF Moves, Task
<1> QED
  BY <1>1, <1>3, <1>4

LEMMA SizeMoves ==
  ASSUME TypeOK, NEW w \in Workers, FileSize(w)
  PROVE  \/ /\ disk[worker[w].file] = "absent"
            /\ Moves(w, "vanished", "none", worker[w].data, worker[w].linked)
         \/ /\ disk[worker[w].file] # "absent"
            /\ Moves(w, "sized", disk[worker[w].file], worker[w].data, worker[w].linked)
<1> DEFINE now == disk[worker[w].file]
           at == IF now = "absent" THEN "vanished" ELSE "sized"
           size == IF now = "absent" THEN "none" ELSE now
<1>1. at \in Places /\ size \in Bytes
  BY TypedTask DEF Places, Bytes, TypeOK, Task
<1>2. worker' = [worker EXCEPT ![w].at = at, ![w].size = size]
  BY DEF FileSize
<1>3. Moves(w, at, size, worker[w].data, worker[w].linked)
  <2> HIDE DEF at, size
  <2> QED
    BY <1>1, <1>2, TypedTask DEF Moves, Task
<1> QED
  BY <1>3

LEMMA ReadMoves ==
  ASSUME TypeOK, NEW w \in Workers, ReadFile(w)
  PROVE  \E data \in Bytes :
           /\ data = "whole" => worker[w].size = "whole" /\ disk[worker[w].file] = "whole"
           /\ worker[w].size = "whole" /\ disk[worker[w].file] = "whole" => data = "whole"
           /\ Moves(w, "parsing", worker[w].size, data, worker[w].linked)
<1> DEFINE size == worker[w].size
           data == IF disk[worker[w].file] = size \/ size = "none" THEN size ELSE "cut"
<1>1. data \in Bytes /\ "parsing" \in Places
  BY TypedTask DEF Places, Bytes, Task
<1>2. worker' = [worker EXCEPT ![w].at = "parsing", ![w].data = data]
  BY DEF ReadFile
<1>3. Moves(w, "parsing", size, data, worker[w].linked)
  <2> HIDE DEF data
  <2> QED
    BY <1>1, <1>2, TypedTask DEF Moves, Task
<1>4. /\ data = "whole" => size = "whole" /\ disk[worker[w].file] = "whole"
      /\ size = "whole" /\ disk[worker[w].file] = "whole" => data = "whole"
  OBVIOUS
<1> QED
  BY <1>1, <1>3, <1>4

LEMMA FetchMoves ==
  ASSUME TypeOK, NEW w \in Workers, Fetch(w)
  PROVE  \/ Ends(w) /\ excused' = excused
         \/ \E answer \in {"whole", "page", "none"} :
              /\ Moves(w, IF answer = "none" THEN "parsing" ELSE "fetched",
                       worker[w].size, answer, worker[w].linked)
              /\ excused' = IF answer = "whole" THEN excused
                            ELSE excused \cup {worker[w].file}
<1>1. CASE worker' = [worker EXCEPT ![w] = Idle] /\ UNCHANGED excused
  BY <1>1, IdleTask, TypedTask DEF Ends
<1>2. ASSUME NEW answer \in {"whole", "page", "none"},
             worker' = [worker EXCEPT ![w].data = answer,
               ![w].at = IF answer = "none" THEN "parsing" ELSE "fetched"]
      PROVE  Moves(w, IF answer = "none" THEN "parsing" ELSE "fetched",
                   worker[w].size, answer, worker[w].linked)
  <2> DEFINE at == IF answer = "none" THEN "parsing" ELSE "fetched"
  <2>1. at \in Places /\ answer \in Bytes
    BY DEF Places, Bytes
  <2>2. worker' = [worker EXCEPT ![w].data = answer, ![w].at = at]
    BY <1>2
  <2> HIDE DEF at
  <2>3. Moves(w, at, worker[w].size, answer, worker[w].linked)
    BY <2>1, <2>2, TypedTask DEF Moves, Task
  <2> QED
    BY <2>3 DEF at
<1> QED
  BY <1>1, <1>2 DEF Fetch

LEMMA OpenMoves ==
  ASSUME TypeOK, NEW w \in Workers, OpenFile(w)
  PROVE  Moves(w, "writing", worker[w].size, worker[w].data, TRUE)
<1>1. "writing" \in Places
  BY DEF Places
<1> QED
  BY <1>1, TypedTask DEF OpenFile, Moves, Task

LEMMA WriteMoves ==
  ASSUME TypeOK, NEW w \in Workers, WriteFile(w)
  PROVE  Moves(w, "parsing", worker[w].size, worker[w].data, FALSE)
<1>1. "parsing" \in Places
  BY DEF Places
<1>2. worker' = [worker EXCEPT ![w].at = "parsing", ![w].linked = FALSE]
  BY DEF WriteFile
<1> QED
  BY <1>1, <1>2, TypedTask DEF Moves, Task

LEMMA WriteOnDisk ==
  ASSUME TypeOK, NEW w \in Workers, WriteFile(w)
  PROVE  /\ disk' \in [Files -> Bytes \cup {"absent"}]
         /\ \A f \in Files : f # worker[w].file => disk'[f] = disk[f]
         /\ \A f \in Files : disk[f] # "absent" => disk'[f] # "absent"
         /\ worker[w].linked /\ worker[w].data = "whole" =>
              disk'[worker[w].file] = "whole" \/ worker[w].file \in damaged'
         /\ ~worker[w].linked => disk' = disk
<1> DEFINE f == worker[w].file
           new == Over(worker[w].data, disk[f])
<1>1. f \in Files /\ new \in Bytes /\ "cut" \in Bytes
  BY TypedTask DEF Over, Bytes, Task
<1>2. worker[w].data = "whole" => new = "whole"
  BY DEF Over
<1>3. new # "absent"
  BY <1>1 DEF Bytes
<1>4. \/ disk' = [disk EXCEPT ![f] = new] /\ worker[w].linked
      \/ disk' = disk /\ ~worker[w].linked
      \/ disk' = [disk EXCEPT ![f] = "cut"] /\ f \in damaged' /\ worker[w].linked
  BY DEF WriteFile
<1> HIDE DEF new
<1> QED
  BY <1>1, <1>2, <1>3, <1>4 DEF TypeOK

LEMMA UnlinkingEnds ==
  ASSUME TypeOK, NEW w \in Workers,
         worker' = [Unlinked(worker[w].file) EXCEPT ![w] = Idle]
  PROVE  EndsUnlinking(w)
<1> DEFINE f == worker[w].file
<1>1. ASSUME NEW t \in Task
      PROVE  [t EXCEPT !.linked = FALSE] \in Task
  BY DEF Task
<1>2. ASSUME NEW v \in Workers
      PROVE  Unlinked(f)[v] =
               IF worker[v].file = f THEN [worker[v] EXCEPT !.linked = FALSE] ELSE worker[v]
  BY DEF Unlinked
<1>3. Unlinked(f) \in [Workers -> Task]
  BY <1>1, TypedTask DEF Unlinked
<1> HIDE DEF f
<1>4. worker' \in [Workers -> Task] /\ worker'[w] = Idle
  BY <1>3, IdleTask DEF f
<1>5. ASSUME NEW v \in Workers, v # w
      PROVE  worker'[v] =
               IF worker[v].file = f THEN [worker[v] EXCEPT !.linked = FALSE] ELSE worker[v]
  BY <1>2, <1>3, <1>5 DEF f
<1> QED
  BY <1>4, <1>5 DEF EndsUnlinking, f

LEMMA RemoveEnds ==
  ASSUME TypeOK, NEW w \in Workers, RemoveLocal(w)
  PROVE  EndsUnlinking(w)
BY UnlinkingEnds DEF RemoveLocal

LEMMA ParseEnds ==
  ASSUME TypeOK, NEW w \in Workers, ProcessData(w)
  PROVE  IF worker[w].data # "whole" /\ Removes
           THEN EndsUnlinking(w) /\ disk' = [disk EXCEPT ![worker[w].file] = "absent"]
           ELSE Ends(w) /\ disk' = disk
<1>1. CASE worker[w].data # "whole" /\ Removes
  BY <1>1, UnlinkingEnds DEF ProcessData
<1>2. CASE ~(worker[w].data # "whole" /\ Removes)
  BY <1>2, IdleTask, TypedTask DEF ProcessData, Ends
<1> QED
  BY <1>1, <1>2

\* After a crash a file nobody was at work on is what it was, and what is bad of the
\* others is known to be.
LEMMA CrashLeaves ==
  ASSUME TypeOK, Crash, NEW f \in Files
  PROVE  /\ \/ \E w \in Workers : Busy(w) /\ worker[w].file = f
            \/ disk'[f] = disk[f]
         /\ (\E w \in Workers : Busy(w) /\ worker[w].file = f) =>
              \/ disk'[f] \in {"absent", "whole"}
              \/ f \in damaged' /\ f \in excused'
         /\ damaged \subseteq damaged' /\ excused \subseteq excused'
BY DEF Crash, Busy

-----------------------------------------------------------------------------
(* Type correctness.                                                       *)

LEMMA InitType == Init => TypeOK
BY IdleTask DEF Init, TypeOK, Task

LEMMA StepType == TypeOK /\ [Next]_vars => TypeOK'
<1> SUFFICES ASSUME TypeOK, [Next]_vars PROVE TypeOK'
  OBVIOUS
<1> DEFINE LinkedOK(v) ==
      worker[v].linked => worker[v].at = "writing" /\ disk[worker[v].file] # "absent"
           Rest == /\ disk \in [Files -> Bytes \cup {"absent"}]
                   /\ missed \subseteq Files /\ damaged \subseteq excused
                   /\ excused \subseteq Files
<1>0. /\ worker \in [Workers -> Task] /\ Rest
      /\ \A v \in Workers : LinkedOK(v)
  BY DEF TypeOK, Task
<1>a. ASSUME (worker \in [Workers -> Task])', Rest', \A v \in Workers : LinkedOK(v)'
      PROVE  TypeOK'
  BY <1>a DEF TypeOK, Task
<1>b. ASSUME NEW w \in Workers, NEW at, NEW size, NEW data, NEW linked, LinkedOK(w)',
             Moves(w, at, size, data, linked),
             \A f \in Files : disk[f] # "absent" => disk'[f] # "absent"
      PROVE  \A v \in Workers : LinkedOK(v)'
  BY <1>0, <1>b DEF Moves, Task
<1>c. ASSUME NEW w \in Workers, EndsUnlinking(w),
             disk' = [disk EXCEPT ![worker[w].file] = "absent"]
      PROVE  \A v \in Workers : LinkedOK(v)'
  <2>1. ASSUME NEW v \in Workers, v # w, worker[v].file = worker[w].file
        PROVE  ~worker'[v].linked
    BY <1>0, <1>c, <2>1 DEF EndsUnlinking, Task
  <2> QED
    BY <1>0, <1>c, <2>1, IdleTask DEF EndsUnlinking, Task
<1>1. CASE BeginRound
  <2> PICK jobs \in [Workers -> Files], busy \in SUBSET Workers :
         /\ worker' = [w \in Workers |->
              IF w \in busy THEN [Idle EXCEPT !.at = "posted", !.file = jobs[w]] ELSE Idle]
         /\ excused' = excused \cup
              {f \in Files : \E v, w \in busy : v # w /\ jobs[v] = f /\ jobs[w] = f}
    BY <1>1 DEF BeginRound
  <2>1. \A v \in Workers : worker'[v] \in Task /\ ~worker'[v].linked
    BY Posted, IdleTask
  <2>2. worker' \in [Workers -> Task]
    BY <2>1
  <2> QED
    BY <1>0, <1>1, <1>a, <2>1, <2>2 DEF BeginRound
<1>2. ASSUME NEW w \in Workers, CheckCache(w)
      PROVE  TypeOK'
  <2> PICK at \in {"cached", "fetching"} :
         Moves(w, at, worker[w].size, worker[w].data, worker[w].linked)
    BY <1>2, CheckMoves
  <2>1. disk' = disk /\ Rest' /\ worker[w].at = "posted"
    BY <1>0, <1>2 DEF CheckCache
  <2>2. LinkedOK(w)'
    BY <1>0, <2>1 DEF Moves
  <2> QED
    BY <1>a, <1>b, <2>1, <2>2 DEF Moves
<1>3. ASSUME NEW w \in Workers, FileSize(w)
      PROVE  TypeOK'
  <2> PICK at, size : Moves(w, at, size, worker[w].data, worker[w].linked)
    BY <1>3, SizeMoves
  <2>1. disk' = disk /\ Rest' /\ worker[w].at = "cached"
    BY <1>0, <1>3 DEF FileSize
  <2>2. LinkedOK(w)'
    BY <1>0, <2>1 DEF Moves
  <2> QED
    BY <1>a, <1>b, <2>1, <2>2 DEF Moves
<1>4. ASSUME NEW w \in Workers, RemoveLocal(w)
      PROVE  TypeOK'
  <2>1. EndsUnlinking(w) /\ disk' = [disk EXCEPT ![worker[w].file] = "absent"]
    BY <1>4, RemoveEnds DEF RemoveLocal
  <2>2. Rest'
    BY <1>0, <1>4, <2>1 DEF RemoveLocal
  <2> QED
    BY <1>a, <1>c, <2>1, <2>2 DEF EndsUnlinking
<1>5. ASSUME NEW w \in Workers, ReadFile(w)
      PROVE  TypeOK'
  <2> PICK data : Moves(w, "parsing", worker[w].size, data, worker[w].linked)
    BY <1>5, ReadMoves
  <2>1. disk' = disk /\ Rest' /\ worker[w].at = "sized"
    BY <1>0, <1>5 DEF ReadFile
  <2>2. LinkedOK(w)'
    BY <1>0, <2>1 DEF Moves
  <2> QED
    BY <1>a, <1>b, <2>1, <2>2 DEF Moves
<1>6. ASSUME NEW w \in Workers, Fetch(w)
      PROVE  TypeOK'
  <2>1. disk' = disk /\ Rest' /\ worker[w].at = "fetching"
    <3> worker[w].file \in Files
      BY <1>0 DEF Task
    <3> QED
      BY <1>0, <1>6 DEF Fetch
  <2>2. CASE Ends(w)
    BY <1>0, <1>a, <2>1, <2>2, IdleTask DEF Ends
  <2>3. ASSUME NEW at, NEW data, Moves(w, at, worker[w].size, data, worker[w].linked)
        PROVE  TypeOK'
    <3>1. LinkedOK(w)'
      BY <1>0, <2>1, <2>3 DEF Moves
    <3> QED
      BY <1>a, <1>b, <2>1, <2>3, <3>1 DEF Moves
  <2> QED
    BY <1>6, <2>2, <2>3, FetchMoves
<1>7. ASSUME NEW w \in Workers, OpenFile(w)
      PROVE  TypeOK'
  <2>1. Moves(w, "writing", worker[w].size, worker[w].data, TRUE)
    BY <1>7, OpenMoves
  <2>2. disk' = [disk EXCEPT ![worker[w].file] = "none"] /\ "none" \in Bytes
    BY <1>7 DEF OpenFile, Bytes
  <2>3. worker[w].file \in Files /\ Rest'
    BY <1>0, <1>7, <2>2 DEF OpenFile, Task
  <2>4. LinkedOK(w)' /\ \A f \in Files : disk[f] # "absent" => disk'[f] # "absent"
    BY <1>0, <2>1, <2>2, <2>3 DEF Moves
  <2> QED
    BY <1>a, <1>b, <2>1, <2>3, <2>4 DEF Moves
<1>8. ASSUME NEW w \in Workers, WriteFile(w)
      PROVE  TypeOK'
  <2>1. Moves(w, "parsing", worker[w].size, worker[w].data, FALSE)
    BY <1>8, WriteMoves
  <2>2. Rest' /\ \A f \in Files : disk[f] # "absent" => disk'[f] # "absent"
    <3> worker[w].file \in Files
      BY <1>0 DEF Task
    <3> QED
      BY <1>0, <1>8, WriteOnDisk DEF WriteFile
  <2>3. LinkedOK(w)'
    BY <2>1 DEF Moves
  <2> QED
    BY <1>a, <1>b, <2>1, <2>2, <2>3 DEF Moves
<1>9. ASSUME NEW w \in Workers, ProcessData(w)
      PROVE  TypeOK'
  <2>1. missed' \subseteq Files /\ damaged' = damaged /\ excused' = excused
    BY <1>0, <1>9 DEF ProcessData, Task
  <2>2. CASE EndsUnlinking(w) /\ disk' = [disk EXCEPT ![worker[w].file] = "absent"]
    <3>1. Rest'
      BY <1>0, <2>1, <2>2
    <3> QED
      BY <1>a, <1>c, <2>2, <3>1 DEF EndsUnlinking
  <2>3. CASE Ends(w) /\ disk' = disk
    BY <1>0, <1>a, <2>1, <2>3, IdleTask DEF Ends
  <2> QED
    BY <1>9, <2>2, <2>3, ParseEnds
<1>10. CASE Crash
  <2>1. worker' = [w \in Workers |-> Idle]
    BY <1>10 DEF Crash
  <2>2. disk' \in [Files -> Bytes \cup {"absent"}]
    BY <1>10 DEF Crash, TypeOK, Bytes
  <2>3. damaged' \subseteq excused' /\ excused' \subseteq Files
    BY <1>10 DEF Crash, TypeOK
  <2> QED
    BY <1>0, <1>10, <1>a, <2>1, <2>2, <2>3, IdleTask DEF Crash
<1>11. CASE UNCHANGED vars
  BY <1>11 DEF vars, TypeOK
<1> QED
  BY <1>1, <1>2, <1>3, <1>4, <1>5, <1>6, <1>7, <1>8, <1>9, <1>10, <1>11 DEF Next

\* The state keeps to its type, and a file open by its name is on the disk.
THEOREM TypeCorrect == Spec => []TypeOK
<1> QED
  BY InitType, StepType, PTL DEF Spec

-----------------------------------------------------------------------------
(* What is missed has a cause.                                             *)

\* The other workers keep what they have, but a file open by its name.
OthersKeep(w) ==
  \A v \in Workers : v # w =>
    \/ worker'[v] = worker[v]
    \/ /\ worker[v].file = worker[w].file
       /\ worker'[v] = [worker[v] EXCEPT !.linked = FALSE]

LEMMA Keeping ==
  ASSUME NEW w \in Workers
  PROVE  /\ \A at, size, data, linked : Moves(w, at, size, data, linked) => OthersKeep(w)
         /\ Ends(w) \/ EndsUnlinking(w) => OthersKeep(w)
BY DEF Moves, Ends, EndsUnlinking, OthersKeep

\* A worker that is alone on its file finds it whole, or absent, or writes it itself.
LEMMA Held ==
  ASSUME MissedInv, NEW w \in Workers, Busy(w), worker[w].file \notin excused
  PROVE  /\ SoundAt(w)
         /\ worker[w].at # "writing" => disk[worker[w].file] \in {"absent", "whole"}
<1>1. SoundAt(w)
  BY DEF MissedInv, Sound
<1>2. ASSUME worker[w].at # "writing"
      PROVE  disk[worker[w].file] \in {"absent", "whole"}
  <2>1. worker[w].file \in Files
    BY TypedTask DEF MissedInv, Task
  <2>2. ASSUME NEW v \in Workers, worker[v].at = "writing", worker[v].file = worker[w].file
        PROVE  FALSE
    BY <1>2, <2>2 DEF MissedInv, Alone, Busy
  <2> QED
    BY <2>1, <2>2 DEF MissedInv, DiskSound
<1> QED
  BY <1>1, <1>2

\* A step of one worker keeps the invariant if it leaves its own file in order.
LEMMA OneStep ==
  ASSUME MissedInv, TypeOK', NEW w \in Workers, Busy(w), OthersKeep(w),
         excused \subseteq excused', missed' \subseteq excused',
         \A f \in Files : f # worker[w].file => disk'[f] = disk[f],
         Busy(w)' => worker'[w].file = worker[w].file,
         worker[w].file \notin excused' =>
           /\ Busy(w)' => SoundAt(w)'
           /\ \/ disk'[worker[w].file] \in {"absent", "whole"}
              \/ Busy(w)' /\ worker'[w].at = "writing"
  PROVE  MissedInv'
<1> DEFINE f == worker[w].file
<1>0. worker \in [Workers -> Task] /\ worker' \in [Workers -> Task] /\ f \in Files
  BY TypedTask DEF MissedInv, TypeOK, Task
<1>1. ASSUME NEW v \in Workers, v # w
      PROVE  /\ Busy(v)' <=> Busy(v)
             /\ worker'[v].at = worker[v].at /\ worker'[v].file = worker[v].file
             /\ Busy(v) /\ worker[v].file \notin excused' =>
                  worker'[v] = worker[v] /\ worker[v].file # f
  <2>1. \A t \in Task : LET u == [t EXCEPT !.linked = FALSE]
                       IN  u.at = t.at /\ u.file = t.file
    BY DEF Task
  <2>2. worker'[v].at = worker[v].at /\ worker'[v].file = worker[v].file
    BY <1>0, <1>1, <2>1 DEF OthersKeep
  <2>3. ASSUME Busy(v), worker[v].file \notin excused'
        PROVE  worker[v].file # f
    BY <1>1, <2>3 DEF MissedInv, Alone
  <2> QED
    BY <1>1, <2>2, <2>3 DEF OthersKeep, Busy
<1>2. Alone'
  <2> SUFFICES ASSUME NEW u \in Workers, NEW v \in Workers, u # v, Busy(u)', Busy(v)',
                      worker'[u].file = worker'[v].file
               PROVE  worker'[v].file \in excused'
    BY DEF Alone
  <2>1. /\ Busy(u) /\ worker'[u].file = worker[u].file
        /\ Busy(v) /\ worker'[v].file = worker[v].file
    BY <1>1
  <2> QED
    BY <2>1 DEF MissedInv, Alone
<1>3. Sound'
  <2> SUFFICES ASSUME NEW v \in Workers, Busy(v)', worker'[v].file \notin excused'
               PROVE  SoundAt(v)'
    BY DEF Sound
  <2>1. CASE v = w
    BY <2>1
  <2>2. CASE v # w
    <3>1. /\ worker'[v] = worker[v] /\ worker[v].file # f /\ Busy(v)
          /\ worker[v].file \notin excused /\ worker[v].file \in Files
      BY <1>0, <1>1, <2>2 DEF Task
    <3>2. SoundAt(v) /\ disk'[worker[v].file] = disk[worker[v].file]
      BY <3>1 DEF MissedInv, Sound
    <3> QED
      BY <3>1, <3>2 DEF SoundAt
  <2> QED
    BY <2>1, <2>2
<1>4. DiskSound'
  <2> SUFFICES ASSUME NEW g \in Files, g \notin excused', disk'[g] \notin {"absent", "whole"}
               PROVE  \E v \in Workers : worker'[v].at = "writing" /\ worker'[v].file = g
    BY DEF DiskSound
  <2>1. CASE g = f
    BY <2>1
  <2>2. CASE g # f
    <3>1. PICK v \in Workers : worker[v].at = "writing" /\ worker[v].file = g
      BY <2>2 DEF MissedInv, DiskSound
    <3> QED
      BY <1>1, <2>2, <3>1
  <2> QED
    BY <2>1, <2>2
<1> QED
  BY <1>2, <1>3, <1>4 DEF MissedInv

LEMMA InitMissed == Init => MissedInv
<1> SUFFICES ASSUME Init PROVE MissedInv
  OBVIOUS
<1>1. Alone /\ Sound
  BY IdleTask DEF Init, Alone, Sound, Busy
<1>2. DiskSound /\ missed \subseteq excused
  BY DEF Init, DiskSound
<1> QED
  BY <1>1, <1>2, InitType DEF MissedInv

LEMMA StepMissed == MissedInv /\ [Next]_vars => MissedInv'
<1> SUFFICES ASSUME MissedInv, [Next]_vars PROVE MissedInv'
  OBVIOUS
<1>0. TypeOK /\ TypeOK' /\ missed \subseteq excused
  BY StepType DEF MissedInv
<1>a. \A w \in Workers : worker[w].file \in Files
  BY <1>0, TypedTask DEF Task
<1>1. CASE BeginRound
  <2> PICK jobs \in [Workers -> Files], busy \in SUBSET Workers :
         /\ worker' = [w \in Workers |->
              IF w \in busy THEN [Idle EXCEPT !.at = "posted", !.file = jobs[w]] ELSE Idle]
         /\ excused' = excused \cup
              {f \in Files : \E v, w \in busy : v # w /\ jobs[v] = f /\ jobs[w] = f}
    BY <1>1 DEF BeginRound
  <2>1. \A w \in Workers :
          Busy(w)' => w \in busy /\ worker'[w].at = "posted" /\ worker'[w].file = jobs[w]
    BY Posted, IdleTask DEF Busy
  <2>2. Alone'
    <3> SUFFICES ASSUME NEW u \in Workers, NEW v \in Workers, u # v, Busy(u)', Busy(v)',
                        worker'[u].file = worker'[v].file
                 PROVE  worker'[v].file \in excused'
      BY DEF Alone
    <3>1. u \in busy /\ v \in busy /\ jobs[u] = jobs[v] /\ worker'[v].file = jobs[v]
      BY <2>1
    <3>2. jobs[v] \in {f \in Files : \E a, b \in busy : a # b /\ jobs[a] = f /\ jobs[b] = f}
      BY <3>1
    <3>3. jobs[v] \in excused'
      BY <3>2
    <3> QED
      BY <3>1, <3>3
  <2>3. Sound'
    BY <2>1 DEF Sound, SoundAt
  <2>4. DiskSound'
    BY <1>1 DEF BeginRound, Quiet, MissedInv, DiskSound
  <2> QED
    BY <1>0, <1>1, <2>2, <2>3, <2>4 DEF MissedInv, BeginRound
<1>2. ASSUME NEW w \in Workers, CheckCache(w)
      PROVE  MissedInv'
  <2> PICK at \in {"cached", "fetching"} :
         /\ at = "cached" <=> disk[worker[w].file] # "absent"
         /\ Moves(w, at, worker[w].size, worker[w].data, worker[w].linked)
    BY <1>0, <1>2, CheckMoves
  <2>1. Busy(w) /\ worker[w].at = "posted" /\ disk' = disk /\ excused' = excused
        /\ missed' = missed
    BY <1>2 DEF CheckCache, Busy
  <2>2. worker[w].file \notin excused =>
          disk[worker[w].file] \in {"absent", "whole"} /\ SoundAt(w)'
    BY <2>1, Held DEF SoundAt, Moves
  <2>3. worker'[w].file = worker[w].file
    BY DEF Moves
  <2> QED
    BY <1>0, <2>1, <2>2, <2>3, OneStep, Keeping
<1>3. ASSUME NEW w \in Workers, FileSize(w)
      PROVE  MissedInv'
  <2>1. Busy(w) /\ worker[w].at = "cached" /\ disk' = disk /\ excused' = excused
        /\ missed' = missed
    BY <1>3 DEF FileSize, Busy
  <2>a. PICK at \in {"vanished", "sized"}, size \in Bytes :
          /\ disk[worker[w].file] = "whole" => at = "sized" /\ size = "whole"
          /\ Moves(w, at, size, worker[w].data, worker[w].linked)
    <3>1. disk[worker[w].file] \in Bytes \cup {"absent"} /\ "none" \in Bytes
      BY <1>0, <1>a DEF TypeOK, Bytes
    <3>2. CASE disk[worker[w].file] = "absent"
      BY <1>0, <1>3, <3>1, <3>2, SizeMoves
    <3>3. CASE disk[worker[w].file] # "absent"
      BY <1>0, <1>3, <3>1, <3>3, SizeMoves
    <3> QED
      BY <3>2, <3>3
  <2>b. worker[w].file \notin excused => disk[worker[w].file] = "whole"
    BY <2>1, Held DEF SoundAt
  <2>2. worker[w].file \notin excused =>
          disk[worker[w].file] \in {"absent", "whole"} /\ SoundAt(w)'
    BY <2>1, <2>a, <2>b DEF SoundAt, Moves
  <2>3. worker'[w].file = worker[w].file /\ OthersKeep(w)
    BY <2>a, Keeping DEF Moves
  <2> QED
    BY <1>0, <2>1, <2>2, <2>3, OneStep
<1>4. ASSUME NEW w \in Workers, RemoveLocal(w)
      PROVE  MissedInv'
  <2>1. Busy(w) /\ worker[w].at = "vanished" /\ excused' = excused /\ missed' = missed
        /\ disk' = [disk EXCEPT ![worker[w].file] = "absent"]
    BY <1>4 DEF RemoveLocal, Busy
  <2>2. worker[w].file \in excused
    BY <2>1, Held DEF SoundAt
  <2>3. ~Busy(w)' /\ OthersKeep(w)
    BY <1>0, <1>4, RemoveEnds, Keeping, IdleTask DEF EndsUnlinking, Busy
  <2> QED
    BY <1>0, <2>1, <2>2, <2>3, OneStep DEF TypeOK
<1>5. ASSUME NEW w \in Workers, ReadFile(w)
      PROVE  MissedInv'
  <2> PICK data \in Bytes :
         /\ worker[w].size = "whole" /\ disk[worker[w].file] = "whole" => data = "whole"
         /\ Moves(w, "parsing", worker[w].size, data, worker[w].linked)
    BY <1>0, <1>5, ReadMoves
  <2>1. Busy(w) /\ worker[w].at = "sized" /\ disk' = disk /\ excused' = excused
        /\ missed' = missed
    BY <1>5 DEF ReadFile, Busy
  <2>2. worker[w].file \notin excused =>
          disk[worker[w].file] \in {"absent", "whole"} /\ SoundAt(w)'
    BY <2>1, Held DEF SoundAt, Moves
  <2>3. worker'[w].file = worker[w].file /\ OthersKeep(w)
    BY Keeping DEF Moves
  <2> QED
    BY <1>0, <2>1, <2>2, <2>3, OneStep
<1>6. ASSUME NEW w \in Workers, Fetch(w)
      PROVE  MissedInv'
  <2>1. Busy(w) /\ worker[w].at = "fetching" /\ disk' = disk /\ missed' = missed
        /\ excused \subseteq excused'
    BY <1>6 DEF Fetch, Busy
  <2>2. worker[w].file \notin excused' => disk[worker[w].file] \in {"absent", "whole"}
    BY <2>1, Held
  <2>3. CASE Ends(w)
    <3>1. ~Busy(w)' /\ OthersKeep(w)
      BY <2>3, Keeping, IdleTask DEF Ends, Busy
    <3> QED
      BY <1>0, <2>1, <2>2, <3>1, OneStep
  <2>4. ASSUME NEW answer \in {"whole", "page", "none"},
               Moves(w, IF answer = "none" THEN "parsing" ELSE "fetched",
                     worker[w].size, answer, worker[w].linked),
               excused' = IF answer = "whole" THEN excused
                          ELSE excused \cup {worker[w].file}
        PROVE  MissedInv'
    <3>1. worker'[w].file = worker[w].file /\ OthersKeep(w)
      BY <2>4, Keeping DEF Moves
    <3>2. worker[w].file \notin excused' => SoundAt(w)'
      BY <2>4 DEF SoundAt, Moves
    <3> QED
      BY <1>0, <2>1, <2>2, <3>1, <3>2, OneStep
  <2> QED
    BY <1>0, <1>6, <2>3, <2>4, FetchMoves
<1>7. ASSUME NEW w \in Workers, OpenFile(w)
      PROVE  MissedInv'
  <2>1. Moves(w, "writing", worker[w].size, worker[w].data, TRUE)
    BY <1>0, <1>7, OpenMoves
  <2>2. Busy(w) /\ worker[w].at = "fetched" /\ excused' = excused /\ missed' = missed
        /\ disk' = [disk EXCEPT ![worker[w].file] = "none"]
    BY <1>7 DEF OpenFile, Busy
  <2>3. disk'[worker[w].file] = "none"
    BY <1>0, <1>a, <2>2 DEF TypeOK
  <2>4. worker'[w].file = worker[w].file /\ OthersKeep(w)
    BY <2>1, Keeping DEF Moves
  <2>5. worker[w].file \notin excused => SoundAt(w)' /\ Busy(w)' /\ worker'[w].at = "writing"
    BY <2>1, <2>2, <2>3, Held DEF SoundAt, Moves, Busy
  <2> QED
    BY <1>0, <2>2, <2>4, <2>5, OneStep DEF TypeOK
<1>8. ASSUME NEW w \in Workers, WriteFile(w)
      PROVE  MissedInv'
  <2>1. Moves(w, "parsing", worker[w].size, worker[w].data, FALSE)
    BY <1>0, <1>8, WriteMoves
  <2>2. Busy(w) /\ worker[w].at = "writing" /\ excused \subseteq excused' /\ missed' = missed
    BY <1>8 DEF WriteFile, Busy
  <2>3. worker'[w].file = worker[w].file /\ OthersKeep(w)
    BY <2>1, Keeping DEF Moves
  <2>4. worker[w].file \notin excused' => disk'[worker[w].file] = "whole" /\ SoundAt(w)'
    <3>1. damaged' \subseteq excused'
      BY <1>0 DEF TypeOK
    <3> QED
      BY <1>0, <1>8, <2>1, <2>2, <3>1, Held, WriteOnDisk DEF SoundAt, Moves
  <2> QED
    BY <1>0, <1>8, <2>2, <2>3, <2>4, OneStep, WriteOnDisk
<1>9. ASSUME NEW w \in Workers, ProcessData(w)
      PROVE  MissedInv'
  <2>1. Busy(w) /\ worker[w].at = "parsing" /\ excused' = excused
    BY <1>9 DEF ProcessData, Busy
  <2>2. worker[w].file \notin excused =>
          worker[w].data = "whole" /\ disk[worker[w].file] \in {"absent", "whole"}
    BY <2>1, Held DEF SoundAt
  <2>3. missed' \subseteq excused'
    BY <1>0, <1>9, <2>1, <2>2 DEF ProcessData
  <2>4. ~Busy(w)' /\ OthersKeep(w)
    BY <1>0, <1>9, ParseEnds, Keeping, IdleTask DEF Ends, EndsUnlinking, Busy
  <2>5. /\ \A f \in Files : f # worker[w].file => disk'[f] = disk[f]
        /\ worker[w].data = "whole" => disk' = disk
    BY <1>0, <1>9, ParseEnds DEF TypeOK
  <2> QED
    BY <1>0, <2>1, <2>2, <2>3, <2>4, <2>5, OneStep
<1>10. CASE Crash
  <2>1. \A w \in Workers : ~Busy(w)'
    BY <1>10, IdleTask DEF Crash, Busy
  <2>2. ASSUME NEW f \in Files, f \notin excused'
        PROVE  disk'[f] \in {"absent", "whole"}
    <3>1. CASE \E w \in Workers : Busy(w) /\ worker[w].file = f
      BY <1>0, <1>10, <2>2, <3>1, CrashLeaves
    <3>2. CASE ~\E w \in Workers : Busy(w) /\ worker[w].file = f
      <4>1. disk'[f] = disk[f] /\ f \notin excused
        BY <1>0, <1>10, <2>2, <3>2, CrashLeaves
      <4>2. \A w \in Workers : worker[w].at = "writing" => Busy(w)
        BY DEF Busy
      <4> QED
        BY <3>2, <4>1, <4>2 DEF MissedInv, DiskSound
    <3> QED
      BY <3>1, <3>2
  <2>3. missed' \subseteq excused'
    BY <1>0, <1>10 DEF Crash
  <2> QED
    BY <1>0, <2>1, <2>2, <2>3 DEF MissedInv, Alone, Sound, DiskSound
<1>11. CASE UNCHANGED vars
  BY <1>11 DEF vars, MissedInv, TypeOK, Alone, Sound, DiskSound, SoundAt, Busy
<1> QED
  BY <1>1, <1>2, <1>3, <1>4, <1>5, <1>6, <1>7, <1>8, <1>9, <1>10, <1>11 DEF Next

\* The changes of a file are missed only for a wrong answer of the server, for a crash
\* or a full disk, or for two workers on it at once.
THEOREM MissedTheorem == Spec => []MissedForCause
<1>1. MissedInv => MissedForCause
  BY DEF MissedInv, MissedForCause
<1> QED
  BY <1>1, InitMissed, StepMissed, PTL DEF Spec

-----------------------------------------------------------------------------
(* Bad files go.                                                           *)

\* A step of one worker keeps the invariant if its own file is in order after it.
LEMMA OwnMended ==
  ASSUME BadInv, TypeOK', kind' = kind, based' = based, NEW w \in Workers, OthersKeep(w),
         NEW f \in Files, f = worker[w].file,
         \A g \in Files : g # f =>
           disk'[g] = disk[g] /\ (g \in damaged => g \in damaged'),
         Removes => Mended(f)'
  PROVE  BadInv'
<1> SUFFICES ASSUME Removes, NEW g \in Files PROVE Mended(g)'
  BY DEF BadInv, Removes
<1>1. Mended(g)
  BY DEF BadInv
<1>2. CASE g = f
  BY <1>2
<1>3. CASE g # f
  <2>1. ASSUME NEW v \in Workers, Mends(v, g) PROVE Mends(v, g)'
    <3>1. worker'[v] = worker[v]
      BY <1>3, <2>1 DEF Mends, OthersKeep
    <3> QED
      BY <2>1, <3>1 DEF Mends
  <2> QED
    BY <1>1, <1>3, <2>1 DEF Mended
<1> QED
  BY <1>2, <1>3

\* A worker that does not mend may go on, if the disk and the others stay.
LEMMA StillMended ==
  ASSUME BadInv, TypeOK', kind' = kind, based' = based, NEW w \in Workers,
         \A v \in Workers : v # w => worker'[v] = worker[v],
         disk' = disk, damaged' = damaged, ~Mends(w, worker[w].file)
  PROVE  BadInv'
<1>1. OthersKeep(w)
  BY DEF OthersKeep
<1> PICK f \in Files : f = worker[w].file
  BY TypedTask DEF BadInv, Task
<1>2. ASSUME Removes PROVE Mended(f)'
  <2>1. Mended(f)
    BY <1>2 DEF BadInv
  <2>2. ASSUME NEW v \in Workers, Mends(v, f) PROVE v # w /\ worker'[v] = worker[v]
    BY <2>2
  <2>3. ASSUME disk[f] \in {"absent", "whole"} \/ f \in damaged PROVE Mended(f)'
    BY <2>3 DEF Mended
  <2>4. ASSUME NEW v \in Workers, Mends(v, f) PROVE Mended(f)'
    BY <2>2, <2>4 DEF Mended, Mends
  <2> QED
    BY <2>1, <2>3, <2>4 DEF Mended
<1> QED
  BY <1>1, <1>2, OwnMended

LEMMA InitBad == Init => BadInv
BY InitType DEF Init, BadInv, Mended

LEMMA StepBad == BadInv /\ [Next]_vars => BadInv'
<1> SUFFICES ASSUME BadInv, [Next]_vars PROVE BadInv'
  OBVIOUS
<1>0. TypeOK /\ TypeOK' /\ (\A w \in Workers : worker[w].linked => worker[w].at = "writing")
  BY StepType DEF BadInv, TypeOK
<1>a. \A w \in Workers : worker[w].file \in Files
  BY <1>0, TypedTask DEF Task
<1>b. \A w \in Workers, f \in Files : worker[w].at \notin {"writing", "parsing"} => ~Mends(w, f)
  BY <1>0 DEF Mends
<1>1. CASE BeginRound
  <2>1. disk' = disk /\ damaged' = damaged /\ kind' = kind /\ based' = based
    BY <1>1 DEF BeginRound
  <2>2. \A w \in Workers, f \in Files : ~Mends(w, f)
    BY <1>1, <1>b DEF BeginRound, Quiet
  <2>3. ASSUME Removes, NEW f \in Files PROVE Mended(f)'
    BY <2>1, <2>2, <2>3 DEF BadInv, Mended
  <2> QED
    BY <1>0, <2>1, <2>3 DEF BadInv, Removes
<1>2. ASSUME NEW w \in Workers, CheckCache(w)
      PROVE  BadInv'
  <2>1. \A v \in Workers : v # w => worker'[v] = worker[v]
    BY <1>0, <1>2, CheckMoves DEF Moves
  <2> QED
    BY <1>0, <1>2, <1>a, <1>b, <2>1, StillMended DEF CheckCache
<1>3. ASSUME NEW w \in Workers, FileSize(w)
      PROVE  BadInv'
  <2>1. \A v \in Workers : v # w => worker'[v] = worker[v]
    BY <1>0, <1>3, SizeMoves DEF Moves
  <2> QED
    BY <1>0, <1>3, <1>a, <1>b, <2>1, StillMended DEF FileSize
<1>4. ASSUME NEW w \in Workers, RemoveLocal(w)
      PROVE  BadInv'
  <2> PICK f \in Files : f = worker[w].file
    BY <1>a
  <2>1. /\ disk' = [disk EXCEPT ![f] = "absent"] /\ damaged' = damaged
        /\ kind' = kind /\ based' = based
    BY <1>4 DEF RemoveLocal
  <2>2. \A g \in Files : disk'[g] = IF g = f THEN "absent" ELSE disk[g]
    BY <1>0, <2>1 DEF TypeOK
  <2>3. OthersKeep(w) /\ Mended(f)'
    BY <1>0, <1>4, <2>2, RemoveEnds, Keeping DEF Mended
  <2> QED
    BY <1>0, <2>1, <2>2, <2>3, OwnMended
<1>5. ASSUME NEW w \in Workers, ReadFile(w)
      PROVE  BadInv'
  <2> PICK f \in Files : f = worker[w].file
    BY <1>a
  <2>1. PICK data \in Bytes :
         /\ data = "whole" => worker[w].size = "whole" /\ disk[worker[w].file] = "whole"
         /\ Moves(w, "parsing", worker[w].size, data, worker[w].linked)
    BY <1>0, <1>5, ReadMoves
  <2>2. disk' = disk /\ damaged' = damaged \ {f} /\ kind' = kind /\ based' = based
    BY <1>5 DEF ReadFile
  <2>3. OthersKeep(w)
    BY <2>1, Keeping
  <2>4. disk'[f] = "whole" \/ Mends(w, f)'
    BY <2>1, <2>2 DEF Mends, Moves
  <2>5. Mended(f)'
    BY <2>4 DEF Mended
  <2> QED
    BY <1>0, <2>2, <2>3, <2>5, OwnMended
<1>6. ASSUME NEW w \in Workers, Fetch(w)
      PROVE  BadInv'
  <2>1. \A v \in Workers : v # w => worker'[v] = worker[v]
    BY <1>0, <1>6, FetchMoves DEF Moves, Ends
  <2> QED
    BY <1>0, <1>6, <1>a, <1>b, <2>1, StillMended DEF Fetch
<1>7. ASSUME NEW w \in Workers, OpenFile(w)
      PROVE  BadInv'
  <2> PICK f \in Files : f = worker[w].file
    BY <1>a
  <2>1. Moves(w, "writing", worker[w].size, worker[w].data, TRUE)
    BY <1>0, <1>7, OpenMoves
  <2>2. disk' = [disk EXCEPT ![f] = "none"] /\ damaged' = damaged /\ kind' = kind
        /\ based' = based
    BY <1>7 DEF OpenFile
  <2>3. \A g \in Files : g # f => disk'[g] = disk[g]
    BY <1>0, <2>2 DEF TypeOK
  <2>4. OthersKeep(w) /\ Mends(w, f)'
    BY <2>1, Keeping DEF Mends, Moves
  <2>5. Mended(f)'
    BY <2>4 DEF Mended
  <2> QED
    BY <1>0, <2>2, <2>3, <2>4, <2>5, OwnMended
<1>8. ASSUME NEW w \in Workers, WriteFile(w)
      PROVE  BadInv'
  <2> PICK f \in Files : f = worker[w].file
    BY <1>a
  <2>1. Moves(w, "parsing", worker[w].size, worker[w].data, FALSE)
    BY <1>0, <1>8, WriteMoves
  <2>2. /\ kind' = kind /\ based' = based /\ damaged \subseteq damaged'
        /\ worker[w].at = "writing"
    BY <1>8 DEF WriteFile
  <2>3. \A g \in Files : g # f => disk'[g] = disk[g]
    BY <1>0, <1>8, WriteOnDisk
  <2>4. OthersKeep(w)
    BY <2>1, Keeping
  <2>5. CASE worker[w].data # "whole"
    <3>1. Mends(w, f)'
      BY <2>1, <2>5 DEF Mends, Moves
    <3>2. Mended(f)'
      BY <3>1 DEF Mended
    <3> QED
      BY <1>0, <2>2, <2>3, <2>4, <3>2, OwnMended
  <2>6. CASE worker[w].data = "whole" /\ worker[w].linked
    <3>1. disk'[f] = "whole" \/ f \in damaged'
      BY <1>0, <1>8, <2>6, WriteOnDisk
    <3>2. Mended(f)'
      BY <3>1 DEF Mended
    <3> QED
      BY <1>0, <2>2, <2>3, <2>4, <3>2, OwnMended
  <2>7. CASE worker[w].data = "whole" /\ ~worker[w].linked
    <3>1. disk' = disk /\ damaged' = damaged
      BY <1>0, <1>8, <2>7, WriteOnDisk DEF WriteFile
    <3>2. ~Mends(w, f)
      BY <2>2, <2>7 DEF Mends
    <3> QED
      BY <1>0, <2>1, <2>2, <3>1, <3>2, StillMended DEF Moves
  <2> QED
    BY <2>5, <2>6, <2>7
<1>9. ASSUME NEW w \in Workers, ProcessData(w)
      PROVE  BadInv'
  <2> PICK f \in Files : f = worker[w].file
    BY <1>a
  <2>1. kind' = kind /\ based' = based /\ damaged' = damaged /\ worker[w].at = "parsing"
    BY <1>9 DEF ProcessData
  <2>2. CASE worker[w].data # "whole" /\ Removes
    <3>1. EndsUnlinking(w) /\ disk' = [disk EXCEPT ![f] = "absent"]
      BY <1>0, <1>9, <2>2, ParseEnds
    <3>2. \A g \in Files : disk'[g] = IF g = f THEN "absent" ELSE disk[g]
      BY <1>0, <3>1 DEF TypeOK
    <3>3. OthersKeep(w) /\ Mended(f)'
      BY <3>1, <3>2, Keeping DEF Mended
    <3> QED
      BY <1>0, <2>1, <3>2, <3>3, OwnMended
  <2>3. CASE worker[w].data = "whole"
    <3>1. Ends(w) /\ disk' = disk
      BY <1>0, <1>9, <2>3, ParseEnds
    <3>2. ~Mends(w, f)
      BY <1>0, <2>1, <2>3 DEF Mends
    <3> QED
      BY <1>0, <2>1, <3>1, <3>2, StillMended DEF Ends
  <2>4. CASE ~Removes
    BY <1>0, <2>1, <2>4 DEF BadInv, Removes
  <2> QED
    BY <2>2, <2>3, <2>4
<1>10. CASE Crash
  <2>1. kind' = kind /\ based' = based
    BY <1>10 DEF Crash
  <2>2. ASSUME Removes, NEW f \in Files PROVE Mended(f)'
    <3>1. CASE \E w \in Workers : Busy(w) /\ worker[w].file = f
      BY <1>0, <1>10, <3>1, CrashLeaves DEF Mended
    <3>2. CASE ~\E w \in Workers : Busy(w) /\ worker[w].file = f
      <4>1. disk'[f] = disk[f] /\ damaged \subseteq damaged'
        BY <1>0, <1>10, <3>2, CrashLeaves
      <4>2. \A w \in Workers : ~Mends(w, f)
        BY <1>0, <3>2 DEF Mends, Busy
      <4> QED
        BY <2>2, <4>1, <4>2 DEF BadInv, Mended
    <3> QED
      BY <3>1, <3>2
  <2> QED
    BY <1>0, <2>1, <2>2 DEF BadInv, Removes
<1>11. CASE UNCHANGED vars
  BY <1>11 DEF vars, BadInv, TypeOK, Removes, Mended, Mends
<1> QED
  BY <1>1, <1>2, <1>3, <1>4, <1>5, <1>6, <1>7, <1>8, <1>9, <1>10, <1>11 DEF Next

\* Where threadOsmChange removes what it cannot read, what a crash or a full disk did
\* not leave bad is not bad when a round is over.
THEOREM BadTheorem == Spec => []BadFilesGo
<1>1. BadInv => BadFilesGo
  BY DEF BadInv, BadFilesGo, Mended, Mends, TypeOK, Quiet, Removes
<1> QED
  BY <1>1, InitBad, StepBad, PTL DEF Spec
=============================================================================
