---------------------------- MODULE PlanetCache ----------------------------
(***************************************************************************)
(* The local cache of replication files: Planet::downloadFile, readFile    *)
(* and writeFile, as the workers of a round run them at once, on a disk    *)
(* that outlives the program (a build with USE_CACHE).                     *)
(*                                                                         *)
(* Of the bytes of a file is kept what they are worth: the whole file, a   *)
(* page (what the server answers in its place), a cut (a part of the file, *)
(* or a mix of two answers), or none.  Only whole bytes can be unzipped    *)
(* and parsed.                                                             *)
(***************************************************************************)
EXTENDS Integers, FiniteSets

CONSTANTS
  Workers,      \* threads of the pool
  MaxFile,      \* bound: files of the feed, 1 .. MaxFile
  MaxRounds,    \* bound: rounds
  MaxCrashes    \* bound: times the program dies

ASSUME WorkersAssumption == Workers # {} /\ IsFiniteSet(Workers)
ASSUME BoundsAssumption == MaxFile \in Nat \ {0} /\ MaxRounds \in Nat /\ MaxCrashes \in Nat

Files == 1 .. MaxFile
Bytes == {"whole", "page", "cut", "none"}

VARIABLES
  kind,      \* the monitor at work: "minute" or "changeset"
  based,     \* whether destdir_base is given
  disk,      \* disk[f]: the cached bytes of file f, or "absent"
  worker,    \* worker[w]: where the task of w is, and what it holds
  rounds, crashes,
  \* History, for the properties only:
  missed,    \* files a task went past without their changes
  damaged,   \* files a crash or a full disk left unreadable, until they are read again
  excused    \* files the server answered with something else, or that were damaged,
             \* or that two workers were at work on at once

vars == <<kind, based, disk, worker, rounds, crashes, missed, damaged, excused>>

Places ==
  {"idle", "posted", "cached", "vanished", "sized", "fetching", "fetched", "writing", "parsing"}

\* file_size, and the bytes held; linked: the file open for writing is still the one
\* of its name.
Idle == [at |-> "idle", file |-> 1, size |-> "none", data |-> "none", linked |-> FALSE]

Quiet == \A w \in Workers : worker[w].at = "idle"

Goto(w, place) == worker' = [worker EXCEPT ![w].at = place]

-----------------------------------------------------------------------------
Init ==
  /\ kind \in {"minute", "changeset"} /\ based \in BOOLEAN
  /\ disk = [f \in Files |-> "absent"]
  /\ worker = [w \in Workers |-> Idle]
  /\ rounds = 0 /\ crashes = 0
  /\ missed = {} /\ damaged = {} /\ excused = {}

\* A round of either monitor: successive files, a worker each, or the same file for
\* all of them (the position does not advance); a caught-up round has one worker.
BeginRound ==
  /\ Quiet /\ rounds < MaxRounds
  /\ rounds' = rounds + 1
  /\ \E jobs \in [Workers -> Files], busy \in (SUBSET Workers) \ {{}} :
       /\ \/ \A v, w \in busy : jobs[v] = jobs[w]
          \/ \A v, w \in busy : v # w => jobs[v] # jobs[w]
       /\ worker' = [w \in Workers |->
            IF w \in busy THEN [Idle EXCEPT !.at = "posted", !.file = jobs[w]] ELSE Idle]
       /\ excused' = excused \cup
            {f \in Files : \E v, w \in busy : v # w /\ jobs[v] = f /\ jobs[w] = f}
  /\ UNCHANGED <<kind, based, disk, crashes, missed, damaged>>

-----------------------------------------------------------------------------
\* Mutant of CheckCache: the file is created before it is asked for.
CheckCacheCreates(w) ==
  /\ worker[w].at = "posted"
  /\ Goto(w, IF disk[worker[w].file] # "absent" THEN "cached" ELSE "fetching")
  /\ disk' = [disk EXCEPT ![worker[w].file] = IF @ = "absent" THEN "none" ELSE @]
  /\ UNCHANGED <<kind, based, rounds, crashes, missed, damaged, excused>>

\* std::filesystem::exists
CheckCache(w) ==
  /\ worker[w].at = "posted"
  /\ Goto(w, IF disk[worker[w].file] # "absent" THEN "cached" ELSE "fetching")
  /\ UNCHANGED <<kind, based, disk, rounds, crashes, missed, damaged, excused>>

\* readFile's file_size, which throws when another worker has removed the file.
FileSize(w) ==
  /\ worker[w].at = "cached"
  /\ LET now == disk[worker[w].file]
     IN  worker' = [worker EXCEPT ![w].at = IF now = "absent" THEN "vanished" ELSE "sized",
                                  ![w].size = IF now = "absent" THEN "none" ELSE now]
  /\ UNCHANGED <<kind, based, disk, rounds, crashes, missed, damaged, excused>>

\* Without its file f, nobody has it open by its name.
Unlinked(f) == [v \in Workers |->
  IF worker[v].file = f THEN [worker[v] EXCEPT !.linked = FALSE] ELSE worker[v]]

\* localError: the local file, if it is there again, is removed (by its full name), and
\* asked for again.
RemoveLocal(w) ==
  /\ worker[w].at = "vanished"
  /\ disk' = [disk EXCEPT ![worker[w].file] = "absent"]
  /\ worker' = [Unlinked(worker[w].file) EXCEPT ![w] = Idle]
  /\ UNCHANGED <<kind, based, rounds, crashes, missed, damaged, excused>>

\* The rest of readFile: size bytes are read from whatever is there by now, and what
\* is not there is what the buffer happened to hold.
ReadFile(w) ==
  /\ worker[w].at = "sized"
  /\ LET size == worker[w].size
         now == disk[worker[w].file]
     IN  worker' = [worker EXCEPT ![w].at = "parsing",
           ![w].data = IF now = size \/ size = "none" THEN size ELSE "cut"]
  /\ damaged' = damaged \ {worker[w].file}
  /\ UNCHANGED <<kind, based, disk, rounds, crashes, missed, excused>>

\* The server is asked.  No connection, a 404 or a 504: the task has no file.  Any
\* other answer is kept as the file, and a body that breaks off is no bytes at all.
Fetch(w) ==
  /\ worker[w].at = "fetching"
  /\ \/ /\ worker' = [worker EXCEPT ![w] = Idle]
        /\ UNCHANGED excused
     \/ \E answer \in {"whole", "page", "none"} :
          /\ worker' = [worker EXCEPT ![w].data = answer,
               ![w].at = IF answer = "none" THEN "parsing" ELSE "fetched"]
          /\ excused' = IF answer = "whole" THEN excused
                        ELSE excused \cup {worker[w].file}
  /\ UNCHANGED <<kind, based, disk, rounds, crashes, missed, damaged>>

\* Mutant of OpenFile: the directory of the file is not made, so that there is no file.
OpenFileNoDirectory(w) ==
  /\ worker[w].at = "fetched"
  /\ worker' = [worker EXCEPT ![w].at = "writing", ![w].linked = TRUE]
  /\ UNCHANGED <<kind, based, disk, rounds, crashes, missed, damaged, excused>>

\* writeFile makes the directory and opens the file in its place, which empties it.
OpenFile(w) ==
  /\ worker[w].at = "fetched"
  /\ disk' = [disk EXCEPT ![worker[w].file] = "none"]
  /\ worker' = [worker EXCEPT ![w].at = "writing", ![w].linked = TRUE]
  /\ UNCHANGED <<kind, based, rounds, crashes, missed, damaged, excused>>

\* Bytes written from the beginning over those that are there: the longer file keeps
\* its end.
Over(new, old) == IF new = "page" /\ old \in {"whole", "cut"} THEN "cut" ELSE new

\* write, flush and close; nobody looks whether they failed (a full disk).
WriteFile(w) ==
  /\ worker[w].at = "writing"
  /\ LET f == worker[w].file
     IN  \/ /\ disk' = IF worker[w].linked
                         THEN [disk EXCEPT ![f] = Over(worker[w].data, @)] ELSE disk
            /\ UNCHANGED <<damaged, excused>>
         \/ /\ worker[w].linked
            /\ disk' = [disk EXCEPT ![f] = "cut"]
            /\ damaged' = damaged \cup {f} /\ excused' = excused \cup {f}
  /\ worker' = [worker EXCEPT ![w].at = "parsing", ![w].linked = FALSE]
  /\ UNCHANGED <<kind, based, rounds, crashes, missed>>

\* Mutant of Removes: threadOsmChange does not remove what it cannot read.
RemovesNothing == FALSE

\* threadOsmChange removes a file it cannot read, by its name without destdir_base;
\* threadChangeSet (processData) only logs.
Removes == kind = "minute" /\ ~based

\* The task unzips and parses the bytes it has.
ProcessData(w) ==
  /\ worker[w].at = "parsing"
  /\ LET f == worker[w].file
         whole == worker[w].data = "whole"
         removed == ~whole /\ Removes
     IN  /\ disk' = IF removed THEN [disk EXCEPT ![f] = "absent"] ELSE disk
         /\ worker' = [(IF removed THEN Unlinked(f) ELSE worker) EXCEPT ![w] = Idle]
         /\ missed' = IF whole THEN missed \ {f} ELSE missed \cup {f}
  /\ UNCHANGED <<kind, based, rounds, crashes, damaged, excused>>

\* The program dies at any point; what is half written stays on the disk.
Crash ==
  /\ crashes < MaxCrashes /\ ~Quiet
  /\ crashes' = crashes + 1
  /\ LET busy == {w \in Workers : worker[w].at # "idle"}
         open == {worker[w].file : w \in {v \in busy : worker[v].linked}}
         left == {worker[w].file : w \in busy}
     IN  /\ \E cut \in SUBSET open :
              disk' = [f \in Files |-> IF f \in cut THEN "cut" ELSE disk[f]]
         /\ damaged' = damaged \cup {f \in left : disk'[f] \notin {"absent", "whole"}}
         /\ excused' = excused \cup {f \in left : disk'[f] \notin {"absent", "whole"}}
  /\ worker' = [w \in Workers |-> Idle]
  /\ UNCHANGED <<kind, based, rounds, missed>>

Next ==
  \/ BeginRound \/ Crash
  \/ \E w \in Workers :
       \/ CheckCache(w) \/ FileSize(w) \/ RemoveLocal(w) \/ ReadFile(w) \/ Fetch(w)
       \/ OpenFile(w) \/ WriteFile(w) \/ ProcessData(w)

Spec == Init /\ [][Next]_vars

-----------------------------------------------------------------------------
\* Type invariant: a worker that writes to a file by its name has emptied or filled it.
TypeOK ==
  /\ disk \in [Files -> Bytes \cup {"absent"}]
  /\ worker \in [Workers -> [ at : Places, file : Files, size : Bytes, data : Bytes,
                              linked : BOOLEAN ]]
  /\ \A w \in Workers :
       worker[w].linked => worker[w].at = "writing" /\ disk[worker[w].file] # "absent"
  /\ missed \subseteq Files /\ damaged \subseteq excused /\ excused \subseteq Files

\* Where threadOsmChange removes what it cannot read, no unreadable file is left when
\* a round is over, whoever read, wrote or removed it at the same time; except for
\* one that a crash or a full disk left so and that nobody has read since.
BadFilesGo ==
  Quiet /\ kind = "minute" /\ ~based =>
    \A f \in Files : disk[f] \in {"absent", "whole"} \/ f \in damaged

\* The changes of a file are only missed when the server once answered with something
\* else, a crash or a full disk cut it, or two workers asked for it at once: neither
\* a refusal nor a crash before the file is opened leaves anything in the cache.
MissedForCause == missed \subseteq excused
=============================================================================
