---------------------------- MODULE StartingFile ----------------------------
(***************************************************************************)
(* PlanetReplicator::findRemotePath: the file of a feed to start at, for a *)
(* time, from a listing of a few files and their times.  Between two of    *)
(* them the feed is taken to have advanced evenly.  Times are minutes.     *)
(*                                                                         *)
(* StateFile: what is read from the state file of a replication file.      *)
(***************************************************************************)
EXTENDS Yaml, FiniteSets

CONSTANTS Stoi(_), TimeFromString(_)   \* numbers and times of the tokens of a file

-----------------------------------------------------------------------------
(* StateFile.                                                              *)

FreqToString ==
  [minutely |-> "minute", hourly |-> "hour", daily |-> "day", changeset |-> "changesets"]

\* A name that is not known is that of the first frequency: the map makes an entry.
FreqFromString(name) ==
  IF \E f \in DOMAIN FreqToString : FreqToString[f] = name
    THEN CHOOSE f \in DOMAIN FreqToString : FreqToString[f] = name
    ELSE "minutely"

NoState == [timestamp |-> "not_a_date_time", sequence |-> 0]

\* A state file is a sequence of lines, each a key and a value: of a changeset file
\* three lines of which only the place counts, of a change file a comment and lines of
\* which the key does.  A file on disk that is not there leaves the state as it was.
ReadStateFile(lines) ==
  LET ofKey(key) == {i \in 2 .. Len(lines) : lines[i].key = key}
      last(key) == lines[CHOOSE i \in ofKey(key) : \A j \in ofKey(key) : j <= i].value
  IN  IF lines = <<>> THEN NoState
      ELSE IF lines[1].key = "---"
        THEN [timestamp |-> lines[2].value, sequence |-> lines[3].value]
      ELSE [ timestamp |-> IF ofKey("timestamp") = {} THEN NoState.timestamp
                           ELSE last("timestamp"),
             sequence |-> IF ofKey("sequenceNumber") = {} THEN NoState.sequence
                          ELSE last("sequenceNumber") ]

-----------------------------------------------------------------------------
(* findRemotePath.                                                         *)

\* The part of the listing: only minutely files have one of their own.
ListingName(frequency) == IF frequency = "minutely" THEN "minute" ELSE "changeset"

\* hashes: a std::map, so sorted by the number of the file, with the first time given.
Hashes(listing, frequency) ==
  LET entries == Get(listing, ListingName(frequency)).children
      files == {Stoi(e.value) : e \in ToSet(entries)}
      At(f) == {i \in DOMAIN entries : Stoi(entries[i].value) = f}
      first(f) == entries[CHOOSE i \in At(f) : \A j \in At(f) : i <= j]
      sorted == SetToSortSeq(files, LAMBDA f, g : f < g)
  IN  [k \in DOMAIN sorted |->
         [ file |-> sorted[k],
            time |-> TimeFromString(first(sorted[k]).children[1].value) ]]

\* The entry the loop breaks at, one past the end when start_time is after them all.
FirstAfter(hashes, start) ==
  LET after == {k \in DOMAIN hashes : start < hashes[k].time}
  IN  IF after = {} THEN Len(hashes) + 1 ELSE CHOOSE k \in after : \A j \in after : k <= j

(***************************************************************************)
(* closest_prev and closest_next.  beyond is what is read at the end of    *)
(* the map, which is also where one step back from its beginning leads:    *)
(* anything.  When it happens to be earlier than the last entry, the last  *)
(* two are taken.                                                          *)
(***************************************************************************)
Closest(hashes, start, beyond) ==
  LET entry(k) == IF k \in DOMAIN hashes THEN hashes[k] ELSE beyond
      k == FirstAfter(hashes, start)
      found == [prev |-> entry(k - 1), next |-> entry(k)]
  IN  IF found.next.time < found.prev.time
        THEN [prev |-> entry(Len(hashes) - 1), next |-> found.prev]
        ELSE found

\* The number of the file, by the ratio of minutes to files.  An exact quotient may
\* come out as the number below it, in floating point.
Targets(c, start) ==
  LET minutes == c.next.time - c.prev.time
      share == (start - c.prev.time) * (c.next.file - c.prev.file)
      target == c.prev.file + share \div minutes
  IN  {target} \cup (IF share % minutes = 0 THEN {target - 1} ELSE {})

\* The number split in three by division in floating point: the last of the three, or
\* the last two, may come out as the path of the number below.
PathsOf(target) == {target, target - 1}

\* connectServer, of which the outcome is not looked at, then the URL of the file.
FindRemotePath(config, listing, start, beyond) ==
  LET closest == Closest(Hashes(listing, config.frequency), start, beyond)
  IN  { [ server |-> config.planet_server, datadir |-> config.datadir,
          frequency |-> FreqToString[config.frequency], file |-> f,
          suffix |-> IF config.frequency = "minutely" THEN ".osc.gz" ELSE ".osm.gz" ] :
        f \in UNION {PathsOf(t) : t \in Targets(closest, start)} }

-----------------------------------------------------------------------------
(* What it should be.                                                      *)

\* Both kinds of state file give back their time and number.
StateIsRead(timestamp, sequence) ==
  LET line(key, value) == [key |-> key, value |-> value]
      ofChangesets == << line("---", ""), line("last_run", timestamp),
                         line("sequence", sequence) >>
      ofChanges == << line("comment", ""), line("sequenceNumber", sequence),
                      line("txnMax", ""), line("timestamp", timestamp) >>
  IN  \A lines \in {ofChangesets, ofChanges} :
        ReadStateFile(lines) = [timestamp |-> timestamp, sequence |-> sequence]

\* The neighbours of a time in a listing, both before it when it is after them all.
Neighbours(hashes, start) ==
  { p \in (DOMAIN hashes) \X (DOMAIN hashes) :
      /\ p[2] = p[1] + 1
      /\ hashes[p[1]].time <= start
      /\ start < hashes[p[2]].time \/ p[2] = Len(hashes) }

\* A listing that goes up in time, of at least two files; and either the time is in
\* it, or what is read beyond its end is earlier than the time of the last entry.
Determined(hashes, start, beyond) ==
  /\ Len(hashes) > 1
  /\ \A k \in 1 .. Len(hashes) - 1 : hashes[k].time < hashes[k + 1].time
  /\ hashes[1].time <= start
  /\ start < hashes[Len(hashes)].time \/ beyond.time < hashes[Len(hashes)].time

\* Nothing is left out: where the feed advances evenly, the file found is not later
\* than the time asked for, and at most three files earlier.  The neighbours of the
\* time decide, or the last two entries when it is after them all.
FindsFile(config, listing, start, beyond) ==
  LET hashes == Hashes(listing, config.frequency)
      TimesFiles(f, a, b) == (f - a.file) * (b.time - a.time)
      asked(a, b) == (start - a.time) * (b.file - a.file)
  IN  Determined(hashes, start, beyond) =>
        \A found \in FindRemotePath(config, listing, start, beyond) :
          \E p \in Neighbours(hashes, start) :
            LET a == hashes[p[1]] b == hashes[p[2]]
            IN  /\ TimesFiles(found.file, a, b) <= asked(a, b)
                /\ asked(a, b) < TimesFiles(found.file + 3, a, b)
=============================================================================
