----------------------------- MODULE RemoteURL -----------------------------
(***************************************************************************)
(* The position in the replication feed: replication::RemoteURL.           *)
(*                                                                         *)
(* A replication file is named by three decimal groups,                    *)
(* <major>/<minor>/<index>, each of three digits.  The object keeps the    *)
(* numbers AND three strings derived from them (filespec, subpath and      *)
(* destdir); downloadFile, the cache and the catch-up code each read a     *)
(* different one, so the four must never drift apart.  The strings are     *)
(* abstracted to the groups they spell out.                                *)
(*                                                                         *)
(* Radix is 1000 in the code (the tests against 999).                      *)
(***************************************************************************)
EXTENDS Integers

CONSTANTS
  Radix,      \* values of one group: 0 .. Radix-1 (the code: 1000)
  MaxMajor,   \* bound: the largest major group explored
  Servers     \* planet servers (config.planet_servers)

ASSUME RadixAssumption == Radix \in Nat /\ Radix > 1
ASSUME MaxMajorAssumption == MaxMajor \in Nat
ASSUME ServersAssumption == Servers # {}

VARIABLE remote

Group == 0 .. Radix - 1

(***************************************************************************)
(* A path is what the numerical part of a URL spells out.                  *)
(***************************************************************************)
Path(a, b, c) == [major |-> a, minor |-> b, index |-> c]

Paths == [major : Nat, minor : Group, index : Group]

\* RemoteURL::sequence: the number of the file in the feed.
Sequence(p) == p.major * (Radix * Radix) + p.minor * Radix + p.index

\* RemoteURL::parse of https://<domain>/<datadir>/<frequency>/a/b/c.<suffix>:
\* every field comes from the same parts of the URL.
Parse(domain, p) ==
  [ domain |-> domain, path |-> p, subpath |-> p, filespec |-> p,
    destdir |-> [major |-> p.major, minor |-> p.minor] ]

\* RemoteURL::getURL: the domain and the filespec (not subpath, not the groups).
GetURL(r) == [domain |-> r.domain, filespec |-> r.filespec]

\* The copy handed to each task: new RemoteURL(remote->getURL()).
Reparse(r) == Parse(GetURL(r).domain, GetURL(r).filespec)

\* Mutant of UpdatePath: one derived string is forgotten.
UpdatePathForgetsSubpath(r, p) ==
  [ r EXCEPT !.path = p, !.filespec = p,
             !.destdir = [major |-> p.major, minor |-> p.minor] ]

\* RemoteURL::updatePath: the groups, and every string rebuilt from them.
UpdatePath(r, p) ==
  [ r EXCEPT !.path = p, !.filespec = p, !.subpath = p,
             !.destdir = [major |-> p.major, minor |-> p.minor] ]

\* RemoteURL::updateDomain
UpdateDomain(r, server) == [r EXCEPT !.domain = server]

\* Mutant of NextPath: the index carries into minor, minor never into major.
NextPathNoMajorCarry(p) ==
  IF p.index = Radix - 1 THEN Path(p.major, p.minor + 1, 0)
  ELSE Path(p.major, p.minor, p.index + 1)

\* Mutant of NextPath: the carry into major leaves minor where it was.
NextPathKeepsMinor(p) ==
  IF p.minor = Radix - 1 /\ p.index = Radix - 1 THEN Path(p.major + 1, p.minor, 0)
  ELSE IF p.index = Radix - 1 THEN Path(p.major, p.minor + 1, 0)
  ELSE Path(p.major, p.minor, p.index + 1)

\* The carries of RemoteURL::increment.
NextPath(p) ==
  IF p.minor = Radix - 1 /\ p.index = Radix - 1 THEN Path(p.major + 1, 0, 0)
  ELSE IF p.index = Radix - 1 THEN Path(p.major, p.minor + 1, 0)
  ELSE Path(p.major, p.minor, p.index + 1)

\* Mutant of PrevPath: the borrow from major forgets the index group.
PrevPathIndexZero(p) ==
  IF p.minor = 0 /\ p.index = 0 THEN Path(p.major - 1, Radix - 1, 0)
  ELSE IF p.index = 0 THEN Path(p.major, p.minor - 1, Radix - 1)
  ELSE Path(p.major, p.minor, p.index - 1)

\* The borrows of RemoteURL::decrement.  Nothing stops it at 000/000/000: the
\* major group becomes -1 and the URL "-01/999/999".
PrevPath(p) ==
  IF p.minor = 0 /\ p.index = 0 THEN Path(p.major - 1, Radix - 1, Radix - 1)
  ELSE IF p.index = 0 THEN Path(p.major, p.minor - 1, Radix - 1)
  ELSE Path(p.major, p.minor, p.index - 1)

-----------------------------------------------------------------------------
(* The object through a life of calls.                                     *)

UrlInit ==
  \E s \in Servers, a \in 0 .. MaxMajor, b \in Group, c \in Group :
    remote = Parse(s, Path(a, b, c))

Increment ==
  /\ remote.path.major < MaxMajor
  /\ remote' = UpdatePath(remote, NextPath(remote.path))

\* Callers never step below the first file (no caller decrements at all; the
\* feed starts at 000/000/001).
Decrement ==
  /\ Sequence(remote.path) > 0
  /\ remote' = UpdatePath(remote, PrevPath(remote.path))

\* The catch-up rewind (startMonitor*) and the changeset start (main).
Rewind ==
  \E a \in 0 .. MaxMajor, b \in Group, c \in Group :
    remote' = UpdatePath(remote, Path(a, b, c))

\* Striping the downloads over the servers.
Rotate == \E s \in Servers : remote' = UpdateDomain(remote, s)

UrlNext == Increment \/ Decrement \/ Rewind \/ Rotate

urlVars == <<remote>>

UrlSpec == UrlInit /\ [][UrlNext]_urlVars

-----------------------------------------------------------------------------
Remotes ==
  [ domain : Servers, path : Paths, subpath : Paths, filespec : Paths,
    destdir : [major : Nat, minor : Group] ]

\* Type invariant: the three groups stay groups, so "%03d" always prints three
\* digits for the lower two.
UrlTypeOK == remote \in Remotes

\* The strings never drift from the numbers: the copy a task gets by parsing
\* getURL() again is the object itself, so the file downloaded (filespec), the
\* directory it is cached in (destdir), the URL recorded in the task (subpath)
\* and the position that increment() moves (the numbers) are one file.
CopyIsSame == Reparse(remote) = remote

\* increment() moves exactly one file forward in the feed, through both carries.
IncrementIsNextFile ==
  [][Increment => Sequence(remote'.path) = Sequence(remote.path) + 1]_urlVars

\* decrement() undoes increment() wherever the feed has a file below.
DecrementUndoesIncrement ==
  [][ Decrement => /\ Sequence(remote'.path) = Sequence(remote.path) - 1
                   /\ NextPath(remote'.path) = remote.path ]_urlVars

=============================================================================
