---------------------------- MODULE FeedFollower ----------------------------
(***************************************************************************)
(* What a monitor promises of a feed, whatever its rounds, pools, slots    *)
(* and batches: the specification MonitorChanges implements.               *)
(*                                                                         *)
(* Behind, the follower asks for several files at once and may pass files  *)
(* that were refused, but none it did not ask for, and none it was given   *)
(* before its changes are settled.  When it catches up it may go back.     *)
(* From then on it takes file after file: it asks for the next one until   *)
(* it is given, settles it, and only then goes on.                         *)
(***************************************************************************)
EXTENDS Integers

CONSTANTS
  Start,    \* the file before the first
  Last,     \* the last file of the feed
  Width,    \* files asked for at once while behind
  Stores,   \* where changes are written
  Content   \* files with changes to write

VARIABLES
  phase,    \* "behind", "steady" or "ended"
  next,     \* the first file the follower is not done with
  answer,   \* answer[s]: what was last heard of file s
  written,  \* written[st]: files whose changes were written to st
  lost      \* lost[st]: files of transactions that failed

vars == <<phase, next, answer, written, lost>>

Files == Start + 1 .. Last
Answers == {"unasked", "refused", "unreadable", "given"}

Init ==
  /\ phase = "behind"
  /\ next = Start + 1
  /\ answer = [s \in Files |-> "unasked"]
  /\ written = [st \in Stores |-> {}]
  /\ lost = [st \in Stores |-> {}]

\* The files the follower is busy with.
Window ==
  {s \in Files : next <= s /\ s < next + (IF phase = "steady" THEN 1 ELSE Width)}

Ask(s) ==
  /\ phase # "ended"
  /\ s \in Window
  /\ \E a \in Answers \ {"unasked"} : answer' = [answer EXCEPT ![s] = a]
  /\ UNCHANGED <<phase, next, written, lost>>

\* A transaction takes changes of files in the window, all or none.  A file that was
\* asked for twice at once may have been refused the second time.
Writable ==
  {s \in Window \cap Content :
     answer[s] = "given" \/ (phase = "behind" /\ answer[s] # "unasked")}

Write(st) ==
  /\ phase # "ended"
  /\ \E S \in (SUBSET Writable) \ {{}} :
       \/ written' = [written EXCEPT ![st] = @ \cup S] /\ UNCHANGED lost
       \/ lost' = [lost EXCEPT ![st] = @ \cup S] /\ UNCHANGED written
  /\ UNCHANGED <<phase, next, answer>>

\* Every file before n was asked for, and its changes, if given, are settled.
DoneBefore(n) ==
  \A s \in Files : s < n =>
    /\ answer[s] # "unasked"
    /\ answer[s] = "given" /\ s \in Content =>
         \A st \in Stores : s \in written[st] \cup lost[st]

\* The follower goes on to file n, in phase p, unless it ends there.
GoTo(n, p) ==
  /\ DoneBefore(n)
  /\ next' = n
  /\ phase' \in {p, "ended"}
  /\ UNCHANGED <<answer, written, lost>>

MoveOn == phase = "behind" /\ \E n \in next .. next + Width : GoTo(n, "behind")

CatchUp == phase = "behind" /\ \E n \in Start + 1 .. next + Width : GoTo(n, "steady")

Follow ==
  /\ phase = "steady"
  /\ \/ GoTo(next, "steady")
     \/ /\ next \in Files
        /\ answer[next] \in {"given", "unreadable"}
        /\ GoTo(next + 1, "steady")

\* It may die at any moment.
Die ==
  /\ phase' = "ended"
  /\ UNCHANGED <<next, answer, written, lost>>

Next ==
  \/ \E s \in Files : Ask(s)
  \/ \E st \in Stores : Write(st)
  \/ MoveOn \/ CatchUp \/ Follow \/ Die

Spec == Init /\ [][Next]_vars
=============================================================================
