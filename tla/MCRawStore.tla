----------------------------- MODULE MCRawStore -----------------------------
(* Three nodes: a line between two of them, a closed ring of all three, and   *)
(* a way that ends where it begins and is too short for a ring.               *)
EXTENDS RawStore

CONSTANTS a, b, c

Shapes == {<<a, b>>, <<a, b, c, a>>, <<a, b, a>>}

\* Two locations are interchangeable.
LocSymmetry == Permutations(Locs)

(***************************************************************************)
(* The program reads nothing of the world but the files, so a file that is *)
(* published while it works is one it has not come to yet: it is enough to *)
(* let the whole feed be made before the program takes the first file.     *)
(***************************************************************************)
FeedFirst == world' # world \/ feed' # feed => taken + position + restarts = 0
=============================================================================
