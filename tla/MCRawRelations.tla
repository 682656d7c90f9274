--------------------------- MODULE MCRawRelations ---------------------------
(* A ring of three nodes, and two relations of the ring, one of them a     *)
(* multipolygon, with a node or not.                                       *)
EXTENDS RawRelations

CONSTANTS a, b, c, w

Ring == {<<a, b, c, a>>}

Member(ref, type) == [ref |-> ref, type |-> type, role |-> "outer"]

Members == {<<Member(w, "way")>>, <<Member(a, "node"), Member(w, "way")>>}

\* Two locations are interchangeable.
LocSymmetry == Permutations(Locs)

\* The program reads nothing of the world but the files: see MCRawStore.
FeedFirst == world' # world \/ feed' # feed => taken + position + restarts = 0
=============================================================================
