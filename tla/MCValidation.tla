---------------------------- MODULE MCValidation ----------------------------
(* A node and a way with the same identifier; a building needs a name.     *)
EXTENDS Validation

T(k, v) == [key |-> k, value |-> v]

Name == T("name", "empty")
Good == T("building", "house")
Bad == T("building", "spaceship")
Place == T("place", "village")

Named == {Good, T("name", "mill")}

TagsOfNodes == {{}, Named, {Bad}, {Bad, Place}, {Place, Name}}
TagsOfWays == {{}, Named, {Bad}, {Good}}

\* The name without a value.
Empty == {Name}

Tests ==
  [ badvalue |-> TRUE, incomplete |-> TRUE, badgeom |-> TRUE,
    valid |-> [building |-> {"house"}, name |-> {}], required |-> {"building", "name"} ]

\* The program reads nothing of the world but the files: see MCRawStore.
FeedFirst ==
  world' # world \/ open' # open \/ feed' # feed => position + restarts = 0 /\ ~hung
=============================================================================
