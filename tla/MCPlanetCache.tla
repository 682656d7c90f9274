--------------------------- MODULE MCPlanetCache ---------------------------
(* PlanetCache with values for TLC: workers are interchangeable.           *)
EXTENDS PlanetCache, TLC

WorkerSymmetry == Permutations(Workers)
=============================================================================
