-------------------------- MODULE MCChangesetTable --------------------------
(* ChangesetTable with values for TLC.                                     *)
EXTENDS ChangesetTable, TLC

ChangesetSymmetry == Permutations(Changesets)
=============================================================================
