-------------------------- MODULE MCSnapshotEpoch --------------------------
(* Model values for SnapshotEpoch; bumpers and reviews are interchangeable. *)
EXTENDS SnapshotEpoch, TLC

Symmetry == Permutations(Bumpers) \union Permutations(Reviewers)
=============================================================================
