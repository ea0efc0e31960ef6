-------------------------- MODULE MCModelVersions --------------------------
(* Overlapping optimise and rollback requests of one user.                 *)
EXTENDS ModelVersions, TLC

\* The slots are interchangeable in every action and safety property.
Symmetry == Permutations(Requests)
=============================================================================
