---------------------------- MODULE MCJobManager ----------------------------
(* Instances of JobManager for TLC. *)
EXTENDS JobManager, TLC

Symmetric == Permutations(Jobs) \cup Permutations(Instances)
=============================================================================
