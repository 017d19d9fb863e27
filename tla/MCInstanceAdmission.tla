------------------------ MODULE MCInstanceAdmission ------------------------
(* Instances of InstanceAdmission for TLC. *)
EXTENDS InstanceAdmission, TLC

Symmetric == Permutations(Jobs)
=============================================================================
