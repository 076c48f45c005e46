---------------------------- MODULE MCFileTables ----------------------------
(* Instances of FileTables for TLC. *)
EXTENDS FileTables, TLC

ProcsSymmetry == Permutations(Procs)
=============================================================================
