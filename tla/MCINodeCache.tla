---------------------------- MODULE MCINodeCache ----------------------------
(* Instances of INodeCache for TLC. *)
EXTENDS INodeCache, TLC

ProcsSymmetry == Permutations(Procs)
=============================================================================
