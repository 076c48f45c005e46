---------------------------- MODULE MCBlockCache ----------------------------
(* Instances of BlockCache for TLC. *)
EXTENDS BlockCache, TLC

CacheSymmetry == Permutations(Blocks) \cup Permutations(Procs)
=============================================================================
