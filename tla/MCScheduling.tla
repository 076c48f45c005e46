---------------------------- MODULE MCScheduling ----------------------------
(* Instances of Scheduling for TLC. *)
EXTENDS SchedulingInvariant, TLC

CpusAndProcsSymmetry == Permutations(CPUs) \cup Permutations(Procs)
=============================================================================
