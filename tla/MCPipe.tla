------------------------------- MODULE MCPipe -------------------------------
(* Instances of Pipe for TLC. *)
EXTENDS Pipe, TLC

EndsSymmetry == Permutations(Readers) \cup Permutations(Writers)
=============================================================================
