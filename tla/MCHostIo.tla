------------------------------ MODULE MCHostIo ------------------------------
(* Instances of HostIo for TLC. *)
EXTENDS HostIo
=============================================================================
