--------------------------- MODULE MCProcessTable ---------------------------
(* Instances of ProcessTable for TLC. *)
EXTENDS ProcessTable

\* wait for any child, or waitpid for one pid.
AnyOrOne == {AnyChild, 2}
=============================================================================
