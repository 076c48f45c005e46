---------------------------- MODULE HostTransfer ----------------------------
(***************************************************************************)
(* What the transfer of a block promises to the process that asks for it:  *)
(* the host performs it or it is refused, once, and the process goes on    *)
(* after that, with a success only if it was performed and an error only   *)
(* if it was refused.                                                      *)
(***************************************************************************)
CONSTANT Procs

VARIABLES
    phase,   \* of the transfer that each process has asked for
    result   \* what its last transfer returned

vars == <<phase, result>>

Init ==
    /\ phase = [p \in Procs |-> "idle"]
    /\ result = [p \in Procs |-> "none"]

Moves(p, from, to) == phase[p] = from /\ phase' = [phase EXCEPT ![p] = to]

Ask(p) == Moves(p, "idle", "asked") /\ UNCHANGED result
Perform(p) == Moves(p, "asked", "performed") /\ UNCHANGED result
Refuse(p) == Moves(p, "asked", "refused") /\ UNCHANGED result

Succeed(p) == Moves(p, "performed", "idle") /\ result' = [result EXCEPT ![p] = "success"]
Fail(p) == Moves(p, "refused", "idle") /\ result' = [result EXCEPT ![p] = "error"]

Next == \E p \in Procs : Ask(p) \/ Perform(p) \/ Refuse(p) \/ Succeed(p) \/ Fail(p)

Spec == Init /\ [][Next]_vars
=============================================================================
