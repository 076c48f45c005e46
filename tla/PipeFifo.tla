------------------------------ MODULE PipeFifo ------------------------------
(***************************************************************************)
(* What a pipe promises to the processes that share it: the bytes written  *)
(* come out once each and in the order written, a read takes all there is  *)
(* up to its count, end of file is seen only when nothing is left and no   *)
(* writer is, and a write fails only when no reader is left.               *)
(***************************************************************************)
EXTENDS Integers, Sequences

CONSTANTS Readers, Writers, Bytes, Counts

VARIABLES
    contents,   \* the bytes written and not yet read
    open,       \* the processes that have their end of the pipe open
    result      \* what the last call of each process returned

vars == <<contents, open, result>>

Error == -1   \* what the trap returns for a SystemError
Least(a, b) == IF a <= b THEN a ELSE b
Prefix(s, n) == SubSeq(s, 1, n)
Rest(s, n) == SubSeq(s, n + 1, Len(s))

Init ==
    /\ contents = <<>>
    /\ \E r \in Readers, w \in Writers : open = {r, w}
    /\ result = [p \in Readers \cup Writers |-> IF p \in Readers THEN <<>> ELSE 0]

Returns(p, value) == result' = [result EXCEPT ![p] = value]

Read(p) ==
    /\ p \in Readers \cap open
    /\ contents # <<>>
    /\ \E count \in Counts :
        LET n == Least(count, Len(contents)) IN
        /\ Returns(p, Prefix(contents, n))
        /\ contents' = Rest(contents, n)
    /\ UNCHANGED open

EndOfFile(p) ==
    /\ p \in Readers \cap open
    /\ contents = <<>>
    /\ open \cap Writers = {}
    /\ Returns(p, <<>>)
    /\ UNCHANGED <<contents, open>>

\* A write that finds room takes at least one byte of a non-empty buffer.
Write(p) ==
    /\ p \in Writers \cap open
    /\ \E count \in Counts : \E buffer \in [1..count -> Bytes] : \E n \in 0..count :
        /\ count > 0 => n > 0
        /\ contents' = contents \o Prefix(buffer, n)
        /\ Returns(p, n)
    /\ UNCHANGED open

Fail(p) ==
    /\ p \in Writers \cap open
    /\ open \cap Readers = {}
    /\ Returns(p, Error)
    /\ UNCHANGED <<contents, open>>

Close(p) ==
    /\ p \in open
    /\ open' = open \ {p}
    /\ UNCHANGED <<contents, result>>

\* A forked process gets the ends its parent has.
Share(p, q) ==
    /\ p \in open
    /\ q \notin open
    /\ p \in Readers <=> q \in Readers
    /\ open' = open \cup {q}
    /\ UNCHANGED <<contents, result>>

Next ==
    \/ \E p \in Readers \cup Writers :
        Read(p) \/ EndOfFile(p) \/ Write(p) \/ Fail(p) \/ Close(p)
    \/ \E p, q \in Readers \cup Writers : Share(p, q)

Spec == Init /\ [][Next]_vars
=============================================================================
