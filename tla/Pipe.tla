-------------------------------- MODULE Pipe --------------------------------
(***************************************************************************)
(* A pipe of the System X kernel (system-x/kernel/pipe.cpp): a byte vector *)
(* used as a ring that grows up to maxPipeSize, the flags empty and full,  *)
(* and the processes that read, write, close and, by fork, share its ends. *)
(*                                                                         *)
(* Every call runs under the machine lock, which Sleep releases, so one    *)
(* action is a call from entry or wakeup to return or sleep.               *)
(***************************************************************************)
EXTENDS Integers, Sequences, FiniteSets

CONSTANTS
    Readers, Writers,   \* the processes that may have an end of the pipe
    Bytes,
    Counts,             \* the lengths that reads and writes ask for
    MaxPipeSize

ASSUME PipeAssumption ==
    /\ Readers \cap Writers = {}
    /\ Readers # {} /\ Writers # {}
    /\ IsFiniteSet(Readers) /\ IsFiniteSet(Writers)
    /\ Counts \subseteq Nat
    /\ MaxPipeSize \in Nat \ {0}

VARIABLES
    data, readPos, writePos,   \* Pipe::data, readPos, writePos
    empty, full,               \* Pipe::flags
    readerCount, writerCount,
    open,       \* the processes with the pipe in their file table
    pc,         \* idle, or asleep in a call
    request,    \* the count or the buffer of the call under way
    result      \* what Read or Write of the end returned to the trap, which still
                \* has to write the bytes that were read to the memory of the process

ringVars == <<data, readPos, writePos, empty, full>>
countVars == <<readerCount, writerCount, open>>
vars == <<ringVars, countVars, pc, request, result>>

Users == Readers \cup Writers
Buffers == UNION {[1..n -> Bytes] : n \in Counts}

TypeOK ==
    /\ data \in Seq(Bytes) /\ Len(data) <= MaxPipeSize
    /\ readPos \in 0..Len(data) /\ writePos \in 0..Len(data)
    /\ empty \in BOOLEAN /\ full \in BOOLEAN
    /\ readerCount \in 0..Cardinality(Readers)
    /\ writerCount \in 0..Cardinality(Writers)
    /\ open \subseteq Users
    /\ pc \in [Users -> {"idle", "ready", "asleep"}]

Error == -1   \* what the trap returns for a SystemError
Least(a, b) == IF a <= b THEN a ELSE b

\* The bytes s stored in d from the zero-based position pos on.
Stored_Past(d, pos, s) == SubSeq(d, 1, pos) \o s \o SubSeq(d, pos + 1, Len(d))
Stored(d, pos, s) ==
    [i \in 1..Len(d) |-> IF i \in (pos + 1)..(pos + Len(s)) THEN s[i - pos] ELSE d[i]]

InitialFlags_Full == empty = TRUE /\ full = TRUE
InitialFlags == empty = TRUE /\ full = FALSE

NoRequest(p) == IF p \in Readers THEN 0 ELSE <<>>

Init ==
    /\ data = <<>> /\ readPos = 0 /\ writePos = 0
    /\ InitialFlags
    /\ readerCount = 1 /\ writerCount = 1
    /\ \E r \in Readers, w \in Writers : open = {r, w}
    /\ pc = [p \in Users |-> "idle"]
    /\ request = [p \in Users |-> NoRequest(p)]
    /\ result = [p \in Users |-> IF p \in Readers THEN <<>> ELSE 0]

\* Wakeup(event): every process that sleeps on it tries again.
Woken(S) == [p \in Users |-> IF p \in S /\ pc[p] = "asleep" THEN "ready" ELSE pc[p]]
Returns(p, value) ==
    /\ result' = [result EXCEPT ![p] = value]
    /\ request' = [request EXCEPT ![p] = NoRequest(p)]

-----------------------------------------------------------------------------
\* A process calls read or write.
CallRead(p) ==
    /\ p \in Readers \cap open /\ pc[p] = "idle"
    /\ \E count \in Counts : request' = [request EXCEPT ![p] = count]
    /\ pc' = [pc EXCEPT ![p] = "ready"]
    /\ UNCHANGED <<ringVars, countVars, result>>

CallWrite(p) ==
    /\ p \in Writers \cap open /\ pc[p] = "idle"
    /\ \E buffer \in Buffers : request' = [request EXCEPT ![p] = buffer]
    /\ pc' = [pc EXCEPT ![p] = "ready"]
    /\ UNCHANGED <<ringVars, countVars, result>>

\* Pipe::Read: from readPos to the end of the vector if the unread bytes wrap,
\* then up to writePos.
UnreadWraps_Strict == readPos > writePos
UnreadWraps == readPos >= writePos

PipeRead(p, count) ==
    LET wraps == UnreadWraps
        n1 == IF wraps THEN Least(count, Len(data) - readPos) ELSE 0
        r1 == IF wraps /\ readPos + n1 = Len(data) THEN 0 ELSE readPos + n1
        n2 == IF r1 < writePos THEN Least(count - n1, writePos - r1) ELSE 0
        bytes == SubSeq(data, readPos + 1, readPos + n1)
                    \o SubSeq(data, r1 + 1, r1 + n2)
    IN
    /\ readPos' = r1 + n2
    /\ empty' = (empty \/ r1 + n2 = writePos)
    /\ IF bytes # <<>>
       THEN full' = FALSE /\ pc' = [Woken(Writers) EXCEPT ![p] = "idle"]
       ELSE UNCHANGED full /\ pc' = [pc EXCEPT ![p] = "idle"]
    /\ Returns(p, bytes)
    /\ UNCHANGED <<data, writePos, countVars>>

\* PipeInputFile::Read.
ReadStep(p) ==
    /\ p \in Readers /\ pc[p] = "ready"
    /\ \/ /\ empty /\ writerCount = 0
          /\ Returns(p, <<>>)
          /\ pc' = [pc EXCEPT ![p] = "idle"]
          /\ UNCHANGED <<ringVars, countVars>>
       \/ /\ empty /\ writerCount # 0
          /\ pc' = [pc EXCEPT ![p] = "asleep"]
          /\ UNCHANGED <<ringVars, countVars, request, result>>
       \/ ~empty /\ PipeRead(p, request[p])

\* Pipe::Write: into the vector from writePos on, growing it while it may grow,
\* then from its start up to readPos.
PipeWrite(p, buffer) ==
    LET ahead == writePos >= readPos
        len == Len(buffer)
        n1 == IF ahead THEN Least(len, Len(data) - writePos) ELSE 0
        n2 == IF ahead /\ Len(data) < MaxPipeSize
              THEN Least(len - n1, MaxPipeSize - (writePos + n1)) ELSE 0
        grown == Stored(data, writePos, SubSeq(buffer, 1, n1))
                    \o SubSeq(buffer, n1 + 1, n1 + n2)
        w1 == IF ahead /\ writePos + n1 + n2 = Len(grown)
              THEN 0 ELSE writePos + n1 + n2
        n3 == IF w1 < readPos THEN Least(len - n1 - n2, readPos - w1) ELSE 0
        written == n1 + n2 + n3
    IN
    /\ data' = Stored(grown, w1, SubSeq(buffer, n1 + n2 + 1, written))
    /\ writePos' = w1 + n3
    /\ full' = (full \/ w1 + n3 = readPos)
    /\ IF written > 0
       THEN empty' = FALSE /\ pc' = [Woken(Readers) EXCEPT ![p] = "idle"]
       ELSE UNCHANGED empty /\ pc' = [pc EXCEPT ![p] = "idle"]
    /\ Returns(p, written)
    /\ UNCHANGED <<readPos, countVars>>

\* PipeOutputFile::Write.
WriteStep(p) ==
    /\ p \in Writers /\ pc[p] = "ready"
    /\ \/ /\ full /\ readerCount = 0
          /\ Returns(p, Error)
          /\ pc' = [pc EXCEPT ![p] = "idle"]
          /\ UNCHANGED <<ringVars, countVars>>
       \/ /\ full /\ readerCount # 0
          /\ pc' = [pc EXCEPT ![p] = "asleep"]
          /\ UNCHANGED <<ringVars, countVars, request, result>>
       \/ ~full /\ PipeWrite(p, request[p])

\* PipeInputFile::Close and PipeOutputFile::Close. The last close of all deletes
\* the pipe; no process has it open then.
CloseReader(p) ==
    /\ p \in Readers \cap open /\ pc[p] = "idle"
    /\ readerCount' = readerCount - 1
    /\ open' = open \ {p}
    /\ pc' = IF readerCount' = 0 /\ writerCount = 0 THEN pc ELSE Woken(Writers)
    /\ UNCHANGED <<ringVars, writerCount, request, result>>

CloseWriter_WakesNobody(p) ==
    /\ p \in Writers \cap open /\ pc[p] = "idle"
    /\ writerCount' = writerCount - 1
    /\ open' = open \ {p}
    /\ UNCHANGED <<ringVars, readerCount, pc, request, result>>
CloseWriter(p) ==
    /\ p \in Writers \cap open /\ pc[p] = "idle"
    /\ writerCount' = writerCount - 1
    /\ open' = open \ {p}
    /\ pc' = IF readerCount = 0 /\ writerCount' = 0 THEN pc ELSE Woken(Readers)
    /\ UNCHANGED <<ringVars, readerCount, request, result>>

\* Fork copies the file table of the parent: Share. The child is a process that
\* does not have the pipe, perhaps in the slot of one that closed it.
Share(p, q) ==
    /\ p \in open /\ pc[p] = "idle"
    /\ q \in Users \ open
    /\ p \in Readers <=> q \in Readers
    /\ open' = open \cup {q}
    /\ readerCount' = readerCount + (IF q \in Readers THEN 1 ELSE 0)
    /\ writerCount' = writerCount + (IF q \in Writers THEN 1 ELSE 0)
    /\ UNCHANGED <<ringVars, pc, request, result>>

Next ==
    \/ \E p \in Users :
        \/ CallRead(p) \/ CallWrite(p) \/ ReadStep(p) \/ WriteStep(p)
        \/ CloseReader(p) \/ CloseWriter(p)
    \/ \E p, q \in Users : Share(p, q)

Spec == Init /\ [][Next]_vars

-----------------------------------------------------------------------------
(* Properties.                                                             *)

\* The unread bytes, in order.
Contents ==
    IF empty THEN <<>>
    ELSE IF readPos < writePos THEN SubSeq(data, readPos + 1, writePos)
    ELSE SubSeq(data, readPos + 1, Len(data)) \o SubSeq(data, 1, writePos)

Fifo == INSTANCE PipeFifo WITH contents <- Contents

\* The growing ring with its two flags is a queue of bytes: through every wrap
\* and every growth nothing is lost, repeated or reordered.
ImplementsFifo == Fifo!Spec

\* No lost wakeup: a reader sleeps only while the pipe is empty and has a writer,
\* a writer only while it is full and has a reader, whoever closes last.
SleepersHaveReason ==
    \A p \in Users : pc[p] = "asleep" =>
        IF p \in Readers THEN empty /\ writerCount > 0
                         ELSE full /\ readerCount > 0

\* The two ends never wait for each other.
NotBothEndsAsleep ==
    ~ \E r \in Readers, w \in Writers : pc[r] = "asleep" /\ pc[w] = "asleep"
=============================================================================
