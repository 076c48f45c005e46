----------------------------- MODULE FileTables -----------------------------
(***************************************************************************)
(* The file tables of the processes of the System X kernel                 *)
(* (system-x/kernel/file.cpp) and the counts by which the files in them    *)
(* live: those of the two ends of a pipe (pipe.cpp) and the reference      *)
(* count of a file of the root file system (block_file.cpp, root_fs.cpp).  *)
(*                                                                         *)
(* fork, pipe, close and exit change the counts under the machine lock. A  *)
(* process changes only its own table, and dup takes no lock: between its  *)
(* read and its write of a count the other processors may change it.       *)
(*                                                                         *)
(* The exit of a process closes its files one after the other. A close may *)
(* fail, for a file of the root file system when its inode cannot be read: *)
(* then the rest is not closed, and the table is not cleared, until        *)
(* somebody kills the process again.                                       *)
(***************************************************************************)
EXTENDS Integers, FiniteSets, FiniteSetsExt

CONSTANTS
    Procs,
    NoProc,
    MaxOpenFiles,
    Terminals,     \* the descriptors that a new table has for the terminal
    Pipes, Opens,  \* identifiers of pipes and of files opened: a bound of the model
    MaxCount,      \* how high dup and fork count, a bound of the model
    MaxAgain,      \* how many ends of a pipe are closed again before no one is killed again, a bound
    Processors     \* how many processors the machine has

Fds == 0 .. MaxOpenFiles - 1

ASSUME FileTablesAssumption ==
    /\ IsFiniteSet(Procs) /\ NoProc \notin Procs
    /\ MaxOpenFiles \in Nat
    /\ Terminals \subseteq Fds
    /\ MaxCount \in Nat /\ MaxAgain \in Nat
    /\ Processors \in Nat \ {0}

Reader(k) == <<"reader", k>>
Writer(k) == <<"writer", k>>
RootFile(n) == <<"root", n>>
Terminal == <<"terminal", 0>>
NoFile == <<"none", 0>>

RootFiles == {RootFile(n) : n \in Opens}
PipeEnds == {Reader(k) : k \in Pipes} \cup {Writer(k) : k \in Pipes}
Counted == RootFiles \cup PipeEnds
Files == Counted \cup {Terminal}

OtherEnd(e) == IF e[1] = "reader" THEN Writer(e[2]) ELSE Reader(e[2])

NotInDup == [file |-> NoFile, seen |-> 0]
NotClosing == [of |-> NoProc, next |-> 0]

VARIABLES
    live,      \* the processes that there are
    files,     \* ProcessFileTable::files of each process
    count,     \* readerCount or writerCount of a pipe, referenceCount of a file
    made,      \* the ends and files that have been made
    deleted,   \* and those that have been deleted, an end with its pipe
    fileMap,   \* the files that the root file system has in its map
    dup,       \* of each process in a dup: the file, and the count that it has read
    closing,   \* of each process in an exit or a kill: whose files it closes, and the next
    closed,    \* the descriptors of each process that an exit has closed and left in the table
    unheld,    \* how many counts of each pipe end are for descriptors that nobody has
    again,     \* how many it has lost to descriptors that were closed again
    raced      \* the files whose count another processor changed during a dup

exitVars == <<closing, closed, again>>
vars == <<live, files, count, made, deleted, fileMap, dup, exitVars, unheld, raced>>

TypeOK ==
    /\ live \subseteq Procs
    /\ files \in [Procs -> [Fds -> Files \cup {NoFile}]]
    /\ count \in [Counted -> Int]
    /\ made \subseteq Counted /\ deleted \subseteq Counted
    /\ fileMap \subseteq RootFiles
    /\ dup \in [Procs -> [file : Counted, seen : Int] \cup {NotInDup}]
    /\ closing \in [Procs -> [of : Procs, next : 0 .. MaxOpenFiles] \cup {NotClosing}]
    /\ closed \in [Procs -> SUBSET Fds]
    /\ unheld \in [PipeEnds -> Nat] /\ again \in [PipeEnds -> Nat]
    /\ raced \subseteq Counted

NewTable == [fd \in Fds |-> IF fd \in Terminals THEN Terminal ELSE NoFile]
NoFiles == [fd \in Fds |-> NoFile]

Init ==
    /\ live \in {{p} : p \in Procs}
    /\ files = [p \in Procs |-> IF p \in live THEN NewTable ELSE NoFiles]
    /\ count = [f \in Counted |-> 0]
    /\ made = {} /\ deleted = {} /\ fileMap = {}
    /\ dup = [p \in Procs |-> NotInDup]
    /\ closing = [p \in Procs |-> NotClosing]
    /\ closed = [p \in Procs |-> {}]
    /\ unheld = [e \in PipeEnds |-> 0] /\ again = [e \in PipeEnds |-> 0]
    /\ raced = {}

\* A processor is not in the middle of a dup. The model stops at a race: what follows
\* from a count that is wrong is undefined.
ProcessorFree ==
    /\ raced = {}
    /\ Cardinality({q \in Procs : dup[q] # NotInDup}) < Processors

\* The process is in no dup and no kill, and nobody closes its files.
Idle(p) ==
    /\ dup[p] = NotInDup /\ closing[p] = NotClosing
    /\ \A c \in Procs : closing[c].of # p

\* It makes a call that takes no lock.
Runs(p) == p \in live /\ Idle(p) /\ ProcessorFree

\* An exit holds the machine lock, except when it is to close a file of the root file
\* system, and sleeps until it has its inode.
HoldsLock(p) ==
    /\ closing[p] # NotClosing
    /\ closing[p].next \in Fds => files[closing[p].of][closing[p].next] \notin RootFiles
LockedOut(p) == \E c \in Procs \ {p} : HoldsLock(c)
RunsLocked(p) == Runs(p) /\ ~LockedOut(p)

\* How many of these descriptors of the table are for f.
Times(table, fds, f) == Cardinality({fd \in fds : table[fd] = f})

\* Counts of the files in changed are written while another process is in a dup.
Races(p, changed) ==
    raced' = raced \cup {f \in changed : \E q \in Procs \ {p} : dup[q].file = f}

-----------------------------------------------------------------------------
\* ProcessFileTable::AddFile, for the descriptors of f: the lowest that is not in
\* use, or none, and what was counted for the descriptor stays counted.
Unused(table) == {fd \in Fds : table[fd] = NoFile}
Added(table, f) == IF Unused(table) = {} THEN table ELSE [table EXCEPT ![Min(Unused(table))] = f]
IsUnheld(table) == IF Unused(table) = {} THEN 1 ELSE 0

\* Open and Create, of a file of the root file system.
Open(p, n) ==
    LET f == RootFile(n) IN
    /\ RunsLocked(p) /\ f \notin made
    /\ made' = made \cup {f} /\ fileMap' = fileMap \cup {f}
    /\ count' = [count EXCEPT ![f] = 1]
    /\ files' = [files EXCEPT ![p] = Added(@, f)]
    /\ UNCHANGED <<live, deleted, exitVars, dup, unheld, raced>>

MakePipe(p, k) ==
    LET withReader == Added(files[p], Reader(k)) IN
    /\ RunsLocked(p) /\ Reader(k) \notin made
    /\ made' = made \cup {Reader(k), Writer(k)}
    /\ count' = [count EXCEPT ![Reader(k)] = 1, ![Writer(k)] = 1]
    /\ files' = [files EXCEPT ![p] = Added(withReader, Writer(k))]
    /\ unheld' = [unheld EXCEPT ![Reader(k)] = IsUnheld(files[p]),
                                ![Writer(k)] = IsUnheld(withReader)]
    /\ UNCHANGED <<live, deleted, fileMap, exitVars, dup, raced>>

\* ProcessFileTable::Dup. The count of a pipe end or file is read ...
StartDup(p, fd) ==
    LET f == files[p][fd] IN
    /\ Runs(p) /\ f \in Counted \ deleted
    /\ count[f] < MaxCount
    /\ dup' = [dup EXCEPT ![p] = [file |-> f, seen |-> count[f]]]
    /\ UNCHANGED <<live, files, count, made, deleted, fileMap, exitVars, unheld, raced>>

\* ... and written, and the descriptor is added.
EndDup(p) ==
    LET f == dup[p].file IN
    /\ dup[p] # NotInDup
    /\ dup' = [dup EXCEPT ![p] = NotInDup]
    /\ count' = [count EXCEPT ![f] = dup[p].seen + 1]
    /\ files' = [files EXCEPT ![p] = Added(@, f)]
    /\ unheld' = IF f \in PipeEnds
                 THEN [unheld EXCEPT ![f] = @ + IsUnheld(files[p])] ELSE unheld
    /\ Races(p, {f})
    /\ UNCHANGED <<live, made, deleted, fileMap, exitVars>>

\* The terminal is not counted.
DupTerminal(p, fd) ==
    /\ Runs(p) /\ files[p][fd] = Terminal
    /\ files' = [files EXCEPT ![p] = Added(@, Terminal)]
    /\ UNCHANGED <<live, count, made, deleted, fileMap, exitVars, dup, unheld, raced>>

\* CopyFrom, in Fork: the files that there are, shared, in a new table.
Copied(table) == [fd \in Fds |-> IF table[fd] = NoFile THEN NewTable[fd] ELSE table[fd]]
Shared_NotCounted(table) == count
Shared(table) == [f \in Counted |-> count[f] + Times(table, Fds, f)]

\* The child gets a new table: one that the exit of the last process in the slot has left
\* is gone, with the counts of what it did not close.
Fork(p, child) ==
    /\ RunsLocked(p) /\ child \notin live /\ Idle(child)
    /\ \A fd \in Fds : files[p][fd] \notin deleted
    /\ live' = live \cup {child}
    /\ files' = [files EXCEPT ![child] = Copied(files[p])]
    /\ count' = Shared(files[p])
    /\ \A f \in Counted : count'[f] <= MaxCount
    /\ closed' = [closed EXCEPT ![child] = {}]
    /\ unheld' = [e \in PipeEnds |->
                      unheld[e] + Times(files[child], Fds \ closed[child], e)]
    /\ Races(p, {f \in Counted : count'[f] # count[f]})
    /\ UNCHANGED <<made, deleted, fileMap, dup, closing, again>>

-----------------------------------------------------------------------------
\* What is deleted with a close of f: the file if it was the last, both ends of a pipe if
\* both counts are zero.
Gone_EachEnd(f) == {g \in fileMap \cup PipeEnds : g = f /\ count[f] = 1}
Gone(f) ==
    {g \in fileMap : g = f /\ count[f] = 1}
    \cup {e \in PipeEnds : /\ f \in {e, OtherEnd(e)}
                          /\ count[f] = 1 /\ count[OtherEnd(f)] = 0}

\* File::Close, by p: what follows from the use of a file that is deleted is undefined. A
\* file of the root file system is released the first time, when it is removed from the map.
Closes(p, f) ==
    LET counted == (PipeEnds \cup fileMap) \cap {f} IN
    /\ f \notin deleted
    /\ count' = [g \in Counted |-> IF g \in counted THEN count[g] - 1 ELSE count[g]]
    /\ deleted' = deleted \cup Gone(f)
    /\ fileMap' = fileMap \ {f}
    /\ Races(p, counted)

Close(p, fd) ==
    /\ RunsLocked(p) /\ files[p][fd] # NoFile
    /\ Closes(p, files[p][fd])
    /\ files' = [files EXCEPT ![p][fd] = NoFile]
    /\ UNCHANGED <<live, made, dup, exitVars, unheld>>

\* Process::Exit of q, up to CloseFiles: by q itself, or by p in Kill, which takes a dead
\* process too. To close a pipe end of a process that is on no processor is undefined.
Exit(p, q) ==
    /\ RunsLocked(p) /\ Idle(q)
    /\ \/ q = p
       \/ q \in live /\ (Processors > 1 \/ \A fd \in Fds : files[q][fd] \notin PipeEnds)
       \/ q \notin live /\ files[q] # NoFiles /\ \A e \in PipeEnds : again[e] < MaxAgain
    /\ live' = live \ {q}
    /\ closing' = [closing EXCEPT ![p] = [of |-> q, next |-> 0]]
    /\ UNCHANGED <<files, count, made, deleted, fileMap, dup, closed, unheld, again, raced>>

InExit(p) == closing[p] # NotClosing /\ ProcessorFree /\ ~LockedOut(p)

\* CloseFiles: one turn of its loop.
CloseNext(p) ==
    LET q == closing[p].of
        fd == closing[p].next
        f == files[q][fd]
    IN
    /\ fd \in Fds /\ InExit(p)
    /\ closing' = [closing EXCEPT ![p].next = @ + 1]
    /\ IF f = NoFile
       THEN UNCHANGED <<count, deleted, fileMap, closed, again, raced>>
       ELSE /\ Closes(p, f)
            /\ closed' = [closed EXCEPT ![q] = @ \cup {fd}]
            /\ again' = IF f \in PipeEnds /\ fd \in closed[q]
                        THEN [again EXCEPT ![f] = @ + 1] ELSE again
    /\ UNCHANGED <<live, files, made, dup, unheld>>

\* The close of a file of the root file system throws, and so does CloseFiles.
CloseFails(p) ==
    LET f == files[closing[p].of][closing[p].next] IN
    /\ closing[p].next \in Fds /\ InExit(p)
    /\ f \in RootFiles \ deleted
    /\ closing' = [closing EXCEPT ![p] = NotClosing]
    /\ UNCHANGED <<live, files, count, made, deleted, fileMap, dup, closed, unheld, again, raced>>

\* The end of CloseFiles clears the table.
ClosedAll(p) ==
    LET q == closing[p].of IN
    /\ closing[p].next = MaxOpenFiles /\ InExit(p)
    /\ closing' = [closing EXCEPT ![p] = NotClosing]
    /\ files' = [files EXCEPT ![q] = NoFiles]
    /\ closed' = [closed EXCEPT ![q] = {}]
    /\ UNCHANGED <<live, count, made, deleted, fileMap, dup, unheld, again, raced>>

Next ==
    \E p \in Procs :
        \/ \E n \in Opens : Open(p, n)
        \/ \E k \in Pipes : MakePipe(p, k)
        \/ \E fd \in Fds : StartDup(p, fd) \/ DupTerminal(p, fd) \/ Close(p, fd)
        \/ EndDup(p)
        \/ \E q \in Procs : Fork(p, q) \/ Exit(p, q)
        \/ CloseNext(p) \/ CloseFails(p) \/ ClosedAll(p)

Spec == Init /\ [][Next]_vars

-----------------------------------------------------------------------------
(* Properties.                                                             *)

\* The descriptors for f, but those that an exit has closed already.
Descriptors(f) ==
    Cardinality({x \in Procs \X Fds : files[x[1]][x[2]] = f /\ x[2] \notin closed[x[1]]})

\* The count of a pipe end is the number of descriptors that processes have for it, and
\* of those that a full table refused or an exit that failed left behind, less those that
\* were closed again when the process was killed again, unless a dup on another processor
\* lost a change; and, but for descriptors closed again, there is a pipe as long as one of
\* its counts is not zero. With it, end of file and "no readers" come exactly when the last
\* descriptor is closed.
PipeEndsAgree ==
    \A e \in PipeEnds \cap made :
        {e, OtherEnd(e)} \cap raced = {} =>
            /\ count[e] = Descriptors(e) + unheld[e] - again[e]
            /\ again[e] = 0 /\ again[OtherEnd(e)] = 0 =>
                   (e \in deleted <=> count[e] = 0 /\ count[OtherEnd(e)] = 0)

\* Whatever processes fork, dup, close and exit, and wherever an exit fails, no descriptor
\* that is to be closed is left for a file or a pipe that has been deleted, unless a dup
\* lost a change of its count, or a process killed again closed the same end again.
NoDangling ==
    \A p \in Procs : \A fd \in Fds \ closed[p] :
        files[p][fd] \in deleted =>
            \/ files[p][fd] \in raced
            \/ /\ files[p][fd] \in PipeEnds
               /\ \/ OtherEnd(files[p][fd]) \in raced
                  \/ again[files[p][fd]] > 0 \/ again[OtherEnd(files[p][fd])] > 0
=============================================================================
