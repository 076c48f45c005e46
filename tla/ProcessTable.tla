---------------------------- MODULE ProcessTable ----------------------------
(***************************************************************************)
(* The process table of the System X kernel and the life of a process in   *)
(* it: fork takes a slot, exit and kill make a zombie, wait collects the   *)
(* zombies among the children, and only fork ever clears a slot: that of a *)
(* zombie that it meets, collected or not.                                 *)
(*                                                                         *)
(*   system-x/kernel/process_manager.cpp  CreateProcess, DeleteProcess,    *)
(*                                        WaitForProcessesExit             *)
(*   system-x/kernel/process.cpp          Fork, Wait, Exit, Kill           *)
(*   util/intrusive_list.cppm             the tree of parents and children *)
(*                                                                         *)
(* Each call runs under the machine lock, which Sleep releases: an action  *)
(* is a call, or its part up to or after the sleep. A process is killed    *)
(* only while it sleeps or when it is a zombie; what another processor     *)
(* does with a process that is killed while it runs is in Scheduling.      *)
(***************************************************************************)
EXTENDS Integers, Sequences, FiniteSets, SequencesExt

CONSTANTS
    MaxProcs,   \* the size of the table
    WaitIds,    \* the arguments of wait: -1 for any child, or pids
    Killers,    \* the processes whose programs kill others
    MaxFailed   \* how many kills fail half-way: a bound of the model

Pids == 1 .. MaxProcs
NoPid == 0
AnyChild == -1

ASSUME TableAssumption ==
    /\ MaxProcs \in Nat \ {0}
    /\ WaitIds \subseteq Pids \cup {AnyChild}
    /\ Killers \subseteq Pids
    /\ MaxFailed \in Nat

VARIABLES
    slot,           \* processTable, with the part of Process::state that matters
    nextProcessId,
    numRunnable,    \* numRunnableProcesses
    children,       \* the child lists of the intrusive tree
    parent,         \* the parent pointers
    orphaned,       \* the processes whose parent pointer is to a deleted one
    pc,             \* what a live process does
    waitFor,        \* the argument of its wait
    result,         \* what its last fork or wait returned
    collected,      \* how often an exit of the process in a slot was returned
    missed,         \* the sleepers that were not told of the exit of a child
    failedKills     \* how many exits were cut short

treeVars == <<children, parent, orphaned>>
callVars == <<pc, waitFor, result>>
failVars == <<missed, failedKills>>
vars == <<slot, nextProcessId, numRunnable, treeVars, callVars, collected, failVars>>

\* -1 with this error code.
ENOCHILD == -1
ELIMITEXCEEDED == -2
NoResult == 0
Outcome == {NoResult, ENOCHILD, ELIMITEXCEEDED} \cup Pids

TypeOK ==
    /\ slot \in [Pids -> {"free", "live", "zombie"}]
    /\ nextProcessId \in 1 .. MaxProcs + 1
    /\ numRunnable \in Int
    /\ children \in [Pids -> Seq(Pids)]
    /\ parent \in [Pids -> Pids \cup {NoPid}]
    /\ orphaned \subseteq Pids
    /\ pc \in [Pids -> {"run", "wait", "asleep", "woken"}]
    /\ waitFor \in [Pids -> WaitIds \cup {AnyChild}]
    /\ result \in [Pids -> Outcome]
    /\ collected \in [Pids -> Nat]
    /\ missed \subseteq Pids
    /\ failedKills \in 0 .. MaxFailed

\* The first program has been loaded, in slot 1.
Init ==
    /\ slot = [p \in Pids |-> IF p = 1 THEN "live" ELSE "free"]
    /\ nextProcessId = 2
    /\ numRunnable = 1
    /\ children = [p \in Pids |-> <<>>]
    /\ parent = [p \in Pids |-> NoPid]
    /\ orphaned = {}
    /\ pc = [p \in Pids |-> "run"]
    /\ waitFor = [p \in Pids |-> AnyChild]
    /\ result = [p \in Pids |-> NoResult]
    /\ collected = [p \in Pids |-> 0]
    /\ missed = {} /\ failedKills = 0

Running(p) == slot[p] = "live" /\ pc[p] = "run"
Returns(p, r) == result' = [result EXCEPT ![p] = r]

-----------------------------------------------------------------------------
\* CreateProcess scans upwards from nextProcessId for a slot that is free or a
\* zombie's, and does not go round.
ScanStart == IF nextProcessId > MaxProcs THEN 1 ELSE nextProcessId
Scanned_AnySlot == ScanStart .. MaxProcs
Scanned == {q \in ScanStart .. MaxProcs : slot[q] # "live"}
IdAfter_Modulo(q) == (q + 1) % (MaxProcs + 1)
IdAfter(q) == q + 1

\* RemoveFromParent(q), for a list of children. The parent pointer of an orphan
\* is to freed memory; an abstraction: removing it there changes no live list.
Without_StillLinked(q) == children
Without(q) ==
    [p \in Pids |-> IF parent[q] = p /\ q \notin orphaned
                    THEN RemoveFirst(children[p], q)
                    ELSE children[p]]

\* DeleteProcess of the zombie in slot q, if any, and Fork of the child q: its
\* own children keep a pointer to the process that is gone.
Fork(p) ==
    /\ Running(p)
    /\ \E q \in Scanned :
        /\ \A r \in Scanned : q <= r
        /\ nextProcessId' = IdAfter(q)
        /\ slot' = [slot EXCEPT ![q] = "live"]
        /\ children' = [Without(q) EXCEPT ![q] = <<>>, ![p] = Append(@, q)]
        /\ orphaned' = (orphaned \cup {r \in Pids : parent[r] = q}) \ {q}
        /\ parent' = [parent EXCEPT ![q] = p]
        /\ numRunnable' = numRunnable + 1
        /\ pc' = [pc EXCEPT ![q] = "run"]
        /\ waitFor' = [waitFor EXCEPT ![q] = AnyChild]
        /\ result' = [result EXCEPT ![p] = q, ![q] = NoResult]
        /\ collected' = [collected EXCEPT ![q] = 0]
        /\ missed' = missed \ {q}
        /\ UNCHANGED failedKills

\* CreateProcess throws ELIMITEXCEEDED.
ForkFails(p) ==
    /\ Running(p)
    /\ Scanned = {}
    /\ nextProcessId' = MaxProcs + 1
    /\ Returns(p, ELIMITEXCEEDED)
    /\ UNCHANGED <<slot, numRunnable, treeVars, pc, waitFor, collected, failVars>>

-----------------------------------------------------------------------------
CallWait(p) ==
    /\ Running(p)
    /\ \E id \in WaitIds : waitFor' = [waitFor EXCEPT ![p] = id]
    /\ pc' = [pc EXCEPT ![p] = "wait"]
    /\ Returns(p, NoResult)
    /\ UNCHANGED <<slot, nextProcessId, numRunnable, treeVars, collected, failVars>>

Zombies(p) == {q \in ToSet(children[p]) : slot[q] = "zombie"}
Matching(p) == {q \in Zombies(p) : waitFor[p] \in {AnyChild, q}}
Before(p, q, r) ==
    \E i, j \in DOMAIN children[p] : children[p][i] = q /\ children[p][j] = r /\ i <= j
FirstMatching(p, q) ==
    /\ q \in Matching(p)
    /\ \A r \in Matching(p) : Before(p, q, r)

Collect_StaysChild(p, q) ==
    /\ Returns(p, q)
    /\ pc' = [pc EXCEPT ![p] = "run"]
    /\ collected' = [collected EXCEPT ![q] = @ + 1]
    /\ UNCHANGED <<slot, nextProcessId, numRunnable, treeVars, waitFor, failVars>>

\* Wait returns the child q, which leaves the list of children. Its slot remains
\* a zombie's.
Collect(p, q) ==
    /\ children' = Without(q)
    /\ parent' = [parent EXCEPT ![q] = NoPid]
    /\ Returns(p, q)
    /\ pc' = [pc EXCEPT ![p] = "run"]
    /\ collected' = [collected EXCEPT ![q] = @ + 1]
    /\ UNCHANGED <<slot, nextProcessId, numRunnable, orphaned, waitFor, failVars>>

NoChild(p) ==
    /\ Returns(p, ENOCHILD)
    /\ pc' = [pc EXCEPT ![p] = "run"]
    /\ UNCHANGED <<slot, nextProcessId, numRunnable, treeVars, waitFor, collected, failVars>>

MustSleep_NoScan(p) == children[p] # <<>>
MustSleep(p) == Matching(p) = {} /\ children[p] # <<>>

\* The first half of a turn of the loop of Wait, up to the sleep; without
\* children the second half follows at once.
WaitScan(p) ==
    /\ slot[p] = "live" /\ pc[p] = "wait"
    /\ \/ \E q \in Pids : ~MustSleep(p) /\ FirstMatching(p, q) /\ Collect(p, q)
       \/ /\ MustSleep(p)
          /\ pc' = [pc EXCEPT ![p] = "asleep"]
          /\ UNCHANGED <<slot, nextProcessId, numRunnable, treeVars, waitFor,
                         result, collected, failVars>>
       \/ children[p] = <<>> /\ NoChild(p)

\* The second half, after the sleep: once more round only for one pid, and only
\* if some other child is a zombie.
WaitWoken(p) ==
    /\ slot[p] = "live" /\ pc[p] = "woken"
    /\ \/ \E q \in Pids : FirstMatching(p, q) /\ Collect(p, q)
       \/ /\ Matching(p) = {}
          /\ waitFor[p] # AnyChild /\ Zombies(p) # {}
          /\ pc' = [pc EXCEPT ![p] = "wait"]
          /\ UNCHANGED <<slot, nextProcessId, numRunnable, treeVars, waitFor,
                         result, collected, failVars>>
       \/ /\ Matching(p) = {}
          /\ waitFor[p] = AnyChild \/ Zombies(p) = {}
          /\ NoChild(p)

-----------------------------------------------------------------------------
\* Whose childExitEvent an exit wakes up: that of the parent; through the pointer
\* of an orphan, that of whatever id the freed memory holds.
Notifies(p) ==
    IF p \in orphaned THEN Pids \cup {NoPid} ELSE {parent[p]}

Woken(w) ==
    [q \in Pids |-> IF q = w /\ slot[q] = "live" /\ pc[q] = "asleep"
                    THEN "woken" ELSE pc[q]]

\* Process::Exit. An abstraction: closing the files does not sleep.
Exit(p) ==
    /\ slot' = [slot EXCEPT ![p] = "zombie"]
    /\ numRunnable' = numRunnable - 1
    /\ \E w \in Notifies(p) : pc' = Woken(w) /\ missed' = missed \ {w}
    /\ Returns(p, NoResult)
    /\ UNCHANGED <<nextProcessId, treeVars, waitFor, collected, failedKills>>

CallExit(p) == Running(p) /\ Exit(p)

\* Kill, by a process that may (root, or an ancestor).
CallKill(p, q) ==
    /\ p \in Killers /\ Running(p)
    /\ q # p
    /\ slot[q] = "zombie" \/ (slot[q] = "live" /\ pc[q] = "asleep")
    /\ numRunnable > 0   \* a bound: the machine stops when it is zero
    /\ Exit(q)

Sleepers(q) == {r \in Pids : parent[q] = r /\ q \notin orphaned /\ pc[r] = "asleep"}

\* Exit of a process that is killed, when closing one of its files throws. It is a
\* zombie by then, but its parent is not woken and it is not counted out: the trap of
\* the killer returns the error. (Of a process that is a zombie before, such a kill
\* changes nothing here.)
KillFails(p, q) ==
    /\ p \in Killers /\ Running(p)
    /\ q # p /\ slot[q] = "live" /\ pc[q] = "asleep"
    /\ failedKills < MaxFailed
    /\ slot' = [slot EXCEPT ![q] = "zombie"]
    /\ missed' = missed \cup Sleepers(q)
    /\ failedKills' = failedKills + 1
    /\ UNCHANGED <<nextProcessId, numRunnable, treeVars, callVars, collected>>

Next ==
    \E p \in Pids :
        \/ Fork(p) \/ ForkFails(p)
        \/ CallWait(p) \/ WaitScan(p) \/ WaitWoken(p)
        \/ CallExit(p)
        \/ \E q \in Pids : CallKill(p, q) \/ KillFails(p, q)

Spec == Init /\ [][Next]_vars

-----------------------------------------------------------------------------
(* Properties.                                                             *)

\* Child lists and parent pointers agree, whatever the order of forks, exits and
\* reuses of slots: a process is on the list of the parent it points to, once,
\* and on no other; a live process is on a list unless its parent is gone.
TreeConsistent ==
    \A p, q \in Pids :
        /\ q \in ToSet(children[p]) <=> parent[q] = p /\ q \notin orphaned
        /\ IsInjective(children[p])
        /\ slot[p] = "free" => children[p] = <<>> /\ parent[p] = NoPid

\* No exit is reported twice, and none is reported while the process lives.
ReportedOnce ==
    \A p \in Pids :
        /\ collected[p] <= 1
        /\ collected[p] = 1 => slot[p] = "zombie" /\ parent[p] = NoPid

\* A process that sleeps in wait for any child has a child that lives, and whose
\* exit will wake it up: it does not sleep over zombies, and no exit of a child
\* goes by while it falls asleep. Only an exit that was cut short leaves it asleep.
WaiterHasLiveChild ==
    \A p \in Pids \ missed : slot[p] = "live" /\ pc[p] = "asleep" /\ waitFor[p] = AnyChild =>
        \E q \in Pids : parent[q] = p /\ q \notin orphaned /\ slot[q] = "live"

\* The machine does not outlive its processes: the count that WaitForProcessesExit
\* waits to be zero is never above the number of live processes, but for the exits
\* that were cut short. (It can be below, as a kill of a zombie counts it out again.)
LiveCounted == numRunnable <= Cardinality({p \in Pids : slot[p] = "live"}) + failedKills
=============================================================================
