------------------------------- MODULE MsgQueue -------------------------------
(***************************************************************************)
(* The message queues of the System X kernel and the alarms of its clock   *)
(* that put messages on them:                                              *)
(*                                                                         *)
(*   system-x/kernel/msg_queue.cpp   MsgQ, CloseMsgQ, WaitMsg, PutMsg,     *)
(*                                   GetMsg, ProcessMessageQueues          *)
(*   system-x/kernel/clock.cpp       Schedule, Tick                        *)
(*                                                                         *)
(* The machine has one processor, which is the default of its              *)
(* configuration, and a clock thread. The processor is in one system call  *)
(* at a time, until that sleeps; but of the calls only WaitMsg, PutMsg,    *)
(* Wakeup and Exit take the machine lock, so the others run while the      *)
(* clock thread is in the middle of Tick, which holds it.                  *)
(*                                                                         *)
(* A message is abstracted to its place in the length of its queue.        *)
(***************************************************************************)
EXTENDS Integers, FiniteSets

CONSTANTS
    Procs,
    Names,      \* the names of queues
    MaxQueues,  \* a bound: the descriptors given out, which are never reused
    MaxOpens,   \* a bound: how often a process has a queue open
    MaxMsgs,    \* a bound: the messages on a queue and in alarms for it
    NoName

ASSUME QueueAssumption ==
    /\ IsFiniteSet(Procs)
    /\ NoName \notin Names
    /\ {MaxQueues, MaxMsgs} \subseteq Nat
    /\ MaxOpens \in Nat \ {0}

Descriptors == 0 .. MaxQueues - 1
NoQueue == -1

VARIABLES
    queueMap,   \* MsgQueues::queueMap
    created,    \* the size of MsgQueues::queues
    name,       \* of each queue; NoName when its pointer has been reset
    referenceCount,
    foreign,    \* of each queue: how often a process closed it that did not have it open
    length,     \* of the list of messages
    mds,        \* how often a process has a descriptor in its list of open queues
    pc,         \* what a process does
    target,     \* the descriptor of its call under way
    result,     \* what its last WaitMsg returned
    alarms,     \* how many messages the alarms hold for each descriptor
    putting,    \* the descriptor that Tick has looked up; NoQueue outside
    terminated  \* an exception has left the clock thread

queueVars == <<queueMap, created, name, referenceCount, foreign, length>>
procVars == <<mds, pc, target, result>>
clockVars == <<alarms, putting, terminated>>
vars == <<queueVars, procVars, clockVars>>

TypeOK ==
    /\ queueMap \in [Names -> Descriptors \cup {NoQueue}]
    /\ created \in 0 .. MaxQueues
    /\ name \in [Descriptors -> Names \cup {NoName}]
    /\ referenceCount \in [Descriptors -> Nat]
    /\ foreign \in [Descriptors -> Nat]
    /\ length \in [Descriptors -> 0 .. MaxMsgs]
    /\ mds \in [Procs -> [Descriptors -> 0 .. MaxOpens]]
    /\ pc \in [Procs -> {"run", "asleep", "woken", "deleting", "dead"}]
    /\ target \in [Procs -> Descriptors \cup {NoQueue}]
    /\ result \in [Procs -> {0, -1}]
    /\ alarms \in [Descriptors -> 0 .. MaxMsgs]
    /\ putting \in Descriptors \cup {NoQueue}
    /\ terminated \in BOOLEAN

Init ==
    /\ queueMap = [n \in Names |-> NoQueue]
    /\ created = 0
    /\ name = [md \in Descriptors |-> NoName]
    /\ referenceCount = [md \in Descriptors |-> 0]
    /\ foreign = [md \in Descriptors |-> 0]
    /\ length = [md \in Descriptors |-> 0]
    /\ mds = [p \in Procs |-> [md \in Descriptors |-> 0]]
    /\ pc = [p \in Procs |-> "run"]
    /\ target = [p \in Procs |-> NoQueue]
    /\ result = [p \in Procs |-> 0]
    /\ alarms = [md \in Descriptors |-> 0]
    /\ putting = NoQueue
    /\ terminated = FALSE

IsOpen(md) == name[md] # NoName

\* The processor is free for a call of p; the clock thread has not the lock.
Runs(p) == pc[p] = "run" /\ \A q \in Procs : pc[q] # "deleting"
LockFree == putting = NoQueue

\* Wakeup(msgQEvent(md)).
Woken(S) == [p \in Procs |-> IF pc[p] = "asleep" /\ target[p] \in S
                             THEN "woken" ELSE pc[p]]

-----------------------------------------------------------------------------
\* MsgQ: opens the queue of a name or creates it.
Opens(p, md) == mds' = [mds EXCEPT ![p][md] = @ + 1]

OpenExisting(p, n) ==
    LET md == queueMap[n] IN
    /\ Runs(p) /\ md # NoQueue
    /\ mds[p][md] < MaxOpens
    /\ referenceCount' = [referenceCount EXCEPT ![md] = @ + 1]
    /\ Opens(p, md)
    /\ UNCHANGED <<queueMap, created, name, foreign, length, pc, target, result, clockVars>>

Create(p, n) ==
    /\ Runs(p) /\ queueMap[n] = NoQueue
    /\ created < MaxQueues
    /\ created' = created + 1
    /\ queueMap' = [queueMap EXCEPT ![n] = created]
    /\ name' = [name EXCEPT ![created] = n]
    /\ referenceCount' = [referenceCount EXCEPT ![created] = 1]
    /\ Opens(p, created)
    /\ UNCHANGED <<foreign, length, pc, target, result, clockVars>>

\* MsgQueues::Delete up to the wake-up, for the descriptors in S.
Delete_NameKept(S) ==
    /\ name' = [md \in Descriptors |-> IF md \in S THEN NoName ELSE name[md]]
    /\ length' = [md \in Descriptors |-> IF md \in S THEN 0 ELSE length[md]]
    /\ UNCHANGED queueMap
Delete(S) ==
    /\ queueMap' = [n \in Names |-> IF queueMap[n] \in S THEN NoQueue ELSE queueMap[n]]
    /\ name' = [md \in Descriptors |-> IF md \in S THEN NoName ELSE name[md]]
    /\ length' = [md \in Descriptors |-> IF md \in S THEN 0 ELSE length[md]]

\* CloseMsgQ, which takes any descriptor of an open queue, also from a process that
\* does not have it open: RemoveMessageQueue finds nothing then, and the count goes down
\* all the same. The last close deletes the queue without the lock, then waits for it
\* to wake up the sleepers.
CloseMsgQ(p, md) ==
    /\ Runs(p) /\ IsOpen(md)
    /\ foreign' = [foreign EXCEPT ![md] = IF mds[p][md] = 0 THEN @ + 1 ELSE @]
    /\ mds' = [mds EXCEPT ![p][md] = IF @ = 0 THEN 0 ELSE @ - 1]
    /\ referenceCount' = [referenceCount EXCEPT ![md] = @ - 1]
    /\ IF referenceCount[md] = 1
       THEN /\ Delete({md})
            /\ pc' = [pc EXCEPT ![p] = "deleting"]
            /\ target' = [target EXCEPT ![p] = md]
       ELSE UNCHANGED <<queueMap, name, length, pc, target>>
    /\ UNCHANGED <<created, result, clockVars>>

DeleteWakes_Nobody(p) ==
    /\ pc[p] = "deleting" /\ LockFree
    /\ pc' = [pc EXCEPT ![p] = "run"]
    /\ target' = [target EXCEPT ![p] = NoQueue]
    /\ UNCHANGED <<queueVars, mds, result, clockVars>>
DeleteWakes(p) ==
    /\ pc[p] = "deleting" /\ LockFree
    /\ pc' = [Woken({target[p]}) EXCEPT ![p] = "run"]
    /\ target' = [target EXCEPT ![p] = NoQueue]
    /\ UNCHANGED <<queueVars, mds, result, clockVars>>

-----------------------------------------------------------------------------
\* WaitMsg: an error for a queue that is not open.
Returns(p, value) == result' = [result EXCEPT ![p] = value]

WaitReturns(p, md) ==
    /\ Runs(p) /\ LockFree
    /\ \/ ~IsOpen(md) /\ Returns(p, -1)
       \/ IsOpen(md) /\ length[md] > 0 /\ Returns(p, 0)
    /\ UNCHANGED <<queueVars, mds, pc, target, clockVars>>

WaitSleeps(p, md) ==
    /\ Runs(p) /\ LockFree
    /\ IsOpen(md) /\ length[md] = 0
    /\ pc' = [pc EXCEPT ![p] = "asleep"]
    /\ target' = [target EXCEPT ![p] = md]
    /\ UNCHANGED <<queueVars, mds, result, clockVars>>

\* After the sleep it looks whether the queue is open, not whether it is empty.
WaitResumes(p) ==
    /\ pc[p] = "woken" /\ \A q \in Procs : pc[q] # "deleting"
    /\ Returns(p, IF IsOpen(target[p]) THEN 0 ELSE -1)
    /\ pc' = [pc EXCEPT ![p] = "run"]
    /\ target' = [target EXCEPT ![p] = NoQueue]
    /\ UNCHANGED <<queueVars, mds, clockVars>>

\* A message at the end of the queue, and everyone who waits for it wakes up.
Put_NoWakeup(md) ==
    /\ length' = [length EXCEPT ![md] = @ + 1]
    /\ UNCHANGED pc
Put(md) ==
    /\ length' = [length EXCEPT ![md] = @ + 1]
    /\ pc' = Woken({md})

Room(md) == length[md] + alarms[md] + (IF putting = md THEN 1 ELSE 0) < MaxMsgs

PutMsg(p, md) ==
    /\ Runs(p) /\ LockFree
    /\ IsOpen(md) /\ Room(md)
    /\ Put(md)
    /\ UNCHANGED <<queueMap, created, name, referenceCount, foreign, mds, target, result,
                   clockVars>>

GetMsg(p, md) ==
    /\ Runs(p)
    /\ IsOpen(md) /\ length[md] > 0
    /\ length' = [length EXCEPT ![md] = @ - 1]
    /\ UNCHANGED <<queueMap, created, name, referenceCount, foreign, procVars, clockVars>>

-----------------------------------------------------------------------------
\* Clock::Schedule, of a message for any descriptor.
ScheduleMsg(p, md) ==
    /\ Runs(p) /\ LockFree
    /\ Room(md)
    /\ alarms' = [alarms EXCEPT ![md] = @ + 1]
    /\ UNCHANGED <<queueVars, procVars, putting, terminated>>

\* Clock::Tick takes an alarm that is due, and drops the message if the queue is
\* not open.
TickTakes(md) ==
    /\ LockFree
    /\ alarms[md] > 0
    /\ alarms' = [alarms EXCEPT ![md] = @ - 1]
    /\ putting' = IF IsOpen(md) THEN md ELSE NoQueue
    /\ UNCHANGED <<queueVars, procVars, terminated>>

\* PutMsg by Tick looks the queue up again, and throws if it is closed by now.
TickPuts ==
    /\ putting # NoQueue
    /\ putting' = NoQueue
    /\ IF IsOpen(putting)
       THEN Put(putting) /\ UNCHANGED terminated
       ELSE terminated' = TRUE /\ UNCHANGED <<length, pc>>
    /\ UNCHANGED <<queueMap, created, name, referenceCount, foreign, mds, target, result, alarms>>

-----------------------------------------------------------------------------
\* ProcessMessageQueues::CloseAll closes each entry of the list whose queue is
\* still open.
Remaining_ClosedOnce(p, md) ==
    IF mds[p][md] = 0 \/ referenceCount[md] = 0 THEN referenceCount[md]
    ELSE referenceCount[md] - 1
Remaining_Unchecked(p, md) == referenceCount[md] - mds[p][md]
Remaining(p, md) ==
    IF mds[p][md] < referenceCount[md] THEN referenceCount[md] - mds[p][md] ELSE 0

\* Process::Exit, under the lock.
Exit(p) ==
    LET last == {md \in Descriptors : IsOpen(md) /\ Remaining(p, md) = 0} IN
    /\ Runs(p) /\ LockFree
    /\ referenceCount' = [md \in Descriptors |-> Remaining(p, md)]
    /\ Delete(last)
    /\ pc' = [Woken(last) EXCEPT ![p] = "dead"]
    /\ mds' = [mds EXCEPT ![p] = [md \in Descriptors |-> 0]]
    /\ UNCHANGED <<created, foreign, target, result, clockVars>>

\* A process that fork makes has no queue open.
Start(p) ==
    /\ pc[p] = "dead" /\ \E q \in Procs : Runs(q)
    /\ pc' = [pc EXCEPT ![p] = "run"]
    /\ UNCHANGED <<queueVars, mds, target, result, clockVars>>

Next ==
    /\ ~terminated
    /\ \/ \E p \in Procs :
            \/ \E n \in Names : OpenExisting(p, n) \/ Create(p, n)
            \/ \E md \in Descriptors :
                \/ CloseMsgQ(p, md)
                \/ WaitReturns(p, md) \/ WaitSleeps(p, md)
                \/ PutMsg(p, md) \/ GetMsg(p, md) \/ ScheduleMsg(p, md)
            \/ DeleteWakes(p) \/ WaitResumes(p) \/ Exit(p) \/ Start(p)
       \/ \E md \in Descriptors : TickTakes(md)
       \/ TickPuts

Spec == Init /\ [][Next]_vars

\* The clock ticks for ever and comes to every alarm, and a call that waits for
\* the lock gets it. What programs call is not fair.
FairSpec ==
    /\ Spec
    /\ \A md \in Descriptors : SF_vars(~terminated /\ TickTakes(md))
    /\ WF_vars(~terminated /\ TickPuts)
    /\ \A p \in Procs : WF_vars(~terminated /\ DeleteWakes(p))

-----------------------------------------------------------------------------
(* Properties.                                                             *)

\* The two tables agree: a name is mapped to the open queue of that name, and an
\* open queue is found under its name, and no other.
NamesAgree ==
    \A md \in Descriptors, n \in Names : queueMap[n] = md <=> name[md] = n

\* The entries for a descriptor in the lists of the processes.
Opened(md) == {o \in Procs \X (1 .. MaxOpens) : o[2] <= mds[o[1]][md]}

\* The count of an open queue is what its openers have left to close, less the closes of
\* others, and is not zero: however often a process opened it before it exits, every
\* entry is closed once, so that nothing leaks, and nothing but a foreign close makes a
\* queue go while a process still has it open.
OpenMeansHeld ==
    \A md \in Descriptors : IsOpen(md) =>
        /\ referenceCount[md] > 0
        /\ referenceCount[md] + foreign[md] = Cardinality(Opened(md))

\* No lost wakeup: a process sleeps on an open, empty queue, or whoever deletes
\* the queue is about to wake it up. It never sleeps on a descriptor that is gone.
SleepersHaveReason ==
    \A p \in Procs : pc[p] = "asleep" =>
        \/ IsOpen(target[p]) /\ length[target[p]] = 0
        \/ \E q \in Procs : pc[q] = "deleting" /\ target[q] = target[p]

\* A process that waits for a message of an alarm does not wait for ever: the
\* alarm, or the deletion of the queue, wakes it up.
AlarmWakes ==
    \A p \in Procs, md \in Descriptors :
        (pc[p] = "asleep" /\ target[p] = md /\ alarms[md] > 0)
            ~> (pc[p] # "asleep" \/ terminated)
=============================================================================
