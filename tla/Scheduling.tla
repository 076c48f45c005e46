----------------------------- MODULE Scheduling -----------------------------
(***************************************************************************)
(* Processors, the scheduler, process kernel fibers and event sleep/wakeup *)
(* of the System X virtual machine:                                        *)
(*                                                                         *)
(*   system-x/machine/processor.cpp      Processor::Run, RunKernel         *)
(*   system-x/machine/process.cpp        UserProcess sleep and wakeup      *)
(*   system-x/kernel/process.cpp         kernel side of a process          *)
(*   system-x/kernel/scheduler.cpp       the run queue, the clock handler  *)
(*   system-x/kernel/event_manager.cpp   SleepOn, Sleep, Wakeup            *)
(*   system-x/kernel/trap.cpp            the software interrupt handler    *)
(*                                                                         *)
(* A processor is a host thread. It executes a process in user mode until  *)
(* an interrupt, then switches to the kernel fiber of the process, which   *)
(* runs the interrupt handler and switches back to the main fiber of the   *)
(* processor. A handler that sleeps leaves its fiber suspended in the      *)
(* middle; after a wakeup the processor the fiber slept on switches to it  *)
(* again. All of the code takes one recursive mutex, the machine lock, so  *)
(* one action below is one region between taking and releasing that lock,  *)
(* with the thread-local code that follows it.                             *)
(*                                                                         *)
(* What a register file holds is abstracted to whose registers they are,   *)
(* which program image they belong to (a parity that exec flips) and AX (a *)
(* parity that a user mode slice that ends in a clock interrupt flips, and *)
(* that the result of a trap flips).                                       *)
(***************************************************************************)
EXTENDS Naturals, Sequences, FiniteSets

CONSTANTS
    CPUs,       \* the processors (host threads)
    Procs,      \* the process table slots
    InitProcs,  \* the processes loaded before the machine starts
    Events,     \* what processes sleep on
    Traps,      \* what the traps that the programs execute do
    NoCpu,
    NoProc

ASSUME CpusAssumption == CPUs # {} /\ NoCpu \notin CPUs
ASSUME ProcsAssumption ==
    /\ NoProc \notin Procs
    /\ InitProcs \subseteq Procs
ASSUME TrapsAssumption ==
    Traps \subseteq {"sleep", "wakeup", "fork", "exec", "exit", "kill"}
ASSUME FiniteProcs == IsFiniteSet(Procs)

VARIABLES
    \* one per processor
    cpc,             \* where the thread is in Processor::Run
    cproc,           \* the local variable (kernelProcess or process) of Run
    current,         \* Processor::currentProcess
    kernelQ,         \* Processor::runnableKernelProcesses
    regs,            \* Processor::registers
    fiberOf,         \* whose kernel fiber the thread executes
    \* one per process
    state,           \* Process::state
    processor,       \* Process::processor
    kernelProcessor, \* Process::kernelProcessor
    mainFiber,       \* Process::mainFiber, named by the thread it belongs to
    handler,         \* Process::interruptHandler
    inKernel,        \* Process::inKernel
    saveContext,     \* Process::saveContext
    context,         \* the registers saved in the memory of the process, Freed
                     \* when it has no memory (Process::rv is -1)
    regAX,           \* Process::regAX, which is forgotten (0) when it has been used
    useRegAX,        \* Process::useRegAX
    fpc,             \* where the kernel fiber is in RunKernel
    frame,           \* the locals of that fiber
    \* shared
    queue,           \* Scheduler::runnableProcesses
    sleeping,        \* EventManager::sleepingProcesses
    \* what the registers of a process should be; the code has no such state
    image,           \* the parity of its execs
    ax               \* what its last slice or trap left in AX

cpuVars   == <<cpc, cproc, current, kernelQ, regs, fiberOf>>
procVars  == <<state, processor, kernelProcessor, mainFiber, handler, inKernel,
               saveContext, context, regAX, useRegAX>>
fiberVars == <<fpc, frame>>
ghostVars == <<image, ax>>
vars == <<cpuVars, procVars, fiberVars, queue, sleeping, ghostVars>>

Bit == {0, 1}
Handlers == {"none", "clock", "software"}
ProcessState == {"created", "asleep", "runnableInUser", "runnableInKernel",
                 "running", "runningKernel", "exec", "zombie"}
CpuPc == {"poll", "sched", "blocked", "kresume", "kenter", "prepare", "uwait",
          "urun", "user", "ienter", "fiber", "left", "wrongFiber", "ended"}
FiberPc == {"none", "top", "guard", "handle", "release", "asleep", "awake",
            "done", "unguard", "finish", "leave"}
Registers == [owner : Procs \cup {NoProc}, image : Bit, ax : Bit]
Frame == [processor : CPUs \cup {NoCpu}, main : CPUs \cup {NoCpu},
          handler : Handlers, prev : ProcessState]

ZeroRegisters_Garbage(p) == [owner |-> p, image |-> 0, ax |-> 2]
ZeroRegisters(p) == [owner |-> p, image |-> 0, ax |-> 0]
Freed == ZeroRegisters(NoProc)
EmptyFrame == [processor |-> NoCpu, main |-> NoCpu, handler |-> "none",
               prev |-> "created"]

TypeOK ==
    /\ cpc \in [CPUs -> CpuPc]
    /\ cproc \in [CPUs -> Procs \cup {NoProc}]
    /\ current \in [CPUs -> Procs \cup {NoProc}]
    /\ kernelQ \in [CPUs -> Seq(Procs)]
    /\ regs \in [CPUs -> Registers]
    /\ fiberOf \in [CPUs -> Procs \cup {NoProc}]
    /\ state \in [Procs -> ProcessState]
    /\ processor \in [Procs -> CPUs \cup {NoCpu}]
    /\ kernelProcessor \in [Procs -> CPUs \cup {NoCpu}]
    /\ mainFiber \in [Procs -> CPUs \cup {NoCpu}]
    /\ handler \in [Procs -> Handlers]
    /\ inKernel \in [Procs -> BOOLEAN]
    /\ saveContext \in [Procs -> BOOLEAN]
    /\ context \in [Procs -> Registers]
    /\ regAX \in [Procs -> Bit]
    /\ useRegAX \in [Procs -> BOOLEAN]
    /\ fpc \in [Procs -> FiberPc]
    /\ frame \in [Procs -> Frame]
    /\ queue \in Seq(Procs)
    /\ sleeping \in [Events -> SUBSET Procs]
    /\ image \in [Procs -> Bit]
    /\ ax \in [Procs -> Bit]

-----------------------------------------------------------------------------
\* A process has memory until it exits. To use the memory of one that has none throws.
HasMemory(p) == context[p].owner # NoProc

Elements(s) == {s[i] : i \in DOMAIN s}

\* What GetRunnableProcess waits for (scheduler.cpp:42).
WorkAvailable == queue # <<>> \/ \E k \in CPUs : kernelQ[k] # <<>>

\* queueNotEmptyOrExiting.notify_all(): the waiting threads evaluate the
\* predicate again.
Notified_One ==
    LET S == {k \in CPUs : cpc[k] = "blocked"} IN
    IF S = {} THEN cpc ELSE [cpc EXCEPT ![CHOOSE k \in S : TRUE] = "sched"]
Notified == [k \in CPUs |-> IF cpc[k] = "blocked" THEN "sched" ELSE cpc[k]]

\* Processor::ResetCurrentProcess(addSystemTime, save, setKernel), where it does not
\* throw: SaveContext writes to the memory of the process.
ResetCurrentProcess_FirstHome(c, save, setKernel) ==
    LET p == current[c] IN
    /\ p # NoProc
    /\ save => HasMemory(p)
    /\ context' = IF save THEN [context EXCEPT ![p] = regs[c]] ELSE context
    /\ saveContext' = [saveContext EXCEPT ![p] = @ /\ ~save]
    /\ kernelProcessor' =
           [kernelProcessor EXCEPT ![p] = IF setKernel /\ @ = NoCpu THEN c ELSE @]
    /\ processor' = [processor EXCEPT ![p] = NoCpu]
    /\ current' = [current EXCEPT ![c] = NoProc]
ResetCurrentProcess(c, save, setKernel) ==
    LET p == current[c] IN
    /\ p # NoProc
    /\ save => HasMemory(p)
    /\ context' = IF save THEN [context EXCEPT ![p] = regs[c]] ELSE context
    /\ saveContext' = [saveContext EXCEPT ![p] = @ /\ ~save]
    /\ kernelProcessor' =
           [kernelProcessor EXCEPT ![p] = IF setKernel THEN c ELSE @]
    /\ processor' = [processor EXCEPT ![p] = NoCpu]
    /\ current' = [current EXCEPT ![c] = NoProc]

\* Scheduler::AddRunnableProcess(p, s) by the thread c, which goes on at pc.
AddRunnableProcess_Front(p, s, c, pc) ==
    IF state[p] # "zombie"
    THEN /\ state' = [state EXCEPT ![p] = s]
         /\ queue' = <<p>> \o queue
         /\ cpc' = [Notified EXCEPT ![c] = pc]
    ELSE /\ cpc' = [cpc EXCEPT ![c] = pc]
         /\ UNCHANGED <<state, queue>>
AddRunnableProcess(p, s, c, pc) ==
    IF state[p] # "zombie"
    THEN /\ state' = [state EXCEPT ![p] = s]
         /\ queue' = Append(queue, p)
         /\ cpc' = [Notified EXCEPT ![c] = pc]
    ELSE /\ cpc' = [cpc EXCEPT ![c] = pc]
         /\ UNCHANGED <<state, queue>>

\* The orders in which the list of the processes S can be woken up.
Orders(S) == {w \in [1..Cardinality(S) -> S] : Elements(w) = S}

\* EventManager::Wakeup(e): the processes sleeping on e become runnable, except
\* the zombies, which AddRunnableProcess drops. An abstraction: the list of an
\* event is a set, so its order is free. s is the state before the wakeup.
Wakeup_KeepList(e, s) ==
    LET woken == {p \in sleeping[e] : s[p] # "zombie"} IN
    /\ sleeping' = sleeping
    /\ state' = [p \in Procs |-> IF p \in woken THEN "runnableInKernel" ELSE s[p]]
    /\ \E w \in Orders(woken) : queue' = queue \o w
    /\ cpc' = IF woken # {} THEN Notified ELSE cpc
Wakeup(e, s) ==
    LET woken == {p \in sleeping[e] : s[p] # "zombie"} IN
    /\ sleeping' = [sleeping EXCEPT ![e] = {}]
    /\ state' = [p \in Procs |-> IF p \in woken THEN "runnableInKernel" ELSE s[p]]
    /\ \E w \in Orders(woken) : queue' = queue \o w
    /\ cpc' = IF woken # {} THEN Notified ELSE cpc

-----------------------------------------------------------------------------
(* The thread of a processor: Processor::Run.                              *)

\* GetRunnableKernelProcess: the process whose kernel fiber waits for this
\* processor, or on to the scheduler.
Poll(c) ==
    /\ cpc[c] = "poll"
    /\ IF kernelQ[c] # <<>>
       THEN /\ kernelQ' = [kernelQ EXCEPT ![c] = Tail(@)]
            /\ cproc' = [cproc EXCEPT ![c] = Head(kernelQ[c])]
            /\ cpc' = [cpc EXCEPT ![c] = "kresume"]
       ELSE /\ cpc' = [cpc EXCEPT ![c] = "sched"]
            /\ UNCHANGED <<kernelQ, cproc>>
    /\ UNCHANGED <<current, regs, fiberOf, procVars, fiberVars, queue,
                   sleeping, ghostVars>>

\* The thread has seen no work: it waits on queueNotEmptyOrExiting.
Block(c) ==
    /\ cpc[c] = "sched"
    /\ ~WorkAvailable
    /\ cpc' = [cpc EXCEPT ![c] = "blocked"]
    /\ UNCHANGED <<cproc, current, kernelQ, regs, fiberOf, procVars,
                   fiberVars, queue, sleeping, ghostVars>>

\* GetRunnableProcess pops processes until one is runnable. One that is to go on
\* in its kernel fiber is handed to the processor it slept on.
Runnable_UserOnly(p) == state[p] = "runnableInUser"
Runnable(p) == state[p] \in {"runnableInKernel", "runnableInUser"}

GetRunnableProcess(c) ==
    /\ cpc[c] = "sched"
    /\ WorkAvailable
    /\ \/ /\ \A i \in DOMAIN queue : ~Runnable(queue[i])
          /\ queue' = <<>>
          /\ cpc' = [cpc EXCEPT ![c] = "poll"]
          /\ UNCHANGED <<kernelQ, cproc>>
       \/ \E i \in DOMAIN queue :
          /\ Runnable(queue[i])
          /\ \A j \in 1..(i - 1) : ~Runnable(queue[j])
          /\ queue' = SubSeq(queue, i + 1, Len(queue))
          /\ IF state[queue[i]] = "runnableInKernel"
             THEN /\ kernelQ' = [kernelQ EXCEPT ![kernelProcessor[queue[i]]] =
                                     Append(@, queue[i])]
                  /\ cpc' = [cpc EXCEPT ![c] = "poll"]
                  /\ UNCHANGED cproc
             ELSE /\ cproc' = [cproc EXCEPT ![c] = queue[i]]
                  /\ cpc' = [cpc EXCEPT ![c] = "prepare"]
                  /\ UNCHANGED kernelQ
    /\ UNCHANGED <<current, regs, fiberOf, procVars, fiberVars,
                   sleeping, ghostVars>>

\* A suspended kernel fiber is about to be resumed on this processor.
KernelResume(c) ==
    LET p == cproc[c] IN
    /\ cpc[c] = "kresume"
    /\ mainFiber' = [mainFiber EXCEPT ![p] = c]
    /\ handler' = [handler EXCEPT ![p] = "none"]
    /\ processor' = [processor EXCEPT ![p] = c]
    /\ saveContext' = [saveContext EXCEPT ![p] = FALSE]
    /\ current' = [current EXCEPT ![c] = p]
    /\ cpc' = [cpc EXCEPT ![c] = "kenter"]
    /\ UNCHANGED <<cproc, kernelQ, regs, fiberOf, state,
                   kernelProcessor, inKernel, context, regAX, useRegAX,
                   fiberVars, queue, sleeping, ghostVars>>

\* WaitNotInKernel(true) and the switch to the kernel fiber, which goes on after
\* its own last switch: at the top of the loop of RunKernel, or in
\* ReleaseProcessor, which sets the state of the process.
EnterFiber(c, p) ==
    /\ ~inKernel[p]
    /\ inKernel' = [inKernel EXCEPT ![p] = TRUE]
    /\ fiberOf' = [fiberOf EXCEPT ![c] = p]
    /\ cpc' = [cpc EXCEPT ![c] = "fiber"]
    /\ UNCHANGED <<cproc, current, kernelQ, regs, state, processor,
                   kernelProcessor, mainFiber, handler, saveContext, context,
                   regAX, useRegAX, fiberVars, queue, sleeping, ghostVars>>

KernelEnter(c) == cpc[c] = "kenter" /\ EnterFiber(c, cproc[c])

\* A process that is to run in user mode gets its kernel fiber.
Prepare(c) ==
    /\ cpc[c] = "prepare"
    /\ fpc' = [fpc EXCEPT ![cproc[c]] = IF @ = "none" THEN "top" ELSE @]
    /\ current' = [current EXCEPT ![c] = cproc[c]]
    /\ cpc' = [cpc EXCEPT ![c] = "uwait"]
    /\ UNCHANGED <<cproc, kernelQ, regs, fiberOf, procVars, frame,
                   queue, sleeping, ghostVars>>

\* WaitNotInKernel(false): the kernel fiber may still be running on the
\* processor that made the process runnable.
UserWait_NoWait(c) ==
    /\ cpc[c] = "uwait"
    /\ cpc' = [cpc EXCEPT ![c] = "urun"]
    /\ UNCHANGED <<cproc, current, kernelQ, regs, fiberOf, procVars, fiberVars,
                   queue, sleeping, ghostVars>>
UserWait(c) ==
    /\ cpc[c] = "uwait"
    /\ ~inKernel[cproc[c]]
    /\ cpc' = [cpc EXCEPT ![c] = "urun"]
    /\ UNCHANGED <<cproc, current, kernelQ, regs, fiberOf, procVars,
                   fiberVars, queue, sleeping, ghostVars>>

\* RestoreContext: AX is the saved register, or the result of a trap that ended
\* after the registers were saved.
RestoredRegisters_NoResult(p) == context[p]
RestoredRegisters(p) ==
    [context[p] EXCEPT !.ax = IF useRegAX[p] THEN regAX[p] ELSE @]

\* SetRunning, whatever the state is, RestoreContext and SetSaveContext(true). The
\* memory of a process killed since the scheduler took it has been freed: the first
\* read throws, and Run catches the exception outside its loop, so the thread ends.
UserRun(c) ==
    LET p == cproc[c] IN
    /\ cpc[c] = "urun"
    /\ processor' = [processor EXCEPT ![p] = c]
    /\ state' = [state EXCEPT ![p] = "running"]
    /\ IF HasMemory(p)
       THEN /\ regs' = [regs EXCEPT ![c] = RestoredRegisters(p)]
            /\ useRegAX' = [useRegAX EXCEPT ![p] = FALSE]
            /\ regAX' = [regAX EXCEPT ![p] = 0]
            /\ saveContext' = [saveContext EXCEPT ![p] = TRUE]
            /\ cpc' = [cpc EXCEPT ![c] = "user"]
       ELSE /\ cpc' = [cpc EXCEPT ![c] = "ended"]
            /\ UNCHANGED <<regs, useRegAX, regAX, saveContext>>
    /\ UNCHANGED <<cproc, current, kernelQ, fiberOf, kernelProcessor,
                   mainFiber, handler, inKernel, context, fiberVars,
                   queue, sleeping, ghostVars>>

\* FetchInstruction of a process that was killed while this processor runs it.
UserThrows(c) ==
    /\ cpc[c] = "user"
    /\ ~HasMemory(cproc[c])
    /\ cpc' = [cpc EXCEPT ![c] = "ended"]
    /\ UNCHANGED <<cproc, current, kernelQ, regs, fiberOf, procVars, fiberVars,
                   queue, sleeping, ghostVars>>

\* A slice of user mode instructions ends in an interrupt: CheckInterrupts
\* picks the handler and records it in the current process. An abstraction: the
\* clock thread may have set the clock bit of rQ at any time.
Interrupt(c, h) ==
    LET p == current[c] IN
    /\ cpc[c] = "user"
    /\ mainFiber' = [mainFiber EXCEPT ![p] = c]
    /\ handler' = [handler EXCEPT ![p] = h]
    /\ saveContext' = [saveContext EXCEPT ![p] = TRUE]
    /\ cpc' = [cpc EXCEPT ![c] = "ienter"]
    /\ UNCHANGED <<cproc, current, kernelQ, fiberOf, state, processor,
                   kernelProcessor, inKernel, context, regAX, useRegAX,
                   fiberVars, queue, sleeping, image>>

TakeTrap(c) == Interrupt(c, "software") /\ UNCHANGED <<regs, ax>>

TakeClock(c) ==
    /\ Interrupt(c, "clock")
    /\ regs' = [regs EXCEPT ![c].ax = 1 - @]
    /\ ax' = [ax EXCEPT ![cproc[c]] = 1 - @]

InterruptEnter(c) == cpc[c] = "ienter" /\ EnterFiber(c, current[c])

\* Back on the main fiber: SetNotInKernel on the local variable of Run.
LeaveFiber(c) ==
    /\ cpc[c] = "left"
    /\ inKernel' = [inKernel EXCEPT ![cproc[c]] = FALSE]
    /\ cproc' = [cproc EXCEPT ![c] = NoProc]
    /\ cpc' = [cpc EXCEPT ![c] = "poll"]
    /\ UNCHANGED <<current, kernelQ, regs, fiberOf, state, processor,
                   kernelProcessor, mainFiber, handler, saveContext, context,
                   regAX, useRegAX, fiberVars, queue, sleeping, ghostVars>>

-----------------------------------------------------------------------------
(* The kernel fiber of a process: RunKernel, executed by the thread c.     *)

InFiber(c, pc) == cpc[c] = "fiber" /\ fpc[fiberOf[c]] = pc

\* util::SwitchToFiber(main): the thread goes on in the main fiber it names,
\* which had better be its own.
SwitchToMain(c, main, pcs) ==
    /\ fiberOf' = [fiberOf EXCEPT ![c] = NoProc]
    /\ cpc' = [pcs EXCEPT ![c] = IF main = c THEN "left" ELSE "wrongFiber"]

\* The locals of one turn of the loop.
FiberTop(c) ==
    LET p == fiberOf[c] IN
    /\ InFiber(c, "top")
    /\ frame' = [frame EXCEPT ![p] =
                    [processor |-> processor[p], main |-> mainFiber[p],
                     handler |-> handler[p], prev |-> "created"]]
    /\ fpc' = [fpc EXCEPT ![p] =
                  IF handler[p] # "none" /\ processor[p] # NoCpu
                  THEN "guard" ELSE "finish"]
    /\ UNCHANGED <<cpuVars, procVars, queue, sleeping, ghostVars>>

\* The constructor of RunningKernelGuard.
EnterGuard(c) ==
    LET p == fiberOf[c] IN
    /\ InFiber(c, "guard")
    /\ frame' = [frame EXCEPT ![p].prev = state[p]]
    /\ state' = [state EXCEPT ![p] = "runningKernel"]
    /\ fpc' = [fpc EXCEPT ![p] = "handle"]
    /\ UNCHANGED <<cpuVars, processor, kernelProcessor, mainFiber, handler,
                   inKernel, saveContext, context, regAX, useRegAX, queue,
                   sleeping, ghostVars>>

\* ClockInterruptHandler::HandleInterrupt: the time slice is over.
ClockHandle(c) ==
    LET p == fiberOf[c]
        f == frame[p]
        q == current[f.processor]
    IN
    /\ InFiber(c, "handle")
    /\ f.handler = "clock"
    /\ fpc' = [fpc EXCEPT ![p] = "unguard"]
    /\ IF q # NoProc /\ state[q] \notin {"zombie", "asleep"}
       THEN /\ ResetCurrentProcess(f.processor, saveContext[q], FALSE)
            /\ AddRunnableProcess(q, "runnableInUser", c, "fiber")
       ELSE UNCHANGED <<current, context, saveContext, kernelProcessor,
                        processor, state, queue, cpc>>
    /\ UNCHANGED <<cproc, kernelQ, regs, fiberOf, mainFiber, handler,
                   inKernel, regAX, useRegAX, frame, sleeping, ghostVars>>

\* A handler of one of the traps in use runs: before and after it slept.
InTrap(c, trap) ==
    /\ trap \in Traps
    /\ cpc[c] = "fiber"
    /\ fpc[fiberOf[c]] \in {"handle", "awake"}
    /\ frame[fiberOf[c]].handler = "software"

\* kernel Sleep(e, process, lock), up to the release of the machine lock.
TrapSleep(c, e) ==
    LET p == fiberOf[c]
        k == processor[p]
    IN
    /\ InTrap(c, "sleep")
    /\ IF k # NoCpu
       THEN ResetCurrentProcess(k, saveContext[p], TRUE)
       ELSE UNCHANGED <<context, saveContext, kernelProcessor, processor, current>>
    /\ cpc' = IF WorkAvailable THEN Notified ELSE cpc
    /\ sleeping' = [sleeping EXCEPT ![e] = @ \cup {p}]
    /\ state' = [state EXCEPT ![p] = "asleep"]
    /\ fpc' = [fpc EXCEPT ![p] = "release"]
    /\ UNCHANGED <<cproc, kernelQ, regs, fiberOf, mainFiber, handler,
                   inKernel, regAX, useRegAX, frame, queue, ghostVars>>

\* UserProcess::ReleaseProcessor, up to the switch.
ReleaseProcessor(c) ==
    LET p == fiberOf[c] IN
    /\ InFiber(c, "release")
    /\ fpc' = [fpc EXCEPT ![p] = "asleep"]
    /\ SwitchToMain(c, mainFiber[p], cpc)
    /\ UNCHANGED <<cproc, current, kernelQ, regs, procVars, frame,
                   queue, sleeping, ghostVars>>

\* UserProcess::ReleaseProcessor, after the switch back.
Resumed(c) ==
    LET p == fiberOf[c] IN
    /\ InFiber(c, "asleep")
    /\ fpc' = [fpc EXCEPT ![p] = "awake"]
    /\ state' = [state EXCEPT ![p] = "runningKernel"]
    /\ UNCHANGED <<cpuVars, processor, kernelProcessor, mainFiber, handler,
                   inKernel, saveContext, context, regAX, useRegAX, frame,
                   queue, sleeping, ghostVars>>

\* A trap handler wakes up the processes that sleep on e.
TrapWakeup(c, e) ==
    /\ InTrap(c, "wakeup")
    /\ Wakeup(e, state)
    /\ UNCHANGED <<cproc, current, kernelQ, regs, fiberOf, processor,
                   kernelProcessor, mainFiber, handler, inKernel, saveContext,
                   context, regAX, useRegAX, fiberVars, ghostVars>>

\* The registers that the child of a fork starts with.
ChildRegisters_SameResult(q, k) == [regs[k] EXCEPT !.owner = q]
ChildRegisters(q, k) == [regs[k] EXCEPT !.owner = q, !.ax = 0]

\* Fork: the child starts from the registers of the parent, with AX = 0.
TrapFork(c, q) ==
    LET p == fiberOf[c]
        k == processor[p]
    IN
    /\ InTrap(c, "fork")
    /\ fpc[p] = "handle"
    /\ HasMemory(p)
    /\ state[q] = "created"
    /\ processor' = [processor EXCEPT ![q] = k]
    /\ context' = [context EXCEPT ![q] = ChildRegisters(q, k)]
    /\ AddRunnableProcess(q, "runnableInUser", c, "fiber")
    /\ fpc' = [fpc EXCEPT ![p] = "done"]
    /\ image' = [image EXCEPT ![q] = image[p]]
    /\ ax' = [ax EXCEPT ![q] = 0]
    /\ UNCHANGED <<cproc, current, kernelQ, regs, fiberOf,
                   kernelProcessor, mainFiber, handler, inKernel, saveContext,
                   regAX, useRegAX, frame, sleeping>>

\* Exec: the saved registers become those of the new image.
TrapExec(c) ==
    LET p == fiberOf[c] IN
    /\ InTrap(c, "exec")
    /\ HasMemory(p)
    /\ state' = [state EXCEPT ![p] = "exec"]
    /\ context' = [context EXCEPT ![p] =
                      [owner |-> p, image |-> 1 - image[p], ax |-> 1 - ax[p]]]
    /\ fpc' = [fpc EXCEPT ![p] = "done"]
    /\ image' = [image EXCEPT ![p] = 1 - @]
    /\ UNCHANGED <<cpuVars, processor, kernelProcessor, mainFiber, handler,
                   inKernel, saveContext, regAX, useRegAX, frame, queue,
                   sleeping, ax>>

\* Process::Exit by the process itself or by a killer; e is the child exit event
\* of the parent. The memory of q is freed. An abstraction: closing the files neither
\* sleeps nor fails (FileTables), and q has no debugger, which would keep the memory.
Exit(q, e) ==
    /\ Wakeup(e, [state EXCEPT ![q] = "zombie"])
    /\ context' = [context EXCEPT ![q] = Freed]
    /\ UNCHANGED <<cproc, current, kernelQ, regs, fiberOf, processor,
                   kernelProcessor, mainFiber, handler, inKernel, saveContext,
                   regAX, useRegAX, frame, ghostVars>>

TrapExit(c, e) ==
    /\ InTrap(c, "exit")
    /\ fpc[fiberOf[c]] = "handle"
    /\ Exit(fiberOf[c], e)
    /\ fpc' = [fpc EXCEPT ![fiberOf[c]] = "done"]

\* Kill takes any process of the table, a zombie too.
TrapKill(c, q, e) ==
    /\ InTrap(c, "kill")
    /\ fpc[fiberOf[c]] = "handle"
    /\ q # fiberOf[c]
    /\ state[q] # "created"
    /\ Exit(q, e)
    /\ fpc' = [fpc EXCEPT ![fiberOf[c]] = "done"]

\* The trap handler has returned. The result goes to the register if the
\* context is yet to be saved, and to the process if it has been saved.
TrapReturn(c) ==
    LET p == fiberOf[c]
        k == frame[p].processor
        q == current[k]
        r == 1 - ax[p]
    IN
    /\ cpc[c] = "fiber"
    /\ fpc[p] \in {"handle", "awake", "done"}
    /\ frame[p].handler = "software"
    /\ q # NoProc
    /\ IF saveContext[q]
       THEN /\ regs' = [regs EXCEPT ![k].ax = r]
            /\ UNCHANGED <<regAX, useRegAX>>
       ELSE /\ regAX' = [regAX EXCEPT ![q] = r]
            /\ useRegAX' = [useRegAX EXCEPT ![q] = TRUE]
            /\ UNCHANGED regs
    /\ fpc' = [fpc EXCEPT ![p] = "unguard"]
    /\ ax' = [ax EXCEPT ![p] = r]
    /\ UNCHANGED <<cpc, cproc, current, kernelQ, fiberOf, state,
                   processor, kernelProcessor, mainFiber, handler, inKernel,
                   saveContext, context, frame, queue, sleeping, image>>

\* The destructor of RunningKernelGuard.
LeaveGuard(c) ==
    LET p == fiberOf[c] IN
    /\ InFiber(c, "unguard")
    /\ state' = [state EXCEPT ![p] =
                    IF @ = "runningKernel" THEN frame[p].prev ELSE @]
    /\ fpc' = [fpc EXCEPT ![p] = "finish"]
    /\ UNCHANGED <<cpuVars, processor, kernelProcessor, mainFiber, handler,
                   inKernel, saveContext, context, regAX, useRegAX, frame,
                   queue, sleeping, ghostVars>>

\* The registers of a process that called exec are those of its old image.
MustSave(p) == state[p] # "exec" /\ saveContext[p]

\* After the handler: the process becomes runnable, unless it has exited or the
\* handler has taken it off the processor.
Finish(c) ==
    LET p == fiberOf[c]
        k == frame[p].processor
    IN
    /\ InFiber(c, "finish")
    /\ fpc' = [fpc EXCEPT ![p] = "leave"]
    /\ IF state[p] # "zombie" /\ processor[p] = k
       THEN /\ ResetCurrentProcess(k, MustSave(p), FALSE)
            /\ AddRunnableProcess(p, "runnableInUser", c, "fiber")
       ELSE UNCHANGED <<current, context, saveContext, kernelProcessor,
                        processor, state, queue, cpc>>
    /\ UNCHANGED <<cproc, kernelQ, regs, fiberOf, mainFiber, handler,
                   inKernel, regAX, useRegAX, frame, sleeping, ghostVars>>

\* CheckRunnable, and the switch to the main fiber captured at the top.
FiberLeave(c) ==
    LET p == fiberOf[c] IN
    /\ InFiber(c, "leave")
    /\ fpc' = [fpc EXCEPT ![p] = "top"]
    /\ SwitchToMain(c, frame[p].main, IF WorkAvailable THEN Notified ELSE cpc)
    /\ UNCHANGED <<cproc, current, kernelQ, regs, procVars, frame,
                   queue, sleeping, ghostVars>>

\* A handler throws because it used the memory of a process that has none: a trap
\* handler may, the clock handler does when it saves the registers. (What is saved in
\* Finish has memory: UnsavedOf.) RunningKernelGuard is unwound, and RunKernel gives
\* the exception to the processor and switches to the main fiber.
FiberThrows(c) ==
    LET p == fiberOf[c]
        q == current[frame[p].processor]
    IN
    /\ cpc[c] = "fiber" /\ fpc[p] \in {"handle", "awake"}
    /\ \/ frame[p].handler = "software" /\ ~HasMemory(p)
       \/ /\ frame[p].handler = "clock"
          /\ q # NoProc /\ state[q] \notin {"zombie", "asleep"}
          /\ saveContext[q] /\ ~HasMemory(q)
    /\ state' = [state EXCEPT ![p] =
                    IF @ = "runningKernel" THEN frame[p].prev ELSE @]
    /\ fpc' = [fpc EXCEPT ![p] = "top"]
    /\ SwitchToMain(c, frame[p].main, cpc)
    /\ UNCHANGED <<cproc, current, kernelQ, regs, processor, kernelProcessor,
                   mainFiber, handler, inKernel, saveContext, context, regAX,
                   useRegAX, frame, queue, sleeping, ghostVars>>

-----------------------------------------------------------------------------
(* The other threads of the machine.                                       *)

\* An I/O completion or an alarm wakes up the processes that sleep on e.
DeviceWakeup(e) ==
    /\ Wakeup(e, state)
    /\ UNCHANGED <<cproc, current, kernelQ, regs, fiberOf, processor,
                   kernelProcessor, mainFiber, handler, inKernel, saveContext,
                   context, regAX, useRegAX, fiberVars, ghostVars>>

-----------------------------------------------------------------------------
Loaded(p) == p \in InitProcs

\* The machine with the processes InitProcs loaded, in any order.
Init ==
    /\ cpc = [c \in CPUs |-> "poll"]
    /\ cproc = [c \in CPUs |-> NoProc]
    /\ current = [c \in CPUs |-> NoProc]
    /\ kernelQ = [c \in CPUs |-> <<>>]
    /\ regs = [c \in CPUs |-> ZeroRegisters(NoProc)]
    /\ fiberOf = [c \in CPUs |-> NoProc]
    /\ state = [p \in Procs |-> IF Loaded(p) THEN "runnableInUser" ELSE "created"]
    /\ processor = [p \in Procs |-> NoCpu]
    /\ kernelProcessor = [p \in Procs |-> NoCpu]
    /\ mainFiber = [p \in Procs |-> NoCpu]
    /\ handler = [p \in Procs |-> "none"]
    /\ inKernel = [p \in Procs |-> FALSE]
    /\ saveContext = [p \in Procs |-> FALSE]
    /\ context = [p \in Procs |-> ZeroRegisters(p)]
    /\ regAX = [p \in Procs |-> 0]
    /\ useRegAX = [p \in Procs |-> FALSE]
    /\ fpc = [p \in Procs |-> "none"]
    /\ frame = [p \in Procs |-> EmptyFrame]
    /\ queue \in Orders(InitProcs)
    /\ sleeping = [e \in Events |-> {}]
    /\ image = [p \in Procs |-> 0]
    /\ ax = [p \in Procs |-> 0]

\* Steps that a processor takes of its own, whatever the program it executes.
CpuStep(c) ==
    \/ Poll(c)           \/ Block(c)         \/ GetRunnableProcess(c)
    \/ KernelResume(c)   \/ KernelEnter(c)
    \/ Prepare(c)        \/ UserWait(c)      \/ UserRun(c)
    \/ UserThrows(c)     \/ TakeClock(c)     \/ InterruptEnter(c)
    \/ LeaveFiber(c)

FiberStep(c) ==
    \/ FiberTop(c)       \/ EnterGuard(c)    \/ ClockHandle(c)
    \/ ReleaseProcessor(c) \/ Resumed(c)
    \/ LeaveGuard(c)     \/ Finish(c)        \/ FiberLeave(c)
    \/ FiberThrows(c)

\* What the executed program decides.
TrapStep(c) ==
    \/ TakeTrap(c)
    \/ TrapExec(c)
    \/ TrapReturn(c)
    \/ \E e \in Events : TrapSleep(c, e) \/ TrapWakeup(c, e) \/ TrapExit(c, e)
    \/ \E q \in Procs : TrapFork(c, q)
    \/ \E q \in Procs, e \in Events : TrapKill(c, q, e)

Next ==
    \/ \E c \in CPUs : CpuStep(c) \/ FiberStep(c) \/ TrapStep(c)
    \/ \E e \in Events : DeviceWakeup(e)

Spec == Init /\ [][Next]_vars

\* The host runs every thread; a trap handler that neither sleeps nor waits
\* returns; the clock ticks. What the executed program does is not fair.
FairSpec ==
    /\ Spec
    /\ \A c \in CPUs : /\ WF_vars(CpuStep(c))
                       /\ WF_vars(FiberStep(c))
                       /\ WF_vars(TrapReturn(c))

-----------------------------------------------------------------------------
(* Properties.                                                             *)

\* The processor c is responsible for p: it has taken p from a queue and has
\* not passed it on.
Holds(c, p) ==
    \/ cpc[c] \in {"kresume", "prepare"} /\ cproc[c] = p
    \/ /\ cpc[c] \in {"kenter", "uwait", "urun", "user", "ienter", "fiber"}
       /\ current[c] = p

\* Where p is: positions of the run queue, positions of the kernel queues, event
\* lists and processors.
QueuePlaces(p) == {<<"queue", i>> : i \in {j \in DOMAIN queue : queue[j] = p}}
KernelQPlaces(c, p) == {<<c, i>> : i \in {j \in DOMAIN kernelQ[c] : kernelQ[c][j] = p}}
ListPlaces(p) == {<<"sleeping", e>> : e \in {f \in Events : p \in sleeping[f]}}
CpuPlaces(p) == {<<"held", c>> : c \in {k \in CPUs : Holds(k, p)}}
Places(p) ==
    QueuePlaces(p) \cup (UNION {KernelQPlaces(c, p) : c \in CPUs})
    \cup ListPlaces(p) \cup CpuPlaces(p)

\* Not started, exited or killed. A process killed while a processor has it does not
\* stay a zombie, but it has no memory.
Dead(p) == state[p] \in {"created", "zombie"} \/ ~HasMemory(p)

\* No process is lost or scheduled twice: a process that has started and not
\* exited is in exactly one place, whatever the interleaving of sleeping,
\* waking, preemption and the hand-over between processors; one that was killed
\* is in at most one.
ExactlyOnePlace ==
    \A p \in Procs :
        /\ Cardinality(Places(p)) <= 1
        /\ ~Dead(p) => Places(p) # {}

\* The state of a process that has not exited agrees with the list that it is
\* on, which GetRunnableProcess relies on when it drops what is not runnable and
\* hands what is runnable in the kernel to the processor whose fiber it is.
StateTellsPlace ==
    \A p \in Procs : ~Dead(p) =>
        /\ (state[p] = "asleep") = (\E e \in Events : p \in sleeping[e])
        /\ p \in Elements(queue) => Runnable(p)
        /\ \A c \in CPUs : p \in Elements(kernelQ[c]) =>
               state[p] = "runnableInKernel" /\ kernelProcessor[p] = c

\* The handshake of WaitNotInKernel and SetNotInKernel: no two processors
\* execute one kernel fiber, and no processor runs a process in user mode while
\* another is still inside the kernel fiber of that process.
KernelFiberExclusive ==
    \A c, k \in CPUs : c # k /\ fiberOf[c] # NoProc =>
        /\ fiberOf[k] # fiberOf[c]
        /\ cpc[k] \in {"urun", "user", "ienter"} => cproc[k] # fiberOf[c]

\* A kernel fiber that slept goes on on the processor it slept on: the processor
\* and the main fiber that its frame captured before sleeping are those of the
\* thread that executes it.
FiberAffinity ==
    \A c \in CPUs :
        /\ cpc[c] # "wrongFiber"
        /\ cpc[c] = "fiber" /\ fpc[fiberOf[c]] # "top" =>
               LET f == frame[fiberOf[c]] IN
               f.processor = c /\ f.main = c /\ mainFiber[fiberOf[c]] = c

\* In user mode a processor has the registers of the process it runs, as the
\* last slice of that process left them, with the result of its last trap in
\* AX: saved once, restored once, never another process's.
ContextIntegrity ==
    \A c \in CPUs : cpc[c] = "user" =>
        LET p == cproc[c] IN
        /\ current[c] = p
        /\ regs[c] = [owner |-> p, image |-> image[p], ax |-> ax[p]]

\* No lost wakeup of a processor: none waits while a process is queued, although
\* AddRunnableKernelProcess does not notify.
NoMissedWork == WorkAvailable => \A c \in CPUs : cpc[c] # "blocked"

\* A process that is runnable in user mode is eventually run, also when the
\* others never trap, unless it is killed first.
ReadyRuns ==
    \A p \in Procs :
        (state[p] = "runnableInUser") ~> (state[p] \in {"running", "zombie"})

\* A process that was woken up eventually goes on in its kernel fiber, unless it
\* is killed first.
WokenResumes ==
    \A p \in Procs :
        (state[p] = "runnableInKernel") ~> (state[p] \in {"runningKernel", "zombie"})

\* kill "kills a process", and no processor: no step of a kill, or of what follows
\* from it, ends the thread of one, whatever the processors do with the victim.
KillEndsNoProcessor == \A c \in CPUs : cpc[c] # "ended"
=============================================================================
