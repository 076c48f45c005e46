# System X, verified

A TLA+ development beside `src/cmajor/system-x`, the virtual machine and
Unix-like kernel of the Cmajor repository: specifications of its concurrent
core, TLC configurations that check them on small instances, and TLAPS proofs,
above all about the scheduler, for any number of processors and processes.

Paths below are relative to `src/cmajor/system-x` unless they start with `src/`.

## 1. Inventory

The repository holds the Cmajor language (compiler, assembler, run time, IDE)
and System X, a machine with an instruction set of its own, simulated on the
host, whose kernel is written in C++ and runs inside the simulator. Almost all of
the concurrency is in System X: one host thread per simulated processor, a
clock thread, three I/O threads, terminal threads, and a kernel in which every
process has a *fiber* for its system calls. The rest of the repository (about
500,000 lines) is sequential translation, libraries and GUI.

| Component | State it keeps | Operations | Interacts with | What makes it hard | What makes it correct |
|---|---|---|---|---|---|
| Processors and scheduling: `machine/processor.cpp`, `machine/process.cpp`, `kernel/process.cpp`, `kernel/scheduler.cpp`, `kernel/event_manager.cpp`, `kernel/trap.cpp` | current process, registers and kernel queue of a processor; state, home processor, fiber and saved context of a process; run queue; sleepers per event | run, preempt, trap, sleep, wake up, release the processor, fork, exec, exit, kill | everything else sleeps and wakes through it | a fiber suspended on one host thread while another thread schedules its process; guards that save and restore state in separate critical sections; a hand-over without notification | a process is in one place, its fiber on one thread, its registers its own; no processor waits while there is work; who is runnable runs |
| Process table and life cycle: `kernel/process_manager.cpp`, `kernel/process.cpp` | slots, tree of parents and children, count of runnable processes | fork, wait, waitpid, exit, kill | scheduling (`childExitEvent`), file tables | zombies reused before they are collected; a parent that sleeps between two looks at its children | tree consistent, each exit reported once, no sleep over a zombie, count right |
| Pipes: `kernel/pipe.cpp` | ring of bytes, two flags, two reference counts | read, write, close, share by fork | scheduling, file tables | wrap-around and growth at once; last close against a sleeper | a queue of bytes; nobody sleeps without reason |
| Block cache: `kernel/block_manager.cpp`, used by `kernel/fs.cpp`, `kernel/block_file.cpp` | buffers, hash chains, free list, events per block | get, put, read, write | scheduling, I/O requests | misses that race for a buffer, transfers that sleep or fail, nested blocks | one buffer per block, coherent with the host file, every waiter woken |
| Inode cache: `kernel/inode_manager.cpp` | as the block cache, with locks that count | get, put | block cache | a full cache is an error; reading an inode loses its locked flag; the inode block is held while the inode is asked for | lock counts agree with who has what; no inode created twice |
| File system: `kernel/fs.cpp`, `kernel/root_fs.cpp`, `kernel/dir_file.cpp` | super block, free block list, inodes, directories | allocate and free blocks and inodes, path lookup, create, unlink | both caches | copies of the super block across sleeps | no block or inode allocated twice |
| I/O requests and host files: `kernel/io_manager.cpp`, `kernel/host_file_manager.cpp` | request table, two threads, shared handles | submit, issue, complete, open, close | scheduling, host | completions in any order; a file opened before the completion port exists; an exception ends a thread | each requester learns the outcome of its own request |
| Message queues: `kernel/msg_queue.cpp` | queues by descriptor and by name, reference counts | open, close, put, wait, get | clock, terminal, directory changes | most calls take no lock; all waiters wake for one message | messages in order, once; no waiter left on a deleted queue |
| Clock and alarms: `kernel/clock.cpp`, `machine/clock.cpp` | alarms by time | schedule, tick | scheduling, message queues | expiry against sleep | each alarm fires once |
| File tables, locks on I/O: `kernel/file.cpp`, `kernel/io.cpp` | descriptors, counts of their files, a lock that sleeps | open, pipe, dup, fork, close, exit, `LockIO` | pipes, files | sharing by fork; dup counts without the lock; a full table; an exit that fails half-way | descriptors and counts agree |
| Interrupt registers, start and stop: `machine/registers.cpp`, `machine/machine.cpp` | pending interrupts, flags of threads | raise, take, start, exit | clock thread, processors | read-modify-write without a lock | no interrupt lost; every thread ends |
| Memory, instructions, regions, heap | translation maps, pages | load, store, execute | processors | large sequential tables | translation per process |
| Terminal and guiterm, debuggers, tool chain, compiler, build, servers, IDE, libraries | | | | | see section 8 |

`PROJECT.json` lists these with their sources and status, and, under
"hazards", the lines where each can go wrong.

## 2. Plan

Order: the scheduler first, because every other component sleeps and wakes
through it; then what sleeps on events, from the most used on.

| # | Module | State | Theorems worth proving |
|---|---|---|---|
| 1 | `Scheduling`, `SchedulingInvariant` | checked, proved | `Invariance`, `LifeInvariance` and what follows from them |
| 2 | `Pipe`, refining `PipeFifo` | checked, proved | the refinement, `SleepersHaveReason`, `NotBothEndsAsleep` |
| 3 | `BlockCache` | checked, proved | `CacheCoherent`, `OneBufferPerBlock`, `NotAllAsleep` |
| 4 | `ProcessTable` | checked, proved | `TreeConsistent`, `ReportedOnce` |
| 5 | `MsgQueue` with the alarms of the clock that put messages | checked, proved | `NamesAgree`, `OpenMeansHeld`, `SleepersHaveReason` |
| 6 | `INodeCache` over the promise of `BlockCache` that a block has one holder, with the allocation of inodes | checked, proved | `CountsAgree`, `CreatedOnce` |
| 7 | `HostIo`, refining `HostTransfer` | checked, proved | the refinement, `SleepersHaveReason` |
| 8 | `FileTables` | checked, proved | `PipeEndsAgree`, `NoDangling` |
| 9 | interrupt registers, start and stop of the machine; `LockIO` and the allocation of blocks | open | no interrupt lost, every thread ends |

`HostIo` is what the transfers of `BlockCache` do while they sleep
(`StartRead` to `TransferFails`), and `HostTransfer` is what `BlockCache` relies on: one
answer, of one's own transfer. `FileTables` is the sharing that `Pipe` takes as
given: how many readers and writers there are, and that they close.

Each of modules 2 to 8 assumes of `Scheduling` what the scheduler's properties
give it: a process that sleeps is off every processor until its event is raised
(`ExactlyOnePlace`, `StateTellsPlace`), an event wakes everyone on its list, and
a woken process goes on where it slept (`WokenResumes`). That is why they can
take a call between two sleeps for one step.

## 3. Modules

`MC<Module>.tla` extends a module with the definitions a configuration needs:
symmetry sets and arguments. Operators whose name has an underscore, such as
`Wakeup_KeepList`, are deliberate bugs: variants of the definition before the
underscore that each property must catch.

### Scheduling

One action is one region between taking and releasing the machine lock, with the
thread-local code that follows. A processor `c` is a host thread and `cpc[c]` is
its place in `Processor::Run`:

    poll -> sched -> prepare -> uwait -> urun -> user -> ienter -> fiber -> left -> poll
     |       |  \-> blocked (waits on queueNotEmptyOrExiting)       ^
     |       \----> poll (handed the process to its processor)      |
     \-> kresume -> kenter ------------------------------------------/

and `ended` when an exception has left `Run` in `urun` or `user`.

| Actions | Code |
|---|---|
| `Poll`, `GetRunnableProcess`, `Block` | `Processor::Run` asks for a process of its own kernel queue, then `Scheduler::GetRunnableProcess`: wait until some queue has work, drop what is no longer runnable, hand a process that is runnable in the kernel to the processor whose fiber it is |
| `KernelResume`, `KernelEnter` | the branch of `Run` for a process whose fiber slept |
| `Prepare`, `UserWait`, `UserRun` | the branch for user mode: make the fiber if there is none, wait until it is not in the kernel, restore the context |
| `TakeTrap`, `TakeClock`, `InterruptEnter`, `LeaveFiber` | interrupts and the switches between the main fiber and the kernel fiber |
| `FiberTop` ... `FiberLeave` | `RunKernel` of the kernel fiber, `fpc[p]` its place: guard, handler, guard left, requeue, switch back |
| `TrapSleep`, `ReleaseProcessor`, `Resumed`, `TrapWakeup`, `TrapFork`, `TrapExec`, `TrapExit`, `TrapKill`, `TrapReturn` | what the handlers of traps do to scheduling |
| `UserThrows`, `FiberThrows` | the use of the memory of a process that was killed: in `FetchInstruction` (and in `UserRun`), which ends the thread of the processor, and in a handler, which `RunKernel` catches |
| `DeviceWakeup` | a wake-up by the clock, I/O or terminal threads |

`frame[p]` holds what the C++ frames of the suspended fiber captured before it
slept, which is what `FiberAffinity` is about. Registers are abstracted to their
owner, the parity of the image they belong to and the parity of AX, and a process has memory as long as
its saved registers have an owner (`HasMemory`): `Exit` frees it. The ghost
variables `image` and `ax` say what they should be.

Each slot is given to one process only: what happens when a slot is used again
is in `ProcessTable`.

### Pipe and PipeFifo

`PipeFifo` is what a pipe promises: a bounded queue of bytes, end of file when no
writer is left, an error when no reader is. `Pipe` is `pipe.cpp`: `data`,
`readPos`, `writePos` and the two flags; `PipeRead` and `PipeWrite` are the
copying of at most two and three pieces. `Fifo == INSTANCE PipeFifo WITH contents
<- Contents` is the refinement, where `Contents` unrolls the ring.

### BlockCache

`Call`, `WaitForKey`, `Hit`, `WaitForAny`, `Miss` are `GetBlock`; `PutBlock` is
the destructor of `BlockPtr`; `StartRead` ... `TransferFails` are the transfers
that callers make while they hold a block, a sleep each. The entry of a buffer
remembers its position in the free list (`position`), since the code erases an
iterator it kept.

### ProcessTable

`Fork`, `ForkFails` are `CreateProcess` with `DeleteProcess` of a zombie in the
way; `KillFails` is a kill whose `Exit` was cut short by a close that failed: the victim is a zombie, but its parent
was not woken (`missed`) nor the victim counted out (`failedKills`). `WaitScan` and `WaitWoken` are the halves of the loop of `Wait` on both sides
of its sleep; `Exit` is shared by `CallExit` and `CallKill`. The parent pointer of a
process whose parent was deleted is to freed memory (`orphaned`): `Notifies` lets
an exit through it wake whom it may.

### MsgQueue

| Actions | Code |
|---|---|
| `OpenExisting`, `Create` | `MsgQ`, `MsgQueues::Open` |
| `CloseMsgQ`, `DeleteWakes` | `CloseMsgQ`: the last close takes the queue out of both tables, then waits for the lock and wakes the sleepers |
| `WaitReturns`, `WaitSleeps`, `WaitResumes` | `WaitMsgLocked` on both sides of its sleep |
| `PutMsg`, `GetMsg`, `ScheduleMsg` | the calls of these names and `Clock::Schedule` of a message |
| `TickTakes`, `TickPuts` | `Clock::Tick`: takes the alarm and looks whether the queue is open, then looks it up again and puts the message |
| `Exit`, `Start` | `ProcessMessageQueues::CloseAll` in `Process::Exit`; a new process |

The machine has one processor, as in its default configuration, so one process is in a
call at a time; the second thread is the clock. Only `WaitMsg`, `PutMsg`, `Wakeup` and
`Exit` take the machine lock, so the other calls fall between the two halves of `Tick`
(`putting` is the descriptor in between). That is how a queue can vanish under the
clock: the put throws, and the exception ends the clock thread (`terminated`). A queue is
abstracted to its length.

### INodeCache

| Actions | Code |
|---|---|
| `ReadINode`, `AllocateINode`, `WriteINode`, `FreeINode` | a process enters the functions of these names; `goal` is what it is there for |
| `SleepForINode`, `Hit`, `Miss`, `PutINode` | `GetINode`, `PutINode`, each under the machine lock; `held` counts the `INodePtr`s that a process has |
| `GetINodeBlock`, `EndRead`, `FindFree`, `Allocated`, `StartWrite`, `EndWrite` | what they do with the inode block in hand |
| `Fails`, `Unwound` | an exception, and the destructors |

The inode block is `inb`, the process that holds it (`BlockCache` shows that there is one). It is
read into a local copy, searched or changed, and written, with sleeps in between;
the inode asked for in `FindFree` is asked for while the block is held. `SetINode` is
the assignment that overwrites the flags, the locked flag with them, so two processes
may have one inode: the lock count still counts all of them.

### HostIo and HostTransfer

`HostTransfer` is what a process may expect: its transfer is performed or refused,
once, and it goes on with the outcome. `HostIo` is `io_manager.cpp`:
`Submit` and `Return` are the halves of `HostFilesystemFile::Read` and `Write` around their sleep,
`RefuseFile`, `Issue` and `RequestThreadEnds` are `HandleRequest`, `HostCompletes` is the host, `CreatePort`,
`HandleCompletion` and `CompletionThreadEnds` the completion thread. A request is
found again by the address of its overlapped structure, and addresses are used again. `Transfer ==
INSTANCE HostTransfer WITH phase <- ...` is the refinement: a transfer is performed
when the host has done it, not when the packet is handled.

The code starts the completion thread and does not wait until it has made its port; a file
opened before that is associated with no port (on Windows: with a new one), and its
answers reach nobody; so it is with a file whose association failed, as it counts as opened.
A completion that fails ends the completion thread, and the library's error about the path of a file to be truncated ends the
request thread, with the request in hand. `Unanswerable` names these cases, and everything
else in the model is answered.

### FileTables

`files[p]` is the table of a process, `count` the reader and writer counts of a pipe and
the reference count of a file of the root file system. `StartDup` and `EndDup` are the read
and the write of a count in `Share`, which `dup` calls without the lock; all other
operations take it. `raced` collects files whose count lost a change that way; what follows is
undefined (a pipe deleted in use), so the model stops there. `unheld` counts what
`dup` and `pipe` counted for a descriptor that a full table then refused.

`Exit` makes a process a zombie and begins `CloseFiles`, for the process itself or for its killer;
`CloseNext` is a turn of its loop, `ClosedAll` its end, which clears the table. Before the close of a file of
the root file system the lock is given up, as its inode may be waited for (`HoldsLock`). That close may throw (`CloseFails`): then the loop ends
where it is, the descriptors closed so far stay in the table (`closed`), and a second kill closes them again, which `again` counts.

## 4. Runs

| Run | Instance | What it shows |
|---|---|---|
| `scheduling` | 2 processors, 2 processes, 1 event; sleep, wakeup and kill | no process is lost or run twice (`ExactlyOnePlace`), states and lists agree (`StateTellsPlace`), one thread per kernel fiber (`KernelFiberExclusive`) and always the same one (`FiberAffinity`), registers survive (`ContextIntegrity`), no processor waits for queued work (`NoMissedWork`) |
| `scheduling_life` | 1 processor, 2 slots, all traps but wakeup, fair | `LifeInv`, the inductive invariant of the proofs: places, states when sleepers are killed, registers through fork, exec and sleeps, nothing saved to memory that is gone; `ReadyRuns` and `WokenResumes` |
| `kill_ends_processor` | 2 processors, 2 processes; exit and kill | *violation*: a kill ends the thread of the processor that has the victim (`KillEndsNoProcessor`) |
| `pipe` | 1 reader, 2 writers, 2 byte values, at most 3 bytes | a queue of bytes (`ImplementsFifo`), no lost wake-up (`SleepersHaveReason`), `NotBothEndsAsleep` |
| `pipe_zero_length` | 1 reader, 1 writer, counts 0 and 1 | *violation*: a call of length zero leaves both ends asleep |
| `block_cache` | 2 buffers, 3 blocks, 3 processes that hold up to two, 2 chains | `OneBufferPerBlock`, `LockedMeansHeld`, `SleepersHaveReason`, `CacheCoherent`; if everybody sleeps, the buffers are used up by processes that nest (`NotAllAsleep`) |
| `block_cache_live` | 1 buffer, 2 blocks, 3 processes, fair | `WaiterWakes`, for both kinds of wait |
| `process_table` | 3 slots, wait and waitpid, one process that kills, one kill that fails | `TreeConsistent`, `ReportedOnce`, `WaiterHasLiveChild`, `LiveCounted` |
| `msg_queue` | 2 processes, 1 name, 2 descriptors, 2 opens each, 2 messages, fair | the tables agree (`NamesAgree`), the count of a queue is what its openers have left to close, less the closes by others (`OpenMeansHeld`), no lost wake-up (`SleepersHaveReason`), alarms arrive (`AlarmWakes`) |
| `inode_cache` | 2 processes that hold up to two, 3 inodes, 2 of them cached | lock counts, free list and holders agree (`CountsAgree`), no lost wake-up (`SleepersHaveReason`), no inode is created by two (`CreatedOnce`) |
| `host_io` | 2 processes, 1 host file, 3 requests, fair | `ImplementsTransfer`; a sleeper's request is in one place from which it is answered (`SleepersHaveReason`), and is (`Answered`) |
| `file_tables` | 2 processes, 2 processors, 2 descriptors, 1 pipe, 1 file; exits that fail and second kills | counts and descriptors agree (`PipeEndsAgree`), no descriptor outlives its file (`NoDangling`), but for the race of `dup` and, by so many, descriptors closed again |

### Bounds, and why they are enough

* Two processors and two processes are what the races of the scheduler need: one
  thread leaves a fiber while another has the process, one hands a process over
  while the other falls asleep, one kills what the other is about to run. A
  third of either adds interleavings, not a new pair of regions; and the proofs
  hold for any number. One event suffices because a process sleeps on one at a
  time. The parities tell the previous image or AX from the present one, which is
  the mistake a missed or a double save makes.
* `scheduling_life` has one processor so that its liveness can be checked without
  symmetry; two slots are a parent and a child.
* A pipe of three bytes with counts 1 and 2 is the smallest in which a write grows
  the vector after the positions have moved, wraps, and is cut short; two byte
  values tell an exchange of bytes. The code's limit is 64 KiB.
* Two buffers for three blocks and three processes: a hit, a wait for a key, a wait
  for any buffer, and the reuse of a buffer somebody waited for; each process may hold one
  block while it asks for another. With one buffer and three processes both kinds of
  waiters compete (`block_cache_live`). All can be asleep: processes that each hold a
  block and ask for one more. `NotAllAsleep` says that this is the only way, somebody who
  holds a block waits for any buffer; the default configuration has 256 buffers and 1024 processes,
  so it is the load, not a check in the code, that keeps the kernel away from it.
* Three slots: a parent, a child and a process that forks over a zombie; pids grow
  past the table and wrap. The kills of a process that is dead are bounded by
  `numRunnable > 0`, since the machine stops at zero, the kills that fail half-way by `MaxFailed`: one leaves a
  zombie that the parent was not told of, which is then collected, reused or killed again.
* Two processes and the clock are the three actors of a message queue: one waits, one
  closes, the clock puts. With two descriptors a name is created again after its queue
  was deleted while alarms and waiters still have the old descriptor; two opens of a
  process let an exit release more than one reference; with two messages a queue is
  neither empty nor full.
* Two cached inodes for three inodes and two processes that hold two each: an inode is
  evicted and read again, a lock is taken twice by one process, the cache is full, and one process
  waits for the inode or the block of the other. All first contents of the inode
  block are initial states. The hash chains, which `BlockCache` has, are left out here.
* Three requests of two processes use an address again while another request is under
  way, and let one process ask twice. Requests of different files differ in whether the file is
  gone, opened or without a port; one file goes through all of these.
* Two processes, because the race of `dup` needs two who hold the same end; two
  descriptors, one of them the terminal's until it is closed, hold both ends of a pipe, one end
  twice, or an end and a file whose close fails after or before that of the end, and are full with one
  more. With `MaxCount` 3 one process has an end twice while the other has it too. `MaxAgain` 1: after an end was closed
  again, a process is not killed again; the pipe can be gone under the other process by then.

Symmetry of processors, processes, ends of the pipe or buffers is declared in the
runs without liveness only. `CHECK_DEADLOCK FALSE` is set where the system may
stop: all ends of a pipe are closed, all processes have exited.

### Fairness

`Scheduling!FairSpec` has weak fairness of what a host thread does next in the
code of `Run` and of the kernel (`CpuStep`, `FiberStep`), and of the return of a
trap handler that does not sleep: the host runs every thread. The clock is
part of `CpuStep`: its thread ticks for ever. What programs do is not fair: they may
never trap. `BlockCache!FairSpec` says that a process in `GetBlock` goes on, that a
transfer ends, well or badly, and that holders put their blocks (strong fairness,
as a holder may start another transfer in between): `BlockPtr` is released by scope.
`MsgQueue!FairSpec` says that the clock thread comes to every alarm (strong fairness, as
processes take the lock in between) and finishes its tick, and that a process which
deletes a queue gets the lock. No program has to put a message. `HostIo!FairSpec` has weak fairness
of the request thread, of the completion thread (its port is made or fails, and it handles each
packet), and of the host, which completes what it has taken, well or badly. That a thread
ends is no fairness: `CompletionThreadEnds` and `RequestThreadEnds` are steps that a failed packet or the
host's library allow.

## 5. Findings

* **A kill ends the thread of a processor** (`kill_ends_processor`). `Kill` makes the victim a
  zombie and frees its memory whatever another processor is doing with it. `SetRunning` overwrites the
  state without looking (`kernel/process.cpp:488`), and the first use of the memory, in `RestoreContext`, in the fetch of an
  instruction, or where a clock interrupt saves the registers, throws. `Run` catches that outside its loop (`machine/processor.cpp:135`), `RunKernel` gives it to the
  processor; either way the machine has an exception and ends, with every process in it. The run `scheduling_life`, on
  one processor, and the theorems, on any number, show what holds with kills up to then.
* **Zero bytes block a pipe** (`pipe_zero_length`). A write of zero bytes to an empty
  pipe sets `full`, a read of zero bytes from a full one sets `empty`; with both set,
  reader and writer wait for each other (`kernel/pipe.cpp:189`).

The models contain more that no run states as a property, because no document says otherwise, or because the
disagreement is visible at the line once the situation is known (the second and the third):

* **An exit that fails half-way.** A close in `CloseFiles` may throw, for a file whose inode cannot be
  read (`kernel/file.cpp:119`, `kernel/root_fs.cpp:59`). The rest of the descriptors is not closed, so that the other ends of its pipes
  never see end of file; the table keeps those that were closed; the parent is not woken and the process
  not counted out. A second kill closes the same descriptors again: the counts of pipe ends go down twice, and the pipe can be deleted
  under the descriptors of other processes. `PipeEndsAgree` says by how much the counts are off then, `NoDangling` promises nothing for such a pipe.
* **`ENOCHILD` with children.** `CreateProcess` reuses the slot of a zombie that its parent
  was woken for and has not collected; `Wait` then reports `ENOCHILD` although other children
  live (`kernel/process_manager.cpp:82`, `kernel/process.cpp:664`), while `src/cmajor/doc/system-x/kernel/traps.html:161` gives that error for "when
  there are no more child processes to wait". `ProcessTable` has the reuse; `WaiterHasLiveChild`, which is about
  those that sleep, and `ReportedOnce` hold with it.
* **Woken to an empty queue.** One message wakes all who wait for it; after its sleep `WaitMsgLocked`
  looks whether the queue is open and not whether it is empty, so all but one return 0
  with nothing to get (`kernel/msg_queue.cpp:260`), while `traps.html:484` says "waits until message queue is not empty".
* **Two creators wait for each other.** `AllocateINode` asks for the inode it found while it holds
  the inode block. If the process that found the same inode before has locked it and asks for
  the block to write it, neither goes on (`kernel/fs.cpp:481`). With fairness of the kernel added to
  `INodeCache`, TLC finds it; on one processor it takes a sleep of the first creator between the
  two, which `MkDir` has when it allocates the block of the directory.
* **Answers that reach nobody.** A host file opened before the completion thread has made its
  port, or whose association with it failed, leaves its requesters asleep for good (`kernel/io_manager.cpp:255`); so does an exception that ends
  a thread: one failed completion (`:213`), or an error of `std::filesystem::exists`, which `HandleRequest` does not catch (`:226`). `HostIo` shows
  that nothing else in its model does.
* **`dup` on a full table leaks a count** (`kernel/file.cpp:134`): the other end never sees
  end of file. `unheld` in `FileTables` is that count.

## 6. Proofs

Each module has a proof module, `<Module>Proofs`. Every invariant that a run checks, and
both refinements, are proved for every value of the constants that the named assumptions
allow, from an inductive invariant that was checked by TLC first.

### What a proof module looks like

Lemmas about sequences, sets and counts come first, then the inductive invariant as named
parts, then a lemma per action, with a step per part that the action can disturb. `Init...`,
`Next...` and `PTL` give `Invariance`; what the runs check follows from it. Sums and
counts are treated by one-step lemmas (a set grows or shrinks by one element), as induction
over data is out of the prover's reach.

### Scheduling

For any set of processors, any finite set of slots, any events and any subset of the traps,
kill included:

| Theorem | Property |
|---|---|
| `Invariance` | `SchedulingInv`, the inductive invariant of places and threads |
| `TypeCorrect` | `TypeOK` |
| `NeverLostNorTwice` | `ExactlyOnePlace` |
| `OneProcessorPerFiber` | `KernelFiberExclusive` |
| `FiberStaysHome` | `FiberAffinity` |
| `NoLostNotification` | `NoMissedWork` |
| `LifeInvariance` | `LifeInv`, the same with states and registers |
| `StateTellsThePlace` | `StateTellsPlace` |
| `RegistersAreItsOwn` | `ContextIntegrity` |

Assumptions: `CpusAssumption`, `ProcsAssumption`, `TrapsAssumption`, `FiniteProcs`.

*Why a strengthening is needed.* `ExactlyOnePlace` alone is not inductive. When
`GetRunnableProcess` hands over a process that is runnable in the kernel, nothing in
the property says that its `kernelProcessor` is the processor whose fiber
it is, that the fiber really is suspended, or that no other thread is still leaving
it. `SchedulingInv` (module `SchedulingInvariant`) adds these as named parts:

* `PlacesDisjoint`, `Located`, `CreatedNowhere`: run queue, kernel queues, event lists
  and processors hold each process at most once, a live one at least once, a slot
  not in use never;
* `ThreadInv`: what a thread may rely on at each point of `Run` (its local variable,
  `currentProcess`, the back pointers of the process);
* `Handshake`: the flag `inKernel` says whether a thread is inside the kernel fiber, and
  a thread that got past `WaitNotInKernel` has the fiber at its top;
* `FiberPlace`: how far the fiber of a process has got, by where the process is: a process
  asleep or in a kernel queue has its fiber suspended on exactly that processor,
  one that is queued for user mode has it at the top or on its way out;
* `FiberInv`: what the code of a kernel fiber may rely on, in particular that its frame
  names the thread that executes it.

`LifeInv` adds `StateInv` and `RegistersInv`. The destructor of `RunningKernelGuard` restores
a state that was read in another critical section: `StateInv` says that the state kept in the
frame is that of a process that ran or was killed, never of one on a list. A trap's result and
the registers are in one of two places, those of the processor (`InRegisters`) or the memory of
the process (`Saved`), and `saveContext` and `useRegAX` say which: `RegistersInv` says that
wherever they are they are its own, and that a fiber that slept has saved them. Nothing is
said of the registers of a process that has no memory any more (`HasMemory`): its next use of them throws. `KeptInv` is all this, from which the
properties follow; `LifeInv` adds `UnsavedInv`, that a killed process which has not saved its registers is a zombie, or will be, by the
time its fiber looks, so that `RunKernel` never saves registers to memory that is gone.

`OneMoves` is the central lemma: if only one process changes its place, and the
places it leaves and enters are exclusive, all stay disjoint. `NoLostNotification` is no
consequence of the invariant: that the predicate of the waiting threads is evaluated
again is itself invariant (`QuietStep`, `NotifiedStep`).

### Pipe

For any disjoint, finite sets of readers and writers and any `MaxPipeSize`, under `PipeAssumption`:

| Theorem | Property |
|---|---|
| `Invariance`, `TypeCorrect`, `NoLostWakeup` | `PipeInv`, `TypeOK`, `SleepersHaveReason` |
| `RingInvariance` | `RingInv`, if no call asks for zero bytes |
| `EndsDoNotDeadlock` | `NotBothEndsAsleep`, if no call asks for zero bytes |
| `PipeIsFifo` | `ImplementsFifo`, if no call asks for zero bytes |

`PipeInv` holds with calls of any length: the positions stay inside the vector, the counts are those of
the processes that have the ends open, and nobody sleeps without reason. `FlagsTellTheRing` (the
positions meet exactly when the pipe is empty or full, and it is never both) needs the hypothesis
`0 \notin Counts`: `pipe_zero_length` shows that it fails without, and that both ends then sleep. For the
refinement, `Contents` is described byte by byte (`IsContents`); a read is shown to take a prefix of it, a write
to append one of its buffer, in each of the layouts: unread bytes that wrap or not, one, two or
three pieces, with and without growth of the vector.

### BlockCache

For any processes, finite sets of buffers and keys, any number of hash chains and any `MaxHeld`, under
`CacheAssumption`:

| Theorem | Property |
|---|---|
| `Invariance`, `TypeCorrect` | `CacheInv`, `TypeOK` |
| `NeverCachedTwice` | `OneBufferPerBlock` |
| `OneHolder` | `LockedMeansHeld` |
| `NoLostWakeup` | `SleepersHaveReason` |
| `CacheIsCoherent` | `CacheCoherent` |
| `NoCircle` | `NotAllAsleep` |
| `NotReusedUnderItsHolder` | the action property `HeldKeepsItsBlock`, stated in the proof module: no step re-keys a held buffer or makes it unread |

`FreeListExact` is the part that is hard: the code erases a free buffer by an iterator it kept in
the entry, so that the entry of each cached, unlocked buffer must remember its own place.
`CallsNest` says that a process asks for a block above those it holds; with it `NoCircle` takes the process
that waits for the greatest key: its holder can wait only for any buffer, and then nothing is free.

### ProcessTable

For a table of any size, any sets of processes that kill and of arguments of waitpid, under `TableAssumption`:
`Invariance`, `TypeCorrect`, `TreeIsConsistent` (`TreeConsistent`), `NeverReportedTwice` (`ReportedOnce`), `NoLostExit`
(`WaiterHasLiveChild`) and `NeverTooMany` (`LiveCounted`). The five properties are inductive only together: that a waiter has a live child rests on the
tree, because the exit that wakes it goes through the pointer to the parent; that an exit is reported
once rests on the child being taken off the list of one parent. With kills that fail half-way, `missed` and `failedKills` say whom and what the last two exempt.

### MsgQueue

For any finite set of processes, any names and bounds, under `QueueAssumption`: `Invariance`, `TypeCorrect`, `TablesAgree`
(`NamesAgree`), `NothingLeaks` (`OpenMeansHeld`) and `NoLostWakeup` (`SleepersHaveReason`). `OpenMeansHeld` is an equality: the count, with the closes by processes that did not have the queue open (`foreign`), is the
number of entries for it in the lists of the processes. `QueueInv` adds `Fresh` (a descriptor that was not given out yet is in no table
and in nobody's list, and was closed by nobody), without which a new queue could inherit holders, `CallsHaveTarget`, and `Bounded`, which keeps the model's bound on messages
while the clock carries one.

### INodeCache

For any finite set of inodes, any processes and any size of the cache, under `INodeCacheAssumption`: `Invariance`,
`TypeCorrect`, `CountsOfInodes` (`CountsAgree`), `NoLostWakeup` (`SleepersHaveReason`) and
`CreatedByOne` (`CreatedOnce`). `NotEvictedWhileHeld` adds an action property, `HeldStaysCached`: no step evicts an inode
that somebody holds or makes it unread; it follows from the counts of pointers (`VictimIsFree`). `Owning` and `HasLock` are what `CreatedOnce` needs: from the miss until the inode is
read, and from the allocation until the new inode is written, the process has the inode cached and
locked, and only reading it loses the flag. `Reason` says of a sleeper that somebody has its inode and that its
event is one that the last `PutINode` raises.

### HostIo

For any processes, files, addresses and number of requests, under `HostIoAssumption`:

| Theorem | Property |
|---|---|
| `Invariance`, `TypeCorrect` | `IInv` with `RequestInv`, `TypeOK` |
| `OneAnswerPerAddress` | `AddressesKept`: the address of a request stays its own until its one answer has come |
| `NoLostWakeup` | `SleepersHaveReason` |
| `TransferIsDone` | `ImplementsTransfer` |

`IInv` is `TypeOK /\ AddressesKept`. The types are not inductive alone: a completion at an
address that no request has would put something that is no request into `performed`. `RequestInv` adds that a request is
in one place at most (`OncePlaced`), that nothing is decided about it before it is refused or the host answers
(`DecidedOnce`), that a file at which the host works has a handle (`HandlesKept`), and that each process waits for a request
of its own (`Waits`). For the refinement each action is shown to be one step of one process of
`HostTransfer`, or a stutter (`TransferStep`, `DecidesOne`); `CountedOnce` turns the three counts of
`Places` into membership.

### FileTables

For any processes, processors, size of the table, pipes and files, under `FileTablesAssumption`: `Invariance`, `TypeCorrect`,
`PipeEndsCounted` (`PipeEndsAgree`) and `NothingDangles` (`NoDangling`). `DupHolds` is what the two halves of `dup` need: while
no race was recorded, the count that was read is still the count, and the descriptor that is copied is still there.
For files of the root file system the count and the descriptors differ once one of them was closed, as the code releases
without counting: `RootCounted` is what remains true. An exit under way or cut short is in the relation of counts and tables
through `closed`: the descriptors counted are those that are still to be closed, and what an exit left behind is moved to `unheld` when its slot is used again.

### What is assumed

The named assumptions only: finiteness where the code counts (slots of a table, processes, buffers), identifiers that
are not confused with the values for none, sizes that are natural numbers and at least one where the
code divides or indexes by them.

### What is only model-checked

Liveness under fairness, which with ENABLED is beyond the prover: `ReadyRuns`, `WokenResumes`, `WaiterWakes`, `AlarmWakes`
and `Answered`. The two violations are TLC's as well.

## 7. What the models abstract

* Data: names, paths, permissions, the contents of memory beyond what section 3 says.
* `Pipe`, `BlockCache`, `ProcessTable` take a call between two sleeps as one step, because
  it runs under the machine lock. For `BlockCache` a failing transfer is any failure
  of the host request. In `BlockCache` the order in which a process takes nested blocks
  is the order of the keys.
* `Scheduling` has no process tree and no exit of the machine; `ProcessTable` has no
  processors, so it lets a process be killed only while it sleeps or when it is dead.
* The closing of files in an exit is in `FileTables`, one descriptor at a time. In `Scheduling` it neither sleeps nor fails; in `ProcessTable` it
  does not sleep, and fails in kills only; in `MsgQueue`, whose queues such an exit would leave open, it does not fail. When a process's own exit throws, nothing catches
  it and the machine ends with an exception (`TrapExitHandler`), while `TrapKillHandler` catches the `SystemError` of a kill. In the code a close may sleep while the machine
  lock, which is recursive, is held twice: `PROJECT.json` lists it as a hazard.
* What a machine with an exception does is not modelled: the main program prints the exception and exits (`sxx/main.cpp`). So are errors
  that end it from `Fork` after it has taken a slot (`MemoryError`, `kernel/process.cpp:582`) and from `Wait` when it writes the exit code.
* `Scheduling` has no debugger, which would keep the memory of a process that exits.
* In `Pipe`, `result` is what the end of the pipe gave to `read`. Writing it to the memory of the process may still fail
  (`WriteProcessMemory`, `kernel/io.cpp:200`): the trap then returns -1, and the bytes are gone from the pipe.
* `MsgQueue` has one processor. With more, the calls that take no lock also run beside each
  other, and their accesses to the tables are data races: `PROJECT.json` lists them as a hazard. So, with one processor, is
  `GetMsg`, which takes no lock, beside the put of the clock thread (`kernel/msg_queue.cpp:345`): both are one step each in the model.
  Of the clock it has the alarms that put messages; alarms that wake sleepers are the
  `DeviceWakeup` of `Scheduling`. Descriptors are never used again in the code, so
  `MaxQueues` bounds the history of a machine, not a table.
* `INodeCache` has one inode block, no super block (whose counts and start of the search are written by
  its callers) and of an inode only whether it is used. A process keeps the
  inodes it has in any order; directories, which decide the order in the code, are left out.
* `HostIo` leaves out the exit of its threads, the path table of host files and the number of bytes;
  a file is closed at most once and its identifier is never used again, as in the code.
* In `FileTables` the close of a file of the root file system is one step once it has its inode; that it frees the blocks and the inode of
  a file without links, and may fail there, changes only inodes and is left out. A process is not killed inside a `close`, a `dup` or an exit, and a killed one
  makes no more calls. The close of a pipe end uses the processor of the process that closes (`kernel/pipe.cpp:246`): of one that is on none that is a null pointer, so the model
  lets only processes be killed that have no pipe end, that another processor may run, or that are dead already. A use of a file or pipe that was deleted is undefined, and the model does not go on from it.
* Limits that the models do not show are in the hazards of `PROJECT.json` with a note.

## 8. What is not modelled, and why

* Interrupt registers, start and stop of the machine, `LockIO`, the allocation of blocks: section 2. The table
  of host file paths and what uses it is sequential.
* Memory, instructions, heap, regions, loading: sequential functions over large tables;
  a process in user mode is one slice in `Scheduling`.
* Terminal, guiterm, debuggers (`sxcdb`, `sxgmdb`): threads that wrap the host's console.
* Tool chain of System X (assembler, object files, intermediate code, back ends): sequential
  translators.
* The Cmajor compiler (`src/cmajor/binder`, `symbols`, `parser`, ...): sequential, largely generated
  lexers and parsers.
* Build, servers, debug server, package manager: threads around queues and sockets, possible
  later modules.
* Run time, GUI, IDE, tools under `src/util`, `src/soul`, `src/wing`; vendored code under `src/ext`.

## 9. Running

    tlc -config Scheduling.cfg MCScheduling.tla
    tlapm SchedulingProofs.tla

`PROJECT.json` pairs every run with its module, configuration and properties, every property
with a mutant that it catches, and every definition with the lines it models.
