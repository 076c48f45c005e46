------------------------ MODULE SchedulingInvariant ------------------------
(* The inductive invariant behind the safety properties of Scheduling. Its  *)
(* parts say who is responsible for a process, which of its fields can be   *)
(* relied on meanwhile, and how far its kernel fiber may have got.          *)
EXTENDS Scheduling

Distinct(s) == \A i, j \in DOMAIN s : s[i] = s[j] => i = j

InQueue(p) == p \in Elements(queue)
InKernelQ(c, p) == p \in Elements(kernelQ[c])
Asleep(e, p) == p \in sleeping[e]

\* The thread has a process in its local variable.
Carrying == {"kresume", "kenter", "prepare", "uwait", "urun", "user", "ienter",
             "fiber", "left"}
\* Where the kernel fiber of a process that is to run in user mode may be: it may
\* still be on its way out, on the processor that made the process runnable.
UserFiber == {"none", "top", "unguard", "finish", "leave"}

\* The fiber of p has slept, or is about to, in a turn that c captured.
SuspendedOn(p, c) ==
    /\ c \in CPUs
    /\ fpc[p] \in {"release", "asleep"}
    /\ frame[p].processor = c /\ frame[p].main = c

\* The process is in no two of the run queue, the kernel queues, the event lists
\* and the processors.
OnePlace(p) ==
    /\ \A c, k \in CPUs : InKernelQ(c, p) /\ InKernelQ(k, p) => c = k
    /\ \A e, f \in Events : Asleep(e, p) /\ Asleep(f, p) => e = f
    /\ \A c, k \in CPUs : Holds(c, p) /\ Holds(k, p) => c = k
    /\ \A c \in CPUs : InQueue(p) => ~InKernelQ(c, p) /\ ~Holds(c, p)
    /\ \A e \in Events : InQueue(p) => ~Asleep(e, p)
    /\ \A c \in CPUs, e \in Events :
           Asleep(e, p) => ~InKernelQ(c, p) /\ ~Holds(c, p)
    /\ \A c, k \in CPUs : InKernelQ(c, p) => ~Holds(k, p)

\* No process is in two places, and no list has a process twice.
PlacesDisjoint ==
    /\ Distinct(queue)
    /\ \A c \in CPUs : Distinct(kernelQ[c])
    /\ \A p \in Procs : OnePlace(p)

\* A process that has started and not exited is somewhere.
Somewhere(p) ==
    \/ InQueue(p)
    \/ \E c \in CPUs : InKernelQ(c, p)
    \/ \E c \in CPUs : Holds(c, p)
    \/ \E e \in Events : Asleep(e, p)

Located == \A p \in Procs : ~Dead(p) => Somewhere(p)

\* A slot that is not in use is nowhere.
Unused(p) ==
    /\ fpc[p] = "none" /\ ~inKernel[p]
    /\ ~InQueue(p)
    /\ \A c \in CPUs : ~InKernelQ(c, p)
    /\ \A c \in CPUs : cpc[c] \in Carrying => cproc[c] # p
    /\ \A e \in Events : ~Asleep(e, p)

CreatedNowhere == \A p \in Procs : state[p] = "created" => Unused(p)

\* What the thread of a processor may rely on at each point of Run.
ThreadInv ==
    \A c \in CPUs :
        /\ cpc[c] # "wrongFiber"
        /\ cpc[c] \in Carrying => cproc[c] \in Procs
        /\ fiberOf[c] = IF cpc[c] = "fiber" THEN cproc[c] ELSE NoProc
        /\ cpc[c] \in {"kenter", "uwait", "urun", "user", "ienter"} =>
               current[c] = cproc[c]
        /\ cpc[c] = "fiber" => current[c] \in {cproc[c], NoProc}
        /\ cpc[c] \in {"kenter", "user", "ienter"} => processor[cproc[c]] = c
        /\ cpc[c] \in {"kenter", "ienter"} => mainFiber[cproc[c]] = c
        /\ cpc[c] = "ienter" => handler[cproc[c]] # "none"

\* The flag inKernel says whether some processor is inside the kernel fiber; one
\* that runs the process in user mode has seen that none is.
Handshake ==
    \A c \in CPUs :
        /\ cpc[c] \in {"fiber", "left"} => inKernel[cproc[c]]
        /\ cpc[c] \in {"urun", "user", "ienter"} =>
               ~inKernel[cproc[c]] /\ fpc[cproc[c]] = "top"
        /\ \A k \in CPUs : /\ cpc[c] \in {"fiber", "left"}
                           /\ cpc[k] \in {"fiber", "left"}
                           /\ cproc[c] = cproc[k]
                           => c = k

\* How far the kernel fiber of a process has got, by where the process is.
FiberAt(p) ==
    /\ (\A c \in CPUs : ~(cpc[c] = "fiber" /\ cproc[c] = p)) =>
           fpc[p] \in {"none", "top", "asleep"}
    /\ fpc[p] \in {"handle", "release", "asleep", "awake", "done", "unguard"} =>
           frame[p].prev # "created"
    /\ InQueue(p) =>
           /\ state[p] \in {"runnableInUser", "runnableInKernel", "zombie"}
           /\ state[p] = "runnableInUser" => fpc[p] \in UserFiber
           /\ state[p] = "runnableInKernel" => SuspendedOn(p, kernelProcessor[p])
    /\ \A e \in Events : Asleep(e, p) => SuspendedOn(p, kernelProcessor[p])
    /\ \A c \in CPUs :
           /\ InKernelQ(c, p) => SuspendedOn(p, c)
           /\ cproc[c] = p =>
                  /\ cpc[c] \in {"kresume", "kenter"} => SuspendedOn(p, c)
                  /\ cpc[c] \in {"prepare", "uwait"} => fpc[p] \in UserFiber
                  /\ cpc[c] = "uwait" => fpc[p] # "none"

FiberPlace == \A p \in Procs : FiberAt(p)

\* What the code of a kernel fiber may rely on.
FiberInv ==
    \A c \in CPUs : cpc[c] = "fiber" =>
        LET p == cproc[c] IN
        /\ fpc[p] # "none"
        /\ mainFiber[p] = c
        /\ fpc[p] = "top" => handler[p] # "none"
        /\ fpc[p] # "top" => frame[p].processor = c /\ frame[p].main = c
        /\ fpc[p] \in {"top", "guard", "handle", "asleep", "awake", "done"} =>
               current[c] = p /\ processor[p] = c
        /\ fpc[p] = "release" => current[c] = NoProc
        /\ fpc[p] \in {"unguard", "finish"} =>
               \/ current[c] = p /\ processor[p] = c
               \/ current[c] = NoProc /\ processor[p] = NoCpu
        /\ fpc[p] = "leave" /\ current[c] = p => state[p] = "zombie"

\* The strengthening that is inductive.
SchedulingInv ==
    /\ TypeOK
    /\ PlacesDisjoint
    /\ Located
    /\ CreatedNowhere
    /\ ThreadInv
    /\ Handshake
    /\ FiberPlace
    /\ FiberInv

-----------------------------------------------------------------------------
(* The state of a process and its registers; inductive with SchedulingInv. *)

\* The processor c has interrupted p, or is about to, and no handler runs yet.
Interrupted(c, p) ==
    /\ cproc[c] = p
    /\ cpc[c] \in {"user", "ienter"} \/ (cpc[c] = "fiber" /\ fpc[p] \in {"top", "guard"})

\* Its handler took p off the processor c, and the guard is to be left.
Requeued(c, p) ==
    cpc[c] = "fiber" /\ cproc[c] = p /\ fpc[p] = "unguard" /\ current[c] = NoProc

\* What StateTellsPlace says of p; and the state that the destructor of
\* RunningKernelGuard restores is that of a process that ran, or of one that was killed,
\* never of one that is on a list.
StateOf(p) ==
    /\ ~Dead(p) =>
           /\ state[p] = "asleep" <=> \E e \in Events : Asleep(e, p)
           /\ InQueue(p) => Runnable(p)
           /\ \A c \in CPUs : InKernelQ(c, p) =>
                  state[p] = "runnableInKernel" /\ kernelProcessor[p] = c
    /\ \A c \in CPUs :
           /\ Interrupted(c, p) => state[p] \in {"running", "zombie"}
           /\ Requeued(c, p) => state[p] \in {"runnableInUser", "zombie"}
    /\ fpc[p] \in {"handle", "release", "asleep", "awake", "done", "unguard"} =>
           frame[p].prev \in {"running", "zombie"}
    /\ fpc[p] \in {"handle", "awake"} => state[p] \in {"runningKernel", "zombie"}

StateInv == \A p \in Procs : StateOf(p)

\* What the registers of p should be.
Expected(p) == [owner |-> p, image |-> image[p], ax |-> ax[p]]

\* p is on the processor c, with its kernel fiber at one of these points.
AtWork(c, p, pcs) == cpc[c] = "fiber" /\ cproc[c] = p /\ current[c] = p /\ fpc[p] \in pcs

\* The registers of p are those of the processor c, and are yet to be saved.
InRegisters(c, p) ==
    \/ cproc[c] = p /\ cpc[c] \in {"user", "ienter"}
    \/ AtWork(c, p, {"top", "guard", "handle"})
    \/ /\ AtWork(c, p, {"done", "unguard", "finish"})
       /\ saveContext[p] /\ state[p] \notin {"exec", "zombie"}

\* Exec has replaced the saved registers, and is to return its result.
Execing(p) == fpc[p] = "done" /\ state[p] = "exec"

\* They are saved in the memory of the process, but for AX if useRegAX is set.
Saved(p) ==
    \/ InQueue(p)
    \/ \E e \in Events : Asleep(e, p)
    \/ \E c \in CPUs :
           \/ InKernelQ(c, p)
           \/ cproc[c] = p /\ cpc[c] \in {"kresume", "kenter", "prepare", "uwait", "urun"}
           \/ AtWork(c, p, {"asleep", "awake"})
           \/ /\ AtWork(c, p, {"done", "unguard", "finish"}) /\ ~Execing(p)
              /\ state[p] = "exec" \/ (state[p] # "zombie" /\ ~saveContext[p])

\* The registers of p are what they should be wherever they are, and a fiber that slept
\* has saved them. Nothing is said of a process that has exited, or was killed, once its
\* handler has returned: it has none.
RegistersOf(p) ==
    /\ \A c \in CPUs : InRegisters(c, p) =>
           saveContext[p] /\ ~useRegAX[p] /\ regs[c] = Expected(p)
    /\ Execing(p) /\ HasMemory(p) =>
           /\ context[p] = [owner |-> p, image |-> image[p], ax |-> 1 - ax[p]]
           /\ saveContext[p] => ~useRegAX[p]
    /\ Saved(p) /\ HasMemory(p) => RestoredRegisters(p) = Expected(p)
    /\ fpc[p] \in {"release", "asleep", "awake"} => ~saveContext[p]
    /\ state[p] = "created" => ~useRegAX[p]

\* The registers of a process without memory that are yet to be saved: from the
\* interrupt on it is a zombie, or its guard makes it one again before Finish.
UnsavedOf(p) == ~HasMemory(p) /\ saveContext[p] =>
    \A c \in CPUs :
        /\ Interrupted(c, p) \/ AtWork(c, p, {"finish"}) => state[p] = "zombie"
        /\ AtWork(c, p, {"handle", "done", "unguard"}) =>
               state[p] = "zombie" \/ (state[p] = "runningKernel" /\ frame[p].prev = "zombie")

RegistersInv == \A p \in Procs : RegistersOf(p)
UnsavedInv == \A p \in Procs : UnsavedOf(p)

\* The inductive invariant with the states and the registers, from which StateTellsPlace
\* and ContextIntegrity follow; and with what keeps Finish from saving registers to
\* memory that is not there.
KeptInv == SchedulingInv /\ StateInv /\ RegistersInv
LifeInv == KeptInv /\ UnsavedInv
=============================================================================
