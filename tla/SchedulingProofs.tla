-------------------------- MODULE SchedulingProofs --------------------------
(* Proofs that the specification of Scheduling maintains its invariants,    *)
(* for any number of processors, processes and events.                      *)
EXTENDS SchedulingInvariant, FiniteSetTheorems, SequenceTheorems, TLAPS

-----------------------------------------------------------------------------
(* Lists without duplicates.                                               *)

\* Append puts one more element into a list (Scheduler::AddRunnableProcess,
\* Processor::AddRunnableKernelProcess).
LEMMA AppendElements ==
    ASSUME NEW S, NEW s \in Seq(S), NEW x \in S
    PROVE  /\ Append(s, x) \in Seq(S)
           /\ Elements(Append(s, x)) = Elements(s) \cup {x}
           /\ Distinct(s) /\ x \notin Elements(s) => Distinct(Append(s, x))
           /\ Append(s, x) # <<>>
<1> DEFINE t == Append(s, x)
<1>1. /\ t \in Seq(S) /\ t # <<>>
      /\ DOMAIN s = 1 .. Len(s) /\ Len(s) \in Nat
      /\ DOMAIN t = 1 .. Len(s) + 1
      /\ \A i \in 1 .. Len(s) : t[i] = s[i]
      /\ t[Len(s) + 1] = x
  BY AppendProperties, LenProperties
<1> HIDE DEF t
<1>2. Elements(t) = Elements(s) \cup {x}
  BY <1>1, SMT DEF Elements
<1>3. Distinct(s) /\ x \notin Elements(s) => Distinct(t)
  BY <1>1, SMT DEF Elements, Distinct
<1> QED  BY <1>1, <1>2, <1>3 DEF t

\* What is left of a list behind one of its elements does not have that element.
LEMMA SuffixElements ==
    ASSUME NEW S, NEW s \in Seq(S), NEW i \in DOMAIN s
    PROVE  /\ SubSeq(s, i + 1, Len(s)) \in Seq(S)
           /\ s[i] \in S
           /\ Elements(SubSeq(s, i + 1, Len(s))) = {s[j] : j \in (i + 1) .. Len(s)}
           /\ Distinct(s) => /\ Distinct(SubSeq(s, i + 1, Len(s)))
                             /\ s[i] \notin Elements(SubSeq(s, i + 1, Len(s)))
<1> DEFINE t == SubSeq(s, i + 1, Len(s))
<1>1. DOMAIN s = 1 .. Len(s) /\ Len(s) \in Nat /\ i \in 1 .. Len(s)
      /\ \A j \in 1 .. Len(s) : s[j] \in S
  BY LenProperties, ElementOfSeq
<1>2. /\ t \in Seq(S)
      /\ Len(t) = Len(s) - i
      /\ \A j \in 1 .. Len(s) - i : t[j] = s[i + j]
  <2>1. \A j \in (i + 1) .. Len(s) : s[j] \in S
    BY <1>1
  <2>2. /\ t \in Seq(S)
        /\ Len(t) = IF i + 1 <= Len(s) THEN Len(s) - (i + 1) + 1 ELSE 0
        /\ \A j \in 1 .. Len(s) - (i + 1) + 1 : t[j] = s[(i + 1) + j - 1]
    BY <1>1, <2>1, SubSeqProperties
  <2> QED  BY <1>1, <2>2
<1>3. DOMAIN t = 1 .. Len(s) - i
  BY <1>2, LenProperties
<1> HIDE DEF t
<1>4. Elements(t) = {s[j] : j \in (i + 1) .. Len(s)}
  <2>1. ASSUME NEW y \in Elements(t) PROVE y \in {s[j] : j \in (i + 1) .. Len(s)}
    <3>1. PICK j \in 1 .. Len(s) - i : y = t[j]  BY <1>3 DEF Elements
    <3>2. y = s[i + j] /\ i + j \in (i + 1) .. Len(s)  BY <1>1, <1>2, <3>1
    <3> QED  BY <3>2
  <2>2. ASSUME NEW j \in (i + 1) .. Len(s) PROVE s[j] \in Elements(t)
    <3>1. j - i \in 1 .. Len(s) - i /\ i + (j - i) = j  BY <1>1
    <3>2. t[j - i] = s[j]  BY <1>2, <3>1
    <3> QED  BY <1>3, <3>1, <3>2 DEF Elements
  <2> QED  BY <2>1, <2>2
<1>5. ASSUME Distinct(s) PROVE Distinct(t)
  <2> SUFFICES ASSUME NEW j \in DOMAIN t, NEW k \in DOMAIN t, t[j] = t[k]
               PROVE  j = k
    BY DEF Distinct
  <2>1. /\ i + j \in DOMAIN s /\ t[j] = s[i + j]
        /\ i + k \in DOMAIN s /\ t[k] = s[i + k]
        /\ i \in Int /\ j \in Int /\ k \in Int
    BY <1>1, <1>2, <1>3
  <2>2. i + j = i + k  BY <1>5, <2>1 DEF Distinct
  <2> QED  BY <2>1, <2>2
<1>6. Distinct(s) => s[i] \notin Elements(t)
  BY <1>1, <1>4, SMT DEF Distinct
<1> QED  BY <1>1, <1>2, <1>4, <1>5, <1>6 DEF t

\* Processor::GetRunnableKernelProcess takes the first element of a list.
LEMMA TailElements ==
    ASSUME NEW S, NEW s \in Seq(S), s # <<>>
    PROVE  /\ Head(s) \in S /\ Tail(s) \in Seq(S)
           /\ Elements(s) = Elements(Tail(s)) \cup {Head(s)}
           /\ Distinct(s) => Distinct(Tail(s)) /\ Head(s) \notin Elements(Tail(s))
<1>1. DOMAIN s = 1 .. Len(s) /\ Len(s) \in Nat \ {0} /\ 1 \in DOMAIN s
  BY LenProperties, EmptySeq
<1>2. Head(s) = s[1]  OBVIOUS
<1>3. Tail(s) = SubSeq(s, 1 + 1, Len(s))  BY TailIsSubSeq
<1>4. /\ Tail(s) \in Seq(S) /\ s[1] \in S
      /\ Elements(Tail(s)) = {s[j] : j \in (1 + 1) .. Len(s)}
      /\ Distinct(s) => Distinct(Tail(s)) /\ s[1] \notin Elements(Tail(s))
  <2> DEFINE t == SubSeq(s, 1 + 1, Len(s))
  <2>1. /\ t \in Seq(S) /\ s[1] \in S
        /\ Elements(t) = {s[j] : j \in (1 + 1) .. Len(s)}
        /\ Distinct(s) => Distinct(t) /\ s[1] \notin Elements(t)
    BY <1>1, SuffixElements
  <2>2. Tail(s) = t  BY <1>3
  <2> HIDE DEF t
  <2> QED  BY <2>1, <2>2
<1>5. Elements(s) = {s[j] : j \in (1 + 1) .. Len(s)} \cup {s[1]}
  BY <1>1, SMT DEF Elements
<1> QED  BY <1>2, <1>4, <1>5

\* The processes of an event are queued in some order, each once.
LEMMA OrderElements ==
    ASSUME NEW S, IsFiniteSet(S), NEW w \in Orders(S)
    PROVE  w \in Seq(S) /\ Elements(w) = S /\ Distinct(w)
<1>1. Cardinality(S) \in Nat  BY FS_CardinalityType
<1>2. w \in [1 .. Cardinality(S) -> S] /\ Elements(w) = S  BY DEF Orders
<1>3. w \in Seq(S)  BY <1>1, <1>2, SeqDef
<1>4. w \in Surjection(1 .. Cardinality(S), S)
  BY <1>2 DEF Surjection, Elements
<1>5. IsFiniteSet(1 .. Cardinality(S)) /\ Cardinality(1 .. Cardinality(S)) = Cardinality(S)
  BY <1>1, FS_Interval
<1>6. w \in Injection(1 .. Cardinality(S), S)
  BY <1>4, <1>5, FS_SurjSameCardinalityImpliesInj
<1>7. Distinct(w)
  BY <1>2, <1>6 DEF Injection, IsInjective, Distinct
<1> QED  BY <1>2, <1>3, <1>7

\* EventManager::Wakeup appends them to the run queue.
LEMMA ConcatElements ==
    ASSUME NEW S, NEW s \in Seq(S), NEW w \in Seq(S)
    PROVE  /\ s \o w \in Seq(S)
           /\ Elements(s \o w) = Elements(s) \cup Elements(w)
           /\ /\ Distinct(s) /\ Distinct(w)
              /\ \A x \in Elements(s) : x \notin Elements(w)
              => Distinct(s \o w)
           /\ s \o w # <<>> <=> s # <<>> \/ w # <<>>
<1> DEFINE t == s \o w
<1>1. /\ DOMAIN s = 1 .. Len(s) /\ Len(s) \in Nat
      /\ DOMAIN w = 1 .. Len(w) /\ Len(w) \in Nat
  BY LenProperties
<1>2. /\ t \in Seq(S) /\ Len(t) = Len(s) + Len(w)
      /\ \A i \in 1 .. Len(s) + Len(w) :
             t[i] = IF i <= Len(s) THEN s[i] ELSE w[i - Len(s)]
  BY ConcatProperties
<1>3. DOMAIN t = 1 .. Len(s) + Len(w)  BY <1>2, LenProperties
<1>4. t # <<>> <=> s # <<>> \/ w # <<>>  BY ConcatEqualIffEmpty
<1> HIDE DEF t
<1>5. \A i \in DOMAIN s : i \in DOMAIN t /\ t[i] = s[i]  BY <1>1, <1>2, <1>3
<1>6. \A i \in DOMAIN w : i + Len(s) \in DOMAIN t /\ t[i + Len(s)] = w[i]
  <2> TAKE i \in DOMAIN w
  <2>1. i + Len(s) \in 1 .. Len(s) + Len(w) /\ ~(i + Len(s) <= Len(s)) /\ (i + Len(s)) - Len(s) = i
    BY <1>1
  <2> QED  BY <1>2, <1>3, <2>1
<1>7. \A i \in DOMAIN t : \/ i \in DOMAIN s /\ t[i] = s[i]
                          \/ i - Len(s) \in DOMAIN w /\ t[i] = w[i - Len(s)]
  BY <1>1, <1>2, <1>3
<1>8. Elements(t) = Elements(s) \cup Elements(w)
  BY <1>5, <1>6, <1>7 DEF Elements
<1>9. ASSUME Distinct(s), Distinct(w), \A x \in Elements(s) : x \notin Elements(w)
      PROVE  Distinct(t)
  <2> SUFFICES ASSUME NEW i \in DOMAIN t, NEW j \in DOMAIN t, t[i] = t[j]
               PROVE  i = j
    BY DEF Distinct
  <2> i \in Int /\ j \in Int /\ Len(s) \in Int  BY <1>1, <1>3
  <2>1. CASE i \in DOMAIN s /\ t[i] = s[i] /\ j \in DOMAIN s /\ t[j] = s[j]
    BY <1>9, <2>1 DEF Distinct
  <2>2. CASE /\ i - Len(s) \in DOMAIN w /\ t[i] = w[i - Len(s)]
             /\ j - Len(s) \in DOMAIN w /\ t[j] = w[j - Len(s)]
    <3>1. i - Len(s) = j - Len(s)  BY <1>9, <2>2 DEF Distinct
    <3> QED  BY <3>1
  <2>3. CASE /\ i \in DOMAIN s /\ t[i] = s[i]
             /\ j - Len(s) \in DOMAIN w /\ t[j] = w[j - Len(s)]
    BY <1>9, <2>3 DEF Elements
  <2>4. CASE /\ j \in DOMAIN s /\ t[j] = s[j]
             /\ i - Len(s) \in DOMAIN w /\ t[i] = w[i - Len(s)]
    BY <1>9, <2>4 DEF Elements
  <2> QED  BY <1>7, <2>1, <2>2, <2>3, <2>4
<1> QED  BY <1>2, <1>4, <1>8, <1>9 DEF t

-----------------------------------------------------------------------------
(* What the operators that several actions share do.                       *)

\* The threads other than c stay where they are, or stop waiting for work.
OthersStay(c) ==
    /\ cpc' \in [CPUs -> CpuPc]
    /\ \A k \in CPUs : k # c =>
           cpc'[k] = cpc[k] \/ (cpc[k] = "blocked" /\ cpc'[k] = "sched")

\* Scheduler::AddRunnableProcess queues a process that is not a zombie.
LEMMA QueueOne ==
    ASSUME TypeOK, NEW q \in Procs, NEW s \in ProcessState, NEW c \in CPUs,
           NEW pc \in CpuPc, AddRunnableProcess(q, s, c, pc)
    PROVE  /\ OthersStay(c) /\ cpc'[c] = pc
           /\ queue' \in Seq(Procs)
           /\ state' = IF state[q] # "zombie" THEN [state EXCEPT ![q] = s] ELSE state
           /\ Elements(queue') =
                  IF state[q] # "zombie" THEN Elements(queue) \cup {q} ELSE Elements(queue)
           /\ Distinct(queue) /\ ~InQueue(q) => Distinct(queue')
<1>1. /\ queue \in Seq(Procs)
      /\ cpc \in [CPUs -> CpuPc]
      /\ Notified \in [CPUs -> CpuPc]
      /\ \A k \in CPUs : Notified[k] = IF cpc[k] = "blocked" THEN "sched" ELSE cpc[k]
  BY DEF TypeOK, Notified, CpuPc
<1>2. CASE state[q] # "zombie"
  <2>1. /\ state' = [state EXCEPT ![q] = s]
        /\ queue' = Append(queue, q)
        /\ cpc' = [Notified EXCEPT ![c] = pc]
    BY <1>2 DEF AddRunnableProcess
  <2>2. OthersStay(c) /\ cpc'[c] = pc
    BY <1>1, <2>1 DEF OthersStay
  <2>3. /\ queue' \in Seq(Procs)
        /\ Elements(queue') = Elements(queue) \cup {q}
        /\ Distinct(queue) /\ q \notin Elements(queue) => Distinct(queue')
    BY <1>1, <2>1, AppendElements
  <2> QED  BY <1>2, <2>1, <2>2, <2>3 DEF InQueue
<1>3. CASE state[q] = "zombie"
  <2>1. state' = state /\ queue' = queue /\ cpc' = [cpc EXCEPT ![c] = pc]
    BY <1>3 DEF AddRunnableProcess
  <2>2. OthersStay(c) /\ cpc'[c] = pc
    BY <1>1, <2>1 DEF OthersStay
  <2> QED  BY <1>1, <1>3, <2>1, <2>2
<1> QED  BY <1>2, <1>3

Woken(e, s) == {p \in sleeping[e] : s[p] # "zombie"}

\* EventManager::Wakeup moves the processes of an event to the run queue, except
\* the zombies.
LEMMA QueueWoken ==
    ASSUME TypeOK, NEW e \in Events, NEW s \in [Procs -> ProcessState], Wakeup(e, s)
    PROVE  /\ cpc' \in [CPUs -> CpuPc]
           /\ \A k \in CPUs :
                  cpc'[k] = cpc[k] \/ (cpc[k] = "blocked" /\ cpc'[k] = "sched")
           /\ queue' \in Seq(Procs)
           /\ sleeping' = [sleeping EXCEPT ![e] = {}]
           /\ state' = [p \in Procs |-> IF p \in Woken(e, s) THEN "runnableInKernel" ELSE s[p]]
           /\ state' \in [Procs -> ProcessState]
           /\ Elements(queue') = Elements(queue) \cup Woken(e, s)
           /\ /\ Distinct(queue)
              /\ \A p \in Procs : InQueue(p) => ~Asleep(e, p)
              => Distinct(queue')
<1> DEFINE woken == Woken(e, s)
<1>1. /\ queue \in Seq(Procs) /\ woken \subseteq Procs
      /\ cpc \in [CPUs -> CpuPc]
      /\ Notified \in [CPUs -> CpuPc]
      /\ \A k \in CPUs : Notified[k] = IF cpc[k] = "blocked" THEN "sched" ELSE cpc[k]
  BY DEF TypeOK, Notified, CpuPc, Woken
<1>2. IsFiniteSet(woken)
  BY <1>1, FiniteProcs, FS_Subset
<1>3. /\ sleeping' = [sleeping EXCEPT ![e] = {}]
      /\ state' = [p \in Procs |-> IF p \in woken THEN "runnableInKernel" ELSE s[p]]
      /\ cpc' = IF woken # {} THEN Notified ELSE cpc
  BY DEF Wakeup, Woken
<1>4. PICK w \in Orders(woken) : queue' = queue \o w
  BY DEF Wakeup, Woken
<1> HIDE DEF woken
<1>5. w \in Seq(woken) /\ Elements(w) = woken /\ Distinct(w)
  BY <1>2, OrderElements
<1>6. w \in Seq(Procs)
  BY <1>1, <1>5, SeqMonotonic
<1>7. /\ queue' \in Seq(Procs)
      /\ Elements(queue') = Elements(queue) \cup woken
      /\ /\ Distinct(queue) /\ Distinct(w)
         /\ \A x \in Elements(queue) : x \notin Elements(w)
         => Distinct(queue')
  BY <1>1, <1>4, <1>5, <1>6, ConcatElements
<1>8. state' \in [Procs -> ProcessState]
  BY <1>3 DEF ProcessState
<1>9. ASSUME Distinct(queue), \A p \in Procs : InQueue(p) => ~Asleep(e, p)
      PROVE  Distinct(queue')
  BY <1>1, <1>5, <1>7, <1>9 DEF InQueue, Asleep, woken, Woken
<1> QED  BY <1>1, <1>3, <1>7, <1>8, <1>9 DEF woken

\* Processor::ResetCurrentProcess takes the current process off its processor.
LEMMA ResetOne ==
    ASSUME TypeOK, NEW c \in CPUs, NEW save \in BOOLEAN, NEW setKernel \in BOOLEAN,
           ResetCurrentProcess(c, save, setKernel)
    PROVE  /\ current[c] \in Procs
           /\ context' \in [Procs -> Registers]
           /\ saveContext' \in [Procs -> BOOLEAN]
           /\ kernelProcessor' = IF setKernel THEN [kernelProcessor EXCEPT ![current[c]] = c]
                                 ELSE kernelProcessor
           /\ processor' = [processor EXCEPT ![current[c]] = NoCpu]
           /\ current' = [current EXCEPT ![c] = NoProc]
<1>1. current[c] \in Procs
  BY DEF TypeOK, ResetCurrentProcess
<1>2. context' \in [Procs -> Registers] /\ saveContext' \in [Procs -> BOOLEAN]
  BY <1>1 DEF TypeOK, ResetCurrentProcess
<1>3. kernelProcessor' = IF setKernel THEN [kernelProcessor EXCEPT ![current[c]] = c]
                         ELSE kernelProcessor
  BY <1>1 DEF TypeOK, ResetCurrentProcess
<1> QED  BY <1>1, <1>2, <1>3 DEF ResetCurrentProcess

-----------------------------------------------------------------------------
(* Every action maintains every part of the invariant.                     *)

USE CpusAssumption, ProcsAssumption
    DEF InQueue, InKernelQ, Asleep, cpuVars, procVars, fiberVars, ghostVars

\* Changes of one field of a record keep its type.
LEMMA FlippedBit == \A x \in Bit : 1 - x \in Bit
BY DEF Bit

(* Setting the result register of a set of registers leaves a set of
   registers: trap results are written through regAX. *)
LEMMA SetAX ==
    ASSUME NEW r \in Registers, NEW v \in Bit
    PROVE  [r EXCEPT !.ax = v] \in Registers
BY DEF Registers

(* The same for the registers of one processor in the family of all of
   them. *)
LEMMA SetRegistersAX ==
    ASSUME NEW R \in [CPUs -> Registers], NEW k, NEW v \in Bit
    PROVE  [R EXCEPT ![k].ax = v] \in [CPUs -> Registers]
<1>1. ASSUME k \in CPUs PROVE [R[k] EXCEPT !.ax = v] \in Registers
  BY <1>1, SetAX
<1>2. [R EXCEPT ![k].ax = v] = [R EXCEPT ![k] = [R[k] EXCEPT !.ax = v]]
  OBVIOUS
<1> QED  BY <1>1, <1>2

(* Writing the state that a kernel guard restores keeps every process's
   frame a frame. *)
LEMMA SetPrev ==
    ASSUME NEW F \in [Procs -> Frame], NEW p \in Procs, NEW s \in ProcessState
    PROVE  [F EXCEPT ![p].prev = s] \in [Procs -> Frame]
<1>1. [F[p] EXCEPT !.prev = s] \in Frame
  BY DEF Frame
<1> QED  BY <1>1

\* An action that leaves the lists alone loses no process if the processors keep
\* theirs, or but those that are dead.
LEMMA HoldersOfLiving ==
    ASSUME Located, UNCHANGED <<queue, kernelQ, sleeping>>,
           \A p \in Procs, c \in CPUs : ~Dead(p)' /\ Holds(c, p) => Holds(c, p)',
           \A p \in Procs :
               \/ Dead(p) => Dead(p)'
               \/ \E c \in CPUs : Dead(p) /\ ~Dead(p)' => Holds(c, p)'
    PROVE  Located'
<1> SUFFICES ASSUME NEW p \in Procs, ~Dead(p)' PROVE Somewhere(p)'
  BY DEF Located
<1>1. CASE Dead(p)
  BY <1>1 DEF Somewhere
<1>2. CASE ~Dead(p)
  <2>1. Somewhere(p)  BY <1>2 DEF Located
  <2> QED  BY <2>1 DEF Somewhere
<1> QED  BY <1>1, <1>2

LEMMA HoldersStay ==
    ASSUME Located, UNCHANGED <<queue, kernelQ, sleeping>>,
           \A p \in Procs, c \in CPUs : Holds(c, p) => Holds(c, p)',
           \A p \in Procs :
               \/ Dead(p) => Dead(p)'
               \/ \E c \in CPUs : Dead(p) /\ ~Dead(p)' => Holds(c, p)'
    PROVE  Located'
BY HoldersOfLiving

\* A processor that finds no work waits (Scheduler::GetRunnableProcess).
LEMMA BlockInv ==
    ASSUME SchedulingInv, NEW c \in CPUs, Block(c)
    PROVE  SchedulingInv'
<1>1. TypeOK'
  BY DEF SchedulingInv, TypeOK, CpuPc, FiberPc, ProcessState, Handlers,
         Registers, Frame, Bit, ThreadInv, Carrying, FiberInv, Block
<1>2. PlacesDisjoint'
  BY DEF SchedulingInv, TypeOK, CpuPc, FiberPc, ProcessState, Handlers,
         Registers, Frame, Bit, PlacesDisjoint, OnePlace, Holds, ThreadInv,
         Carrying, FiberInv, Block
<1>3. Located'
  <2>1. \A q \in Procs, k \in CPUs : Holds(k, q) => Holds(k, q)'
    BY DEF SchedulingInv, TypeOK, CpuPc, FiberPc, ProcessState, Handlers,
           Registers, Frame, Bit, ThreadInv, Carrying, FiberInv, Holds, Dead,
           Block
  <2>2. \A q \in Procs : Dead(q) => Dead(q)'
    BY DEF SchedulingInv, TypeOK, CpuPc, FiberPc, ProcessState, Handlers,
           Registers, Frame, Bit, Holds, Dead, HasMemory, Block
  <2> QED  BY <2>1, <2>2, HoldersStay DEF SchedulingInv, Block
<1>4. CreatedNowhere'
  BY DEF SchedulingInv, TypeOK, CpuPc, FiberPc, ProcessState, Handlers,
         Registers, Frame, Bit, CreatedNowhere, Unused, Carrying, ThreadInv,
         FiberPlace, FiberAt, SuspendedOn, UserFiber, Block
<1>5. ThreadInv'
  BY SMTT(30)
     DEF SchedulingInv, TypeOK, CpuPc, FiberPc, ProcessState, Handlers,
         Registers, Frame, Bit, PlacesDisjoint, OnePlace, Holds, CreatedNowhere,
         Unused, Carrying, ThreadInv, FiberInv, Block
<1>6. Handshake'
  BY DEF SchedulingInv, TypeOK, CpuPc, FiberPc, ProcessState, Handlers,
         Registers, Frame, Bit, PlacesDisjoint, OnePlace, Holds, ThreadInv,
         Carrying, Handshake, FiberPlace, FiberAt, SuspendedOn, UserFiber,
         Block
<1>7. FiberPlace'
  BY DEF SchedulingInv, TypeOK, CpuPc, FiberPc, ProcessState, Handlers,
         Registers, Frame, Bit, PlacesDisjoint, OnePlace, Holds, CreatedNowhere,
         Unused, Carrying, ThreadInv, Handshake, FiberPlace, FiberAt,
         SuspendedOn, UserFiber, FiberInv, Block
<1>8. FiberInv'
  BY SMTT(30)
     DEF SchedulingInv, TypeOK, CpuPc, FiberPc, ProcessState, Handlers,
         Registers, Frame, Bit, PlacesDisjoint, OnePlace, Holds, CreatedNowhere,
         Unused, Carrying, ThreadInv, Handshake, FiberPlace, FiberAt,
         SuspendedOn, UserFiber, FiberInv, Block
<1> QED  BY <1>1, <1>2, <1>3, <1>4, <1>5, <1>6, <1>7, <1>8 DEF SchedulingInv

\* The current process of a resumed fiber is set (Processor::Run).
LEMMA KernelResumeInv ==
    ASSUME SchedulingInv, NEW c \in CPUs, KernelResume(c)
    PROVE  SchedulingInv'
<1>1. TypeOK'
  BY DEF SchedulingInv, TypeOK, CpuPc, FiberPc, ProcessState, Handlers,
         Registers, Frame, Bit, ThreadInv, Carrying, FiberInv, KernelResume
<1>2. PlacesDisjoint'
  BY DEF SchedulingInv, TypeOK, CpuPc, FiberPc, ProcessState, Handlers,
         Registers, Frame, Bit, PlacesDisjoint, OnePlace, Holds, ThreadInv,
         Carrying, FiberInv, KernelResume
<1>3. Located'
  <2>1. \A q \in Procs, k \in CPUs : Holds(k, q) => Holds(k, q)'
    BY DEF SchedulingInv, TypeOK, CpuPc, FiberPc, ProcessState, Handlers,
           Registers, Frame, Bit, ThreadInv, Carrying, FiberInv, Holds, Dead,
           KernelResume
  <2>2. \A q \in Procs : Dead(q) => Dead(q)'
    BY DEF SchedulingInv, TypeOK, CpuPc, FiberPc, ProcessState, Handlers,
           Registers, Frame, Bit, Holds, Dead, HasMemory, KernelResume
  <2> QED  BY <2>1, <2>2, HoldersStay DEF SchedulingInv, KernelResume
<1>4. CreatedNowhere'
  BY SMTT(30)
     DEF SchedulingInv, TypeOK, CpuPc, FiberPc, ProcessState, Handlers,
         Registers, Frame, Bit, CreatedNowhere, Unused, Carrying, ThreadInv,
         FiberPlace, FiberAt, SuspendedOn, UserFiber, KernelResume
<1>5. ThreadInv'
  BY DEF SchedulingInv, TypeOK, CpuPc, FiberPc, ProcessState, Handlers,
         Registers, Frame, Bit, PlacesDisjoint, OnePlace, Holds, CreatedNowhere,
         Unused, Carrying, ThreadInv, FiberInv, KernelResume
<1>6. Handshake'
  BY SMTT(30)
     DEF SchedulingInv, TypeOK, CpuPc, FiberPc, ProcessState, Handlers,
         Registers, Frame, Bit, PlacesDisjoint, OnePlace, Holds, ThreadInv,
         Carrying, Handshake, FiberPlace, FiberAt, SuspendedOn, UserFiber,
         KernelResume
<1>7. FiberPlace'
  BY DEF SchedulingInv, TypeOK, CpuPc, FiberPc, ProcessState, Handlers,
         Registers, Frame, Bit, PlacesDisjoint, OnePlace, Holds, CreatedNowhere,
         Unused, Carrying, ThreadInv, Handshake, FiberPlace, FiberAt,
         SuspendedOn, UserFiber, FiberInv, KernelResume
<1>8. FiberInv'
  BY DEF SchedulingInv, TypeOK, CpuPc, FiberPc, ProcessState, Handlers,
         Registers, Frame, Bit, PlacesDisjoint, OnePlace, Holds, CreatedNowhere,
         Unused, Carrying, ThreadInv, Handshake, FiberPlace, FiberAt,
         SuspendedOn, UserFiber, FiberInv, KernelResume
<1> QED  BY <1>1, <1>2, <1>3, <1>4, <1>5, <1>6, <1>7, <1>8 DEF SchedulingInv

\* The switch to a suspended kernel fiber (Processor::Run).
LEMMA KernelEnterInv ==
    ASSUME SchedulingInv, NEW c \in CPUs, KernelEnter(c)
    PROVE  SchedulingInv'
<1>1. TypeOK'
  BY DEF SchedulingInv, TypeOK, CpuPc, FiberPc, ProcessState, Handlers,
         Registers, Frame, Bit, ThreadInv, Carrying, FiberInv, KernelEnter,
         EnterFiber
<1>2. PlacesDisjoint'
  BY DEF SchedulingInv, TypeOK, CpuPc, FiberPc, ProcessState, Handlers,
         Registers, Frame, Bit, PlacesDisjoint, OnePlace, Holds, ThreadInv,
         Carrying, FiberInv, KernelEnter, EnterFiber
<1>3. Located'
  <2>1. \A q \in Procs, k \in CPUs : Holds(k, q) => Holds(k, q)'
    BY DEF SchedulingInv, TypeOK, CpuPc, FiberPc, ProcessState, Handlers,
           Registers, Frame, Bit, ThreadInv, Carrying, FiberInv, Holds, Dead,
           KernelEnter, EnterFiber
  <2>2. \A q \in Procs : Dead(q) => Dead(q)'
    BY DEF SchedulingInv, TypeOK, CpuPc, FiberPc, ProcessState, Handlers,
           Registers, Frame, Bit, Holds, Dead, HasMemory, KernelEnter, EnterFiber
  <2> QED  BY <2>1, <2>2, HoldersStay DEF SchedulingInv, KernelEnter, EnterFiber
<1>4. CreatedNowhere'
  BY DEF SchedulingInv, TypeOK, CpuPc, FiberPc, ProcessState, Handlers,
         Registers, Frame, Bit, CreatedNowhere, Unused, Carrying, ThreadInv,
         FiberPlace, FiberAt, SuspendedOn, UserFiber, KernelEnter, EnterFiber
<1>5. ThreadInv'
  BY DEF SchedulingInv, TypeOK, CpuPc, FiberPc, ProcessState, Handlers,
         Registers, Frame, Bit, PlacesDisjoint, OnePlace, Holds, CreatedNowhere,
         Unused, Carrying, ThreadInv, FiberInv, KernelEnter, EnterFiber
<1>6. Handshake'
  BY DEF SchedulingInv, TypeOK, CpuPc, FiberPc, ProcessState, Handlers,
         Registers, Frame, Bit, PlacesDisjoint, OnePlace, Holds, ThreadInv,
         Carrying, Handshake, FiberPlace, FiberAt, SuspendedOn, UserFiber,
         KernelEnter, EnterFiber
<1>7. FiberPlace'
  BY DEF SchedulingInv, TypeOK, CpuPc, FiberPc, ProcessState, Handlers,
         Registers, Frame, Bit, PlacesDisjoint, OnePlace, Holds, CreatedNowhere,
         Unused, Carrying, ThreadInv, Handshake, FiberPlace, FiberAt,
         SuspendedOn, UserFiber, FiberInv, KernelEnter, EnterFiber
<1>8. FiberInv'
  <2> DEFINE p == cproc[c]
  <2>1. /\ p \in Procs /\ cpc[c] = "kenter" /\ ~inKernel[p]
        /\ mainFiber[p] = c /\ processor[p] = c /\ current[c] = p
    BY DEF SchedulingInv, ThreadInv, Carrying, KernelEnter, EnterFiber
  <2>2. \A k \in CPUs : ~(cpc[k] = "fiber" /\ cproc[k] = p)
    BY <2>1 DEF SchedulingInv, Handshake
  <2>3. fpc[p] = "asleep" /\ frame[p].processor = c /\ frame[p].main = c
    BY <2>1, <2>2 DEF SchedulingInv, FiberPlace, FiberAt, SuspendedOn
  <2> QED
    BY <2>1, <2>3 DEF SchedulingInv, TypeOK, FiberInv, KernelEnter, EnterFiber
<1> QED  BY <1>1, <1>2, <1>3, <1>4, <1>5, <1>6, <1>7, <1>8 DEF SchedulingInv

\* A process gets its kernel fiber before it runs (Processor::Run).
LEMMA PrepareInv ==
    ASSUME SchedulingInv, NEW c \in CPUs, Prepare(c)
    PROVE  SchedulingInv'
<1>1. TypeOK'
  BY DEF SchedulingInv, TypeOK, CpuPc, FiberPc, ProcessState, Handlers,
         Registers, Frame, Bit, ThreadInv, Carrying, FiberInv, Prepare
<1>2. PlacesDisjoint'
  BY DEF SchedulingInv, TypeOK, CpuPc, FiberPc, ProcessState, Handlers,
         Registers, Frame, Bit, PlacesDisjoint, OnePlace, Holds, ThreadInv,
         Carrying, FiberInv, Prepare
<1>3. Located'
  <2>1. \A q \in Procs, k \in CPUs : Holds(k, q) => Holds(k, q)'
    BY DEF SchedulingInv, TypeOK, CpuPc, FiberPc, ProcessState, Handlers,
           Registers, Frame, Bit, ThreadInv, Carrying, FiberInv, Holds, Dead,
           Prepare
  <2>2. \A q \in Procs : Dead(q) => Dead(q)'
    BY DEF SchedulingInv, TypeOK, CpuPc, FiberPc, ProcessState, Handlers,
           Registers, Frame, Bit, Holds, Dead, HasMemory, Prepare
  <2> QED  BY <2>1, <2>2, HoldersStay DEF SchedulingInv, Prepare
<1>4. CreatedNowhere'
  BY DEF SchedulingInv, TypeOK, CpuPc, FiberPc, ProcessState, Handlers,
         Registers, Frame, Bit, CreatedNowhere, Unused, Carrying, ThreadInv,
         FiberPlace, FiberAt, SuspendedOn, UserFiber, Prepare
<1>5. ThreadInv'
  BY DEF SchedulingInv, TypeOK, CpuPc, FiberPc, ProcessState, Handlers,
         Registers, Frame, Bit, PlacesDisjoint, OnePlace, Holds, CreatedNowhere,
         Unused, Carrying, ThreadInv, FiberInv, Prepare
<1>6. Handshake'
  BY DEF SchedulingInv, TypeOK, CpuPc, FiberPc, ProcessState, Handlers,
         Registers, Frame, Bit, PlacesDisjoint, OnePlace, Holds, ThreadInv,
         Carrying, Handshake, FiberPlace, FiberAt, SuspendedOn, UserFiber,
         Prepare
<1>7. FiberPlace'
  BY DEF SchedulingInv, TypeOK, CpuPc, FiberPc, ProcessState, Handlers,
         Registers, Frame, Bit, PlacesDisjoint, OnePlace, Holds, CreatedNowhere,
         Unused, Carrying, ThreadInv, Handshake, FiberPlace, FiberAt,
         SuspendedOn, UserFiber, FiberInv, Prepare
<1>8. FiberInv'
  BY DEF SchedulingInv, TypeOK, CpuPc, FiberPc, ProcessState, Handlers,
         Registers, Frame, Bit, PlacesDisjoint, OnePlace, Holds, CreatedNowhere,
         Unused, Carrying, ThreadInv, Handshake, FiberPlace, FiberAt,
         SuspendedOn, UserFiber, FiberInv, Prepare
<1> QED  BY <1>1, <1>2, <1>3, <1>4, <1>5, <1>6, <1>7, <1>8 DEF SchedulingInv

\* A processor sees that no other is in the kernel fiber.
LEMMA UserWaitInv ==
    ASSUME SchedulingInv, NEW c \in CPUs, UserWait(c)
    PROVE  SchedulingInv'
<1>1. TypeOK'
  BY DEF SchedulingInv, TypeOK, CpuPc, FiberPc, ProcessState, Handlers,
         Registers, Frame, Bit, ThreadInv, Carrying, FiberInv, UserWait
<1>2. PlacesDisjoint'
  BY DEF SchedulingInv, TypeOK, CpuPc, FiberPc, ProcessState, Handlers,
         Registers, Frame, Bit, PlacesDisjoint, OnePlace, Holds, ThreadInv,
         Carrying, FiberInv, UserWait
<1>3. Located'
  <2>1. \A q \in Procs, k \in CPUs : Holds(k, q) => Holds(k, q)'
    BY DEF SchedulingInv, TypeOK, CpuPc, FiberPc, ProcessState, Handlers,
           Registers, Frame, Bit, ThreadInv, Carrying, FiberInv, Holds, Dead,
           UserWait
  <2>2. \A q \in Procs : Dead(q) => Dead(q)'
    BY DEF SchedulingInv, TypeOK, CpuPc, FiberPc, ProcessState, Handlers,
           Registers, Frame, Bit, Holds, Dead, HasMemory, UserWait
  <2> QED  BY <2>1, <2>2, HoldersStay DEF SchedulingInv, UserWait
<1>4. CreatedNowhere'
  BY DEF SchedulingInv, TypeOK, CpuPc, FiberPc, ProcessState, Handlers,
         Registers, Frame, Bit, CreatedNowhere, Unused, Carrying, ThreadInv,
         FiberPlace, FiberAt, SuspendedOn, UserFiber, UserWait
<1>5. ThreadInv'
  BY DEF SchedulingInv, TypeOK, CpuPc, FiberPc, ProcessState, Handlers,
         Registers, Frame, Bit, PlacesDisjoint, OnePlace, Holds, CreatedNowhere,
         Unused, Carrying, ThreadInv, FiberInv, UserWait
<1>6. Handshake'
  <2> DEFINE p == cproc[c]
  <2>1. p \in Procs /\ ~inKernel[p] /\ cpc[c] = "uwait"
    BY DEF SchedulingInv, ThreadInv, Carrying, UserWait
  <2>2. \A k \in CPUs : ~(cpc[k] = "fiber" /\ cproc[k] = p)
    BY <2>1 DEF SchedulingInv, Handshake
  <2>3. fpc[p] = "top"
    BY <2>1, <2>2 DEF SchedulingInv, FiberPlace, FiberAt, UserFiber
  <2> QED
    BY <2>1, <2>3 DEF SchedulingInv, TypeOK, Handshake, UserWait
<1>7. FiberPlace'
  BY DEF SchedulingInv, TypeOK, CpuPc, FiberPc, ProcessState, Handlers,
         Registers, Frame, Bit, PlacesDisjoint, OnePlace, Holds, CreatedNowhere,
         Unused, Carrying, ThreadInv, Handshake, FiberPlace, FiberAt,
         SuspendedOn, UserFiber, FiberInv, UserWait
<1>8. FiberInv'
  BY DEF SchedulingInv, TypeOK, CpuPc, FiberPc, ProcessState, Handlers,
         Registers, Frame, Bit, PlacesDisjoint, OnePlace, Holds, CreatedNowhere,
         Unused, Carrying, ThreadInv, Handshake, FiberPlace, FiberAt,
         SuspendedOn, UserFiber, FiberInv, UserWait
<1> QED  BY <1>1, <1>2, <1>3, <1>4, <1>5, <1>6, <1>7, <1>8 DEF SchedulingInv

\* A process starts a slice in user mode.
LEMMA UserRunInv ==
    ASSUME SchedulingInv, NEW c \in CPUs, UserRun(c)
    PROVE  SchedulingInv'
<1>1. TypeOK'
  <2> DEFINE p == cproc[c]
  <2>1. p \in Procs
    BY DEF SchedulingInv, ThreadInv, Carrying, UserRun, RestoredRegisters
  <2>2. regs' \in [CPUs -> Registers]
    <3> DEFINE v == IF useRegAX[p] THEN regAX[p] ELSE context[p].ax
    <3>1. context[p] \in Registers /\ v \in Bit
      BY <2>1 DEF SchedulingInv, TypeOK, Registers
    <3>2. RestoredRegisters(p) = [context[p] EXCEPT !.ax = v]
      BY DEF RestoredRegisters
    <3>3. RestoredRegisters(p) \in Registers
      <4> HIDE DEF v
      <4> QED  BY <3>1, <3>2, SetAX
    <3>4. CASE HasMemory(p)
      BY <3>3, <3>4 DEF SchedulingInv, TypeOK, UserRun
    <3>5. CASE ~HasMemory(p)
      BY <3>5 DEF SchedulingInv, TypeOK, UserRun
    <3> QED  BY <3>4, <3>5
  <2>3. cpc' \in [CPUs -> CpuPc]
    <3>1. cpc' = [cpc EXCEPT ![c] = "user"] \/ cpc' = [cpc EXCEPT ![c] = "ended"]
      BY DEF UserRun
    <3> QED  BY <3>1 DEF SchedulingInv, TypeOK, CpuPc
  <2>4. /\ state' \in [Procs -> ProcessState]
        /\ processor' \in [Procs -> CPUs \cup {NoCpu}]
    BY <2>1 DEF SchedulingInv, TypeOK, ProcessState, UserRun
  <2>5. /\ saveContext' \in [Procs -> BOOLEAN]
        /\ regAX' \in [Procs -> Bit]
        /\ useRegAX' \in [Procs -> BOOLEAN]
    BY <2>1, FlippedBit DEF SchedulingInv, TypeOK, Bit, UserRun
  <2> QED
    BY <2>2, <2>3, <2>4, <2>5 DEF SchedulingInv, TypeOK, UserRun
<1>2. PlacesDisjoint'
  BY DEF SchedulingInv, TypeOK, CpuPc, FiberPc, ProcessState, Handlers,
         Registers, Frame, Bit, PlacesDisjoint, OnePlace, Holds, ThreadInv,
         Carrying, FiberInv, UserRun, RestoredRegisters
<1>3. Located'
  <2>1. \A q \in Procs, k \in CPUs : ~Dead(q)' /\ Holds(k, q) => Holds(k, q)'
    BY SMTT(20)
       DEF SchedulingInv, TypeOK, CpuPc, ThreadInv, Carrying, Holds, Dead, HasMemory, UserRun
  <2>2. \A q \in Procs : Dead(q) /\ ~Dead(q)' => Holds(c, q)'
    BY SMTT(20)
       DEF SchedulingInv, TypeOK, CpuPc, ThreadInv, Carrying, Holds, Dead, HasMemory, UserRun
  <2> QED  BY <2>1, <2>2, HoldersOfLiving DEF SchedulingInv, UserRun
<1>4. CreatedNowhere'
  BY DEF SchedulingInv, TypeOK, CpuPc, FiberPc, ProcessState, Handlers,
         Registers, Frame, Bit, CreatedNowhere, Unused, Carrying, ThreadInv,
         FiberPlace, FiberAt, SuspendedOn, UserFiber, UserRun,
         RestoredRegisters
<1>5. ThreadInv'
  BY DEF SchedulingInv, TypeOK, CpuPc, FiberPc, ProcessState, Handlers,
         Registers, Frame, Bit, PlacesDisjoint, OnePlace, Holds, CreatedNowhere,
         Unused, Carrying, ThreadInv, FiberInv, UserRun, RestoredRegisters
<1>6. Handshake'
  BY DEF SchedulingInv, TypeOK, CpuPc, FiberPc, ProcessState, Handlers,
         Registers, Frame, Bit, PlacesDisjoint, OnePlace, Holds, ThreadInv,
         Carrying, Handshake, FiberPlace, FiberAt, SuspendedOn, UserFiber,
         UserRun, RestoredRegisters
<1>7. FiberPlace'
  BY DEF SchedulingInv, TypeOK, CpuPc, FiberPc, ProcessState, Handlers,
         Registers, Frame, Bit, PlacesDisjoint, OnePlace, Holds, CreatedNowhere,
         Unused, Carrying, ThreadInv, Handshake, FiberPlace, FiberAt,
         SuspendedOn, UserFiber, FiberInv, UserRun, RestoredRegisters
<1>8. FiberInv'
  BY DEF SchedulingInv, TypeOK, CpuPc, FiberPc, ProcessState, Handlers,
         Registers, Frame, Bit, PlacesDisjoint, OnePlace, Holds, CreatedNowhere,
         Unused, Carrying, ThreadInv, Handshake, FiberPlace, FiberAt,
         SuspendedOn, UserFiber, FiberInv, UserRun, RestoredRegisters
<1> QED  BY <1>1, <1>2, <1>3, <1>4, <1>5, <1>6, <1>7, <1>8 DEF SchedulingInv

\* A slice ends because the process has no memory.
LEMMA UserThrowsInv ==
    ASSUME SchedulingInv, NEW c \in CPUs, UserThrows(c)
    PROVE  SchedulingInv'
<1>1. TypeOK'
  BY DEF SchedulingInv, TypeOK, CpuPc, UserThrows
<1>2. PlacesDisjoint'
  BY DEF SchedulingInv, TypeOK, PlacesDisjoint, OnePlace, Holds, UserThrows
<1>3. Located'
  <2>1. \A q \in Procs, k \in CPUs : ~Dead(q)' /\ Holds(k, q) => Holds(k, q)'
    BY DEF SchedulingInv, TypeOK, ThreadInv, Carrying, Holds, Dead, HasMemory, UserThrows
  <2>2. \A q \in Procs : Dead(q) => Dead(q)'
    BY DEF Dead, HasMemory, UserThrows
  <2> QED  BY <2>1, <2>2, HoldersOfLiving DEF SchedulingInv, UserThrows
<1>4. CreatedNowhere'
  BY DEF SchedulingInv, TypeOK, CreatedNowhere, Unused, Carrying, UserThrows
<1>5. ThreadInv'
  BY DEF SchedulingInv, TypeOK, Carrying, ThreadInv, UserThrows
<1>6. Handshake'
  BY DEF SchedulingInv, TypeOK, Handshake, UserThrows
<1>7. FiberPlace'
  BY DEF SchedulingInv, TypeOK, FiberPlace, FiberAt, SuspendedOn, UserFiber, UserThrows
<1>8. FiberInv'
  BY DEF SchedulingInv, TypeOK, FiberInv, UserThrows
<1> QED  BY <1>1, <1>2, <1>3, <1>4, <1>5, <1>6, <1>7, <1>8 DEF SchedulingInv

\* A software interrupt ends a slice.
LEMMA TakeTrapInv ==
    ASSUME SchedulingInv, NEW c \in CPUs, TakeTrap(c)
    PROVE  SchedulingInv'
<1>1. TypeOK'
  BY DEF SchedulingInv, TypeOK, CpuPc, FiberPc, ProcessState, Handlers,
         Registers, Frame, Bit, ThreadInv, Carrying, FiberInv, TakeTrap,
         Interrupt
<1>2. PlacesDisjoint'
  BY DEF SchedulingInv, TypeOK, CpuPc, FiberPc, ProcessState, Handlers,
         Registers, Frame, Bit, PlacesDisjoint, OnePlace, Holds, ThreadInv,
         Carrying, FiberInv, TakeTrap, Interrupt
<1>3. Located'
  <2>1. \A q \in Procs, k \in CPUs : Holds(k, q) => Holds(k, q)'
    BY DEF SchedulingInv, TypeOK, CpuPc, FiberPc, ProcessState, Handlers,
           Registers, Frame, Bit, ThreadInv, Carrying, FiberInv, Holds, Dead,
           TakeTrap, Interrupt
  <2>2. \A q \in Procs : Dead(q) => Dead(q)'
    BY DEF SchedulingInv, TypeOK, CpuPc, FiberPc, ProcessState, Handlers,
           Registers, Frame, Bit, Holds, Dead, HasMemory, TakeTrap, Interrupt
  <2> QED  BY <2>1, <2>2, HoldersStay DEF SchedulingInv, TakeTrap, Interrupt
<1>4. CreatedNowhere'
  BY DEF SchedulingInv, TypeOK, CpuPc, FiberPc, ProcessState, Handlers,
         Registers, Frame, Bit, CreatedNowhere, Unused, Carrying, ThreadInv,
         FiberPlace, FiberAt, SuspendedOn, UserFiber, TakeTrap, Interrupt
<1>5. ThreadInv'
  BY DEF SchedulingInv, TypeOK, CpuPc, FiberPc, ProcessState, Handlers,
         Registers, Frame, Bit, PlacesDisjoint, OnePlace, Holds, CreatedNowhere,
         Unused, Carrying, ThreadInv, FiberInv, TakeTrap, Interrupt
<1>6. Handshake'
  BY DEF SchedulingInv, TypeOK, CpuPc, FiberPc, ProcessState, Handlers,
         Registers, Frame, Bit, PlacesDisjoint, OnePlace, Holds, ThreadInv,
         Carrying, Handshake, FiberPlace, FiberAt, SuspendedOn, UserFiber,
         TakeTrap, Interrupt
<1>7. FiberPlace'
  BY DEF SchedulingInv, TypeOK, CpuPc, FiberPc, ProcessState, Handlers,
         Registers, Frame, Bit, PlacesDisjoint, OnePlace, Holds, CreatedNowhere,
         Unused, Carrying, ThreadInv, Handshake, FiberPlace, FiberAt,
         SuspendedOn, UserFiber, FiberInv, TakeTrap, Interrupt
<1>8. FiberInv'
  BY DEF SchedulingInv, TypeOK, CpuPc, FiberPc, ProcessState, Handlers,
         Registers, Frame, Bit, PlacesDisjoint, OnePlace, Holds, CreatedNowhere,
         Unused, Carrying, ThreadInv, Handshake, FiberPlace, FiberAt,
         SuspendedOn, UserFiber, FiberInv, TakeTrap, Interrupt
<1> QED  BY <1>1, <1>2, <1>3, <1>4, <1>5, <1>6, <1>7, <1>8 DEF SchedulingInv

\* A clock interrupt ends a slice.
LEMMA TakeClockInv ==
    ASSUME SchedulingInv, NEW c \in CPUs, TakeClock(c)
    PROVE  SchedulingInv'
<1>1. TypeOK'
  <2> DEFINE p == current[c]
  <2>1. p \in Procs
    BY DEF SchedulingInv, ThreadInv, Carrying, TakeClock, Interrupt
  <2>2. regs' \in [CPUs -> Registers] /\ ax' \in [Procs -> Bit]
    <3>1. regs[c].ax \in Bit /\ 1 - regs[c].ax \in Bit
      BY FlippedBit DEF SchedulingInv, TypeOK, Registers
    <3>2. regs' = [regs EXCEPT ![c].ax = 1 - regs[c].ax]
      BY DEF SchedulingInv, TypeOK, TakeClock
    <3>3. ax' \in [Procs -> Bit]
      BY FlippedBit DEF SchedulingInv, TypeOK, TakeClock
    <3> QED  BY <3>1, <3>2, <3>3, SetRegistersAX DEF SchedulingInv, TypeOK
  <2> QED
    BY <2>1, <2>2 DEF SchedulingInv, TypeOK, CpuPc, FiberPc, ProcessState,
                      Handlers, TakeClock, Interrupt
<1>2. PlacesDisjoint'
  BY DEF SchedulingInv, TypeOK, CpuPc, FiberPc, ProcessState, Handlers,
         Registers, Frame, Bit, PlacesDisjoint, OnePlace, Holds, ThreadInv,
         Carrying, FiberInv, TakeClock, Interrupt
<1>3. Located'
  <2>1. \A q \in Procs, k \in CPUs : Holds(k, q) => Holds(k, q)'
    BY DEF SchedulingInv, TypeOK, CpuPc, FiberPc, ProcessState, Handlers,
           Registers, Frame, Bit, ThreadInv, Carrying, FiberInv, Holds, Dead,
           TakeClock, Interrupt
  <2>2. \A q \in Procs : Dead(q) => Dead(q)'
    BY DEF SchedulingInv, TypeOK, CpuPc, FiberPc, ProcessState, Handlers,
           Registers, Frame, Bit, Holds, Dead, HasMemory, TakeClock, Interrupt
  <2> QED  BY <2>1, <2>2, HoldersStay DEF SchedulingInv, TakeClock, Interrupt
<1>4. CreatedNowhere'
  BY DEF SchedulingInv, TypeOK, CpuPc, FiberPc, ProcessState, Handlers,
         Registers, Frame, Bit, CreatedNowhere, Unused, Carrying, ThreadInv,
         FiberPlace, FiberAt, SuspendedOn, UserFiber, TakeClock, Interrupt
<1>5. ThreadInv'
  BY DEF SchedulingInv, TypeOK, CpuPc, FiberPc, ProcessState, Handlers,
         Registers, Frame, Bit, PlacesDisjoint, OnePlace, Holds, CreatedNowhere,
         Unused, Carrying, ThreadInv, FiberInv, TakeClock, Interrupt
<1>6. Handshake'
  BY DEF SchedulingInv, TypeOK, CpuPc, FiberPc, ProcessState, Handlers,
         Registers, Frame, Bit, PlacesDisjoint, OnePlace, Holds, ThreadInv,
         Carrying, Handshake, FiberPlace, FiberAt, SuspendedOn, UserFiber,
         TakeClock, Interrupt
<1>7. FiberPlace'
  BY DEF SchedulingInv, TypeOK, CpuPc, FiberPc, ProcessState, Handlers,
         Registers, Frame, Bit, PlacesDisjoint, OnePlace, Holds, CreatedNowhere,
         Unused, Carrying, ThreadInv, Handshake, FiberPlace, FiberAt,
         SuspendedOn, UserFiber, FiberInv, TakeClock, Interrupt
<1>8. FiberInv'
  BY DEF SchedulingInv, TypeOK, CpuPc, FiberPc, ProcessState, Handlers,
         Registers, Frame, Bit, PlacesDisjoint, OnePlace, Holds, CreatedNowhere,
         Unused, Carrying, ThreadInv, Handshake, FiberPlace, FiberAt,
         SuspendedOn, UserFiber, FiberInv, TakeClock, Interrupt
<1> QED  BY <1>1, <1>2, <1>3, <1>4, <1>5, <1>6, <1>7, <1>8 DEF SchedulingInv

\* The switch to the kernel fiber at an interrupt.
LEMMA InterruptEnterInv ==
    ASSUME SchedulingInv, NEW c \in CPUs, InterruptEnter(c)
    PROVE  SchedulingInv'
<1>1. TypeOK'
  BY DEF SchedulingInv, TypeOK, CpuPc, FiberPc, ProcessState, Handlers,
         Registers, Frame, Bit, ThreadInv, Carrying, FiberInv, InterruptEnter,
         EnterFiber
<1>2. PlacesDisjoint'
  BY DEF SchedulingInv, TypeOK, CpuPc, FiberPc, ProcessState, Handlers,
         Registers, Frame, Bit, PlacesDisjoint, OnePlace, Holds, ThreadInv,
         Carrying, FiberInv, InterruptEnter, EnterFiber
<1>3. Located'
  <2>1. \A q \in Procs, k \in CPUs : Holds(k, q) => Holds(k, q)'
    BY DEF SchedulingInv, TypeOK, CpuPc, FiberPc, ProcessState, Handlers,
           Registers, Frame, Bit, ThreadInv, Carrying, FiberInv, Holds, Dead,
           InterruptEnter, EnterFiber
  <2>2. \A q \in Procs : Dead(q) => Dead(q)'
    BY DEF SchedulingInv, TypeOK, CpuPc, FiberPc, ProcessState, Handlers,
           Registers, Frame, Bit, Holds, Dead, HasMemory, InterruptEnter, EnterFiber
  <2> QED  BY <2>1, <2>2, HoldersStay DEF SchedulingInv, InterruptEnter, EnterFiber
<1>4. CreatedNowhere'
  BY DEF SchedulingInv, TypeOK, CpuPc, FiberPc, ProcessState, Handlers,
         Registers, Frame, Bit, CreatedNowhere, Unused, Carrying, ThreadInv,
         FiberPlace, FiberAt, SuspendedOn, UserFiber, InterruptEnter,
         EnterFiber
<1>5. ThreadInv'
  BY DEF SchedulingInv, TypeOK, CpuPc, FiberPc, ProcessState, Handlers,
         Registers, Frame, Bit, PlacesDisjoint, OnePlace, Holds, CreatedNowhere,
         Unused, Carrying, ThreadInv, FiberInv, InterruptEnter, EnterFiber
<1>6. Handshake'
  BY DEF SchedulingInv, TypeOK, CpuPc, FiberPc, ProcessState, Handlers,
         Registers, Frame, Bit, PlacesDisjoint, OnePlace, Holds, ThreadInv,
         Carrying, Handshake, FiberPlace, FiberAt, SuspendedOn, UserFiber,
         InterruptEnter, EnterFiber
<1>7. FiberPlace'
  BY DEF SchedulingInv, TypeOK, CpuPc, FiberPc, ProcessState, Handlers,
         Registers, Frame, Bit, PlacesDisjoint, OnePlace, Holds, CreatedNowhere,
         Unused, Carrying, ThreadInv, Handshake, FiberPlace, FiberAt,
         SuspendedOn, UserFiber, FiberInv, InterruptEnter, EnterFiber
<1>8. FiberInv'
  BY DEF SchedulingInv, TypeOK, CpuPc, FiberPc, ProcessState, Handlers,
         Registers, Frame, Bit, PlacesDisjoint, OnePlace, Holds, CreatedNowhere,
         Unused, Carrying, ThreadInv, Handshake, FiberPlace, FiberAt,
         SuspendedOn, UserFiber, FiberInv, InterruptEnter, EnterFiber
<1> QED  BY <1>1, <1>2, <1>3, <1>4, <1>5, <1>6, <1>7, <1>8 DEF SchedulingInv

\* Process::SetNotInKernel.
LEMMA LeaveFiberInv ==
    ASSUME SchedulingInv, NEW c \in CPUs, LeaveFiber(c)
    PROVE  SchedulingInv'
<1>1. TypeOK'
  BY DEF SchedulingInv, TypeOK, CpuPc, FiberPc, ProcessState, Handlers,
         Registers, Frame, Bit, ThreadInv, Carrying, FiberInv, LeaveFiber
<1>2. PlacesDisjoint'
  BY DEF SchedulingInv, TypeOK, CpuPc, FiberPc, ProcessState, Handlers,
         Registers, Frame, Bit, PlacesDisjoint, OnePlace, Holds, ThreadInv,
         Carrying, FiberInv, LeaveFiber
<1>3. Located'
  <2>1. \A q \in Procs, k \in CPUs : Holds(k, q) => Holds(k, q)'
    BY DEF SchedulingInv, TypeOK, CpuPc, FiberPc, ProcessState, Handlers,
           Registers, Frame, Bit, ThreadInv, Carrying, FiberInv, Holds, Dead,
           LeaveFiber
  <2>2. \A q \in Procs : Dead(q) => Dead(q)'
    BY DEF SchedulingInv, TypeOK, CpuPc, FiberPc, ProcessState, Handlers,
           Registers, Frame, Bit, Holds, Dead, HasMemory, LeaveFiber
  <2> QED  BY <2>1, <2>2, HoldersStay DEF SchedulingInv, LeaveFiber
<1>4. CreatedNowhere'
  BY DEF SchedulingInv, TypeOK, CpuPc, FiberPc, ProcessState, Handlers,
         Registers, Frame, Bit, CreatedNowhere, Unused, Carrying, ThreadInv,
         FiberPlace, FiberAt, SuspendedOn, UserFiber, LeaveFiber
<1>5. ThreadInv'
  BY DEF SchedulingInv, TypeOK, CpuPc, FiberPc, ProcessState, Handlers,
         Registers, Frame, Bit, PlacesDisjoint, OnePlace, Holds, CreatedNowhere,
         Unused, Carrying, ThreadInv, FiberInv, LeaveFiber
<1>6. Handshake'
  BY DEF SchedulingInv, TypeOK, CpuPc, FiberPc, ProcessState, Handlers,
         Registers, Frame, Bit, PlacesDisjoint, OnePlace, Holds, ThreadInv,
         Carrying, Handshake, FiberPlace, FiberAt, SuspendedOn, UserFiber,
         LeaveFiber
<1>7. FiberPlace'
  BY DEF SchedulingInv, TypeOK, CpuPc, FiberPc, ProcessState, Handlers,
         Registers, Frame, Bit, PlacesDisjoint, OnePlace, Holds, CreatedNowhere,
         Unused, Carrying, ThreadInv, Handshake, FiberPlace, FiberAt,
         SuspendedOn, UserFiber, FiberInv, LeaveFiber
<1>8. FiberInv'
  BY DEF SchedulingInv, TypeOK, CpuPc, FiberPc, ProcessState, Handlers,
         Registers, Frame, Bit, PlacesDisjoint, OnePlace, Holds, CreatedNowhere,
         Unused, Carrying, ThreadInv, Handshake, FiberPlace, FiberAt,
         SuspendedOn, UserFiber, FiberInv, LeaveFiber
<1> QED  BY <1>1, <1>2, <1>3, <1>4, <1>5, <1>6, <1>7, <1>8 DEF SchedulingInv

\* The top of the loop of RunKernel.
LEMMA FiberTopInv ==
    ASSUME SchedulingInv, NEW c \in CPUs, FiberTop(c)
    PROVE  SchedulingInv'
<1>1. TypeOK'
  BY DEF SchedulingInv, TypeOK, CpuPc, FiberPc, ProcessState, Handlers,
         Registers, Frame, Bit, ThreadInv, Carrying, FiberInv, FiberTop,
         InFiber
<1>2. PlacesDisjoint'
  BY DEF SchedulingInv, TypeOK, CpuPc, FiberPc, ProcessState, Handlers,
         Registers, Frame, Bit, PlacesDisjoint, OnePlace, Holds, ThreadInv,
         Carrying, FiberInv, FiberTop, InFiber
<1>3. Located'
  <2>1. \A q \in Procs, k \in CPUs : Holds(k, q) => Holds(k, q)'
    BY DEF SchedulingInv, TypeOK, CpuPc, FiberPc, ProcessState, Handlers,
           Registers, Frame, Bit, ThreadInv, Carrying, FiberInv, Holds, Dead,
           FiberTop, InFiber
  <2>2. \A q \in Procs : Dead(q) => Dead(q)'
    BY DEF SchedulingInv, TypeOK, CpuPc, FiberPc, ProcessState, Handlers,
           Registers, Frame, Bit, Holds, Dead, HasMemory, FiberTop, InFiber
  <2> QED  BY <2>1, <2>2, HoldersStay DEF SchedulingInv, FiberTop, InFiber
<1>4. CreatedNowhere'
  BY DEF SchedulingInv, TypeOK, CpuPc, FiberPc, ProcessState, Handlers,
         Registers, Frame, Bit, CreatedNowhere, Unused, Carrying, ThreadInv,
         FiberPlace, FiberAt, SuspendedOn, UserFiber, FiberTop, InFiber
<1>5. ThreadInv'
  BY DEF SchedulingInv, TypeOK, CpuPc, FiberPc, ProcessState, Handlers,
         Registers, Frame, Bit, PlacesDisjoint, OnePlace, Holds, CreatedNowhere,
         Unused, Carrying, ThreadInv, FiberInv, FiberTop, InFiber
<1>6. Handshake'
  BY DEF SchedulingInv, TypeOK, CpuPc, FiberPc, ProcessState, Handlers,
         Registers, Frame, Bit, PlacesDisjoint, OnePlace, Holds, ThreadInv,
         Carrying, Handshake, FiberPlace, FiberAt, SuspendedOn, UserFiber,
         FiberTop, InFiber
<1>7. FiberPlace'
  BY DEF SchedulingInv, TypeOK, CpuPc, FiberPc, ProcessState, Handlers,
         Registers, Frame, Bit, PlacesDisjoint, OnePlace, Holds, CreatedNowhere,
         Unused, Carrying, ThreadInv, Handshake, FiberPlace, FiberAt,
         SuspendedOn, UserFiber, FiberInv, FiberTop, InFiber
<1>8. FiberInv'
  BY DEF SchedulingInv, TypeOK, CpuPc, FiberPc, ProcessState, Handlers,
         Registers, Frame, Bit, PlacesDisjoint, OnePlace, Holds, CreatedNowhere,
         Unused, Carrying, ThreadInv, Handshake, FiberPlace, FiberAt,
         SuspendedOn, UserFiber, FiberInv, FiberTop, InFiber
<1> QED  BY <1>1, <1>2, <1>3, <1>4, <1>5, <1>6, <1>7, <1>8 DEF SchedulingInv

\* The constructor of RunningKernelGuard.
LEMMA EnterGuardInv ==
    ASSUME SchedulingInv, NEW c \in CPUs, EnterGuard(c)
    PROVE  SchedulingInv'
<1>1. TypeOK'
  <2> DEFINE p == fiberOf[c]
  <2>1. p \in Procs
    BY DEF SchedulingInv, ThreadInv, Carrying, EnterGuard, InFiber
  <2>2. frame' \in [Procs -> Frame]
    <3>1. frame' = [frame EXCEPT ![p].prev = state[p]] /\ state[p] \in ProcessState
      BY <2>1 DEF SchedulingInv, TypeOK, EnterGuard
    <3> QED  BY <2>1, <3>1, SetPrev DEF SchedulingInv, TypeOK
  <2> QED
    BY <2>1, <2>2 DEF SchedulingInv, TypeOK, CpuPc, FiberPc, ProcessState,
                      Handlers, EnterGuard, InFiber
<1>2. PlacesDisjoint'
  BY DEF SchedulingInv, TypeOK, CpuPc, FiberPc, ProcessState, Handlers,
         Registers, Frame, Bit, PlacesDisjoint, OnePlace, Holds, ThreadInv,
         Carrying, FiberInv, EnterGuard, InFiber
<1>3. Located'
  <2>1. \A q \in Procs, k \in CPUs : Holds(k, q) => Holds(k, q)'
    BY DEF SchedulingInv, TypeOK, CpuPc, FiberPc, ProcessState, Handlers,
           Registers, Frame, Bit, ThreadInv, Carrying, FiberInv, Holds, Dead,
           EnterGuard, InFiber
  <2>2. \A q \in Procs : Dead(q) /\ ~Dead(q)' => Holds(c, q)'
    BY SMTT(20)
       DEF SchedulingInv, TypeOK, CpuPc, FiberPc, ProcessState, Handlers,
           Registers, Frame, Bit, ThreadInv, Carrying, FiberInv, Holds, Dead, HasMemory,
           EnterGuard, InFiber
  <2> QED  BY <2>1, <2>2, HoldersStay DEF SchedulingInv, EnterGuard, InFiber
<1>4. CreatedNowhere'
  BY DEF SchedulingInv, TypeOK, CpuPc, FiberPc, ProcessState, Handlers,
         Registers, Frame, Bit, CreatedNowhere, Unused, Carrying, ThreadInv,
         FiberPlace, FiberAt, SuspendedOn, UserFiber, EnterGuard, InFiber
<1>5. ThreadInv'
  BY DEF SchedulingInv, TypeOK, CpuPc, FiberPc, ProcessState, Handlers,
         Registers, Frame, Bit, PlacesDisjoint, OnePlace, Holds, CreatedNowhere,
         Unused, Carrying, ThreadInv, FiberInv, EnterGuard, InFiber
<1>6. Handshake'
  BY DEF SchedulingInv, TypeOK, CpuPc, FiberPc, ProcessState, Handlers,
         Registers, Frame, Bit, PlacesDisjoint, OnePlace, Holds, ThreadInv,
         Carrying, Handshake, FiberPlace, FiberAt, SuspendedOn, UserFiber,
         EnterGuard, InFiber
<1>7. FiberPlace'
  BY DEF SchedulingInv, TypeOK, CpuPc, FiberPc, ProcessState, Handlers,
         Registers, Frame, Bit, PlacesDisjoint, OnePlace, Holds, CreatedNowhere,
         Unused, Carrying, ThreadInv, Handshake, FiberPlace, FiberAt,
         SuspendedOn, UserFiber, FiberInv, EnterGuard, InFiber
<1>8. FiberInv'
  BY DEF SchedulingInv, TypeOK, CpuPc, FiberPc, ProcessState, Handlers,
         Registers, Frame, Bit, PlacesDisjoint, OnePlace, Holds, CreatedNowhere,
         Unused, Carrying, ThreadInv, Handshake, FiberPlace, FiberAt,
         SuspendedOn, UserFiber, FiberInv, EnterGuard, InFiber
<1> QED  BY <1>1, <1>2, <1>3, <1>4, <1>5, <1>6, <1>7, <1>8 DEF SchedulingInv

\* The switch back to the processor of a process that sleeps.
LEMMA ReleaseProcessorInv ==
    ASSUME SchedulingInv, NEW c \in CPUs, ReleaseProcessor(c)
    PROVE  SchedulingInv'
<1>1. TypeOK'
  BY DEF SchedulingInv, TypeOK, CpuPc, FiberPc, ProcessState, Handlers,
         Registers, Frame, Bit, ThreadInv, Carrying, FiberInv, ReleaseProcessor,
         InFiber, SwitchToMain
<1>2. PlacesDisjoint'
  BY DEF SchedulingInv, TypeOK, CpuPc, FiberPc, ProcessState, Handlers,
         Registers, Frame, Bit, PlacesDisjoint, OnePlace, Holds, ThreadInv,
         Carrying, FiberInv, ReleaseProcessor, InFiber, SwitchToMain
<1>3. Located'
  <2>1. \A q \in Procs, k \in CPUs : Holds(k, q) => Holds(k, q)'
    BY DEF SchedulingInv, TypeOK, CpuPc, FiberPc, ProcessState, Handlers,
           Registers, Frame, Bit, ThreadInv, Carrying, FiberInv, Holds, Dead,
           ReleaseProcessor, InFiber, SwitchToMain
  <2>2. \A q \in Procs : Dead(q) => Dead(q)'
    BY DEF SchedulingInv, TypeOK, CpuPc, FiberPc, ProcessState, Handlers,
           Registers, Frame, Bit, Holds, Dead, HasMemory, ReleaseProcessor, InFiber,
           SwitchToMain
  <2> QED  BY <2>1, <2>2, HoldersStay DEF SchedulingInv, ReleaseProcessor, InFiber, SwitchToMain
<1>4. CreatedNowhere'
  BY DEF SchedulingInv, TypeOK, CpuPc, FiberPc, ProcessState, Handlers,
         Registers, Frame, Bit, CreatedNowhere, Unused, Carrying, ThreadInv,
         FiberPlace, FiberAt, SuspendedOn, UserFiber, ReleaseProcessor, InFiber,
         SwitchToMain
<1>5. ThreadInv'
  BY DEF SchedulingInv, TypeOK, CpuPc, FiberPc, ProcessState, Handlers,
         Registers, Frame, Bit, PlacesDisjoint, OnePlace, Holds, CreatedNowhere,
         Unused, Carrying, ThreadInv, FiberInv, ReleaseProcessor, InFiber,
         SwitchToMain
<1>6. Handshake'
  BY DEF SchedulingInv, TypeOK, CpuPc, FiberPc, ProcessState, Handlers,
         Registers, Frame, Bit, PlacesDisjoint, OnePlace, Holds, ThreadInv,
         Carrying, Handshake, FiberPlace, FiberAt, SuspendedOn, UserFiber,
         ReleaseProcessor, InFiber, SwitchToMain
<1>7. FiberPlace'
  BY DEF SchedulingInv, TypeOK, CpuPc, FiberPc, ProcessState, Handlers,
         Registers, Frame, Bit, PlacesDisjoint, OnePlace, Holds, CreatedNowhere,
         Unused, Carrying, ThreadInv, Handshake, FiberPlace, FiberAt,
         SuspendedOn, UserFiber, FiberInv, ReleaseProcessor, InFiber,
         SwitchToMain
<1>8. FiberInv'
  BY DEF SchedulingInv, TypeOK, CpuPc, FiberPc, ProcessState, Handlers,
         Registers, Frame, Bit, PlacesDisjoint, OnePlace, Holds, CreatedNowhere,
         Unused, Carrying, ThreadInv, Handshake, FiberPlace, FiberAt,
         SuspendedOn, UserFiber, FiberInv, ReleaseProcessor, InFiber,
         SwitchToMain
<1> QED  BY <1>1, <1>2, <1>3, <1>4, <1>5, <1>6, <1>7, <1>8 DEF SchedulingInv

\* A process goes on after its sleep.
LEMMA ResumedInv ==
    ASSUME SchedulingInv, NEW c \in CPUs, Resumed(c)
    PROVE  SchedulingInv'
<1>1. TypeOK'
  BY DEF SchedulingInv, TypeOK, CpuPc, FiberPc, ProcessState, Handlers,
         Registers, Frame, Bit, ThreadInv, Carrying, FiberInv, Resumed, InFiber
<1>2. PlacesDisjoint'
  BY DEF SchedulingInv, TypeOK, CpuPc, FiberPc, ProcessState, Handlers,
         Registers, Frame, Bit, PlacesDisjoint, OnePlace, Holds, ThreadInv,
         Carrying, FiberInv, Resumed, InFiber
<1>3. Located'
  <2>1. \A q \in Procs, k \in CPUs : Holds(k, q) => Holds(k, q)'
    BY DEF SchedulingInv, TypeOK, CpuPc, FiberPc, ProcessState, Handlers,
           Registers, Frame, Bit, ThreadInv, Carrying, FiberInv, Holds, Dead,
           Resumed, InFiber
  <2>2. \A q \in Procs : Dead(q) /\ ~Dead(q)' => Holds(c, q)'
    BY SMTT(20)
       DEF SchedulingInv, TypeOK, CpuPc, FiberPc, ProcessState, Handlers,
           Registers, Frame, Bit, ThreadInv, Carrying, FiberInv, Holds, Dead, HasMemory,
           Resumed, InFiber
  <2> QED  BY <2>1, <2>2, HoldersStay DEF SchedulingInv, Resumed, InFiber
<1>4. CreatedNowhere'
  BY DEF SchedulingInv, TypeOK, CpuPc, FiberPc, ProcessState, Handlers,
         Registers, Frame, Bit, CreatedNowhere, Unused, Carrying, ThreadInv,
         FiberPlace, FiberAt, SuspendedOn, UserFiber, Resumed, InFiber
<1>5. ThreadInv'
  BY DEF SchedulingInv, TypeOK, CpuPc, FiberPc, ProcessState, Handlers,
         Registers, Frame, Bit, PlacesDisjoint, OnePlace, Holds, CreatedNowhere,
         Unused, Carrying, ThreadInv, FiberInv, Resumed, InFiber
<1>6. Handshake'
  BY DEF SchedulingInv, TypeOK, CpuPc, FiberPc, ProcessState, Handlers,
         Registers, Frame, Bit, PlacesDisjoint, OnePlace, Holds, ThreadInv,
         Carrying, Handshake, FiberPlace, FiberAt, SuspendedOn, UserFiber,
         Resumed, InFiber
<1>7. FiberPlace'
  BY DEF SchedulingInv, TypeOK, CpuPc, FiberPc, ProcessState, Handlers,
         Registers, Frame, Bit, PlacesDisjoint, OnePlace, Holds, CreatedNowhere,
         Unused, Carrying, ThreadInv, Handshake, FiberPlace, FiberAt,
         SuspendedOn, UserFiber, FiberInv, Resumed, InFiber
<1>8. FiberInv'
  BY DEF SchedulingInv, TypeOK, CpuPc, FiberPc, ProcessState, Handlers,
         Registers, Frame, Bit, PlacesDisjoint, OnePlace, Holds, CreatedNowhere,
         Unused, Carrying, ThreadInv, Handshake, FiberPlace, FiberAt,
         SuspendedOn, UserFiber, FiberInv, Resumed, InFiber
<1> QED  BY <1>1, <1>2, <1>3, <1>4, <1>5, <1>6, <1>7, <1>8 DEF SchedulingInv

\* The destructor of RunningKernelGuard.
LEMMA LeaveGuardInv ==
    ASSUME SchedulingInv, NEW c \in CPUs, LeaveGuard(c)
    PROVE  SchedulingInv'
<1>1. TypeOK'
  BY DEF SchedulingInv, TypeOK, CpuPc, FiberPc, ProcessState, Handlers,
         Registers, Frame, Bit, ThreadInv, Carrying, FiberInv, LeaveGuard,
         InFiber
<1>2. PlacesDisjoint'
  BY DEF SchedulingInv, TypeOK, CpuPc, FiberPc, ProcessState, Handlers,
         Registers, Frame, Bit, PlacesDisjoint, OnePlace, Holds, ThreadInv,
         Carrying, FiberInv, LeaveGuard, InFiber
<1>3. Located'
  <2>1. \A q \in Procs, k \in CPUs : Holds(k, q) => Holds(k, q)'
    BY DEF SchedulingInv, TypeOK, CpuPc, FiberPc, ProcessState, Handlers,
           Registers, Frame, Bit, ThreadInv, Carrying, FiberInv, Holds, Dead,
           LeaveGuard, InFiber
  <2>2. \A q \in Procs : Dead(q) => Dead(q)'
    BY DEF SchedulingInv, TypeOK, CpuPc, FiberPc, ProcessState, Handlers,
           Registers, Frame, Bit, Holds, Dead, HasMemory, LeaveGuard, InFiber
  <2> QED  BY <2>1, <2>2, HoldersStay DEF SchedulingInv, LeaveGuard, InFiber
<1>4. CreatedNowhere'
  BY DEF SchedulingInv, TypeOK, CpuPc, FiberPc, ProcessState, Handlers,
         Registers, Frame, Bit, CreatedNowhere, Unused, Carrying, ThreadInv,
         FiberPlace, FiberAt, SuspendedOn, UserFiber, LeaveGuard, InFiber
<1>5. ThreadInv'
  BY DEF SchedulingInv, TypeOK, CpuPc, FiberPc, ProcessState, Handlers,
         Registers, Frame, Bit, PlacesDisjoint, OnePlace, Holds, CreatedNowhere,
         Unused, Carrying, ThreadInv, FiberInv, LeaveGuard, InFiber
<1>6. Handshake'
  BY DEF SchedulingInv, TypeOK, CpuPc, FiberPc, ProcessState, Handlers,
         Registers, Frame, Bit, PlacesDisjoint, OnePlace, Holds, ThreadInv,
         Carrying, Handshake, FiberPlace, FiberAt, SuspendedOn, UserFiber,
         LeaveGuard, InFiber
<1>7. FiberPlace'
  BY DEF SchedulingInv, TypeOK, CpuPc, FiberPc, ProcessState, Handlers,
         Registers, Frame, Bit, PlacesDisjoint, OnePlace, Holds, CreatedNowhere,
         Unused, Carrying, ThreadInv, Handshake, FiberPlace, FiberAt,
         SuspendedOn, UserFiber, FiberInv, LeaveGuard, InFiber
<1>8. FiberInv'
  BY DEF SchedulingInv, TypeOK, CpuPc, FiberPc, ProcessState, Handlers,
         Registers, Frame, Bit, PlacesDisjoint, OnePlace, Holds, CreatedNowhere,
         Unused, Carrying, ThreadInv, Handshake, FiberPlace, FiberAt,
         SuspendedOn, UserFiber, FiberInv, LeaveGuard, InFiber
<1> QED  BY <1>1, <1>2, <1>3, <1>4, <1>5, <1>6, <1>7, <1>8 DEF SchedulingInv

\* Exec.
LEMMA TrapExecInv ==
    ASSUME SchedulingInv, NEW c \in CPUs, TrapExec(c)
    PROVE  SchedulingInv'
<1>1. TypeOK'
  <2> DEFINE p == fiberOf[c]
  <2>1. p \in Procs
    BY DEF SchedulingInv, ThreadInv, Carrying, TrapExec, InTrap
  <2>2. context' \in [Procs -> Registers] /\ image' \in [Procs -> Bit]
    <3>1. 1 - image[p] \in Bit /\ 1 - ax[p] \in Bit
      BY <2>1, FlippedBit DEF SchedulingInv, TypeOK
    <3>2. [owner |-> p, image |-> 1 - image[p], ax |-> 1 - ax[p]] \in Registers
      BY <2>1, <3>1 DEF Registers
    <3>3. image' \in [Procs -> Bit]
      BY <2>1, <3>1 DEF SchedulingInv, TypeOK, TrapExec
    <3>4. context' \in [Procs -> Registers]
      BY <2>1, <3>2 DEF SchedulingInv, TypeOK, TrapExec
    <3> QED  BY <3>3, <3>4
  <2> QED
    BY <2>1, <2>2 DEF SchedulingInv, TypeOK, CpuPc, FiberPc, ProcessState,
                      Handlers, TrapExec, InTrap
<1>2. PlacesDisjoint'
  BY DEF SchedulingInv, TypeOK, CpuPc, FiberPc, ProcessState, Handlers,
         Registers, Frame, Bit, PlacesDisjoint, OnePlace, Holds, ThreadInv,
         Carrying, FiberInv, TrapExec, InTrap
<1>3. Located'
  <2>1. \A q \in Procs, k \in CPUs : Holds(k, q) => Holds(k, q)'
    BY DEF SchedulingInv, TypeOK, CpuPc, FiberPc, ProcessState, Handlers,
           Registers, Frame, Bit, ThreadInv, Carrying, FiberInv, Holds, Dead,
           TrapExec, InTrap
  <2>2. \A q \in Procs : Dead(q) /\ ~Dead(q)' => Holds(c, q)'
    BY SMTT(20)
       DEF SchedulingInv, TypeOK, CpuPc, FiberPc, ProcessState, Handlers,
           Registers, Frame, Bit, ThreadInv, Carrying, FiberInv, Holds, Dead, HasMemory,
           TrapExec, InTrap
  <2> QED  BY <2>1, <2>2, HoldersStay DEF SchedulingInv, TrapExec, InTrap
<1>4. CreatedNowhere'
  BY DEF SchedulingInv, TypeOK, CpuPc, FiberPc, ProcessState, Handlers,
         Registers, Frame, Bit, CreatedNowhere, Unused, Carrying, ThreadInv,
         FiberPlace, FiberAt, SuspendedOn, UserFiber, TrapExec, InTrap
<1>5. ThreadInv'
  BY DEF SchedulingInv, TypeOK, CpuPc, FiberPc, ProcessState, Handlers,
         Registers, Frame, Bit, PlacesDisjoint, OnePlace, Holds, CreatedNowhere,
         Unused, Carrying, ThreadInv, FiberInv, TrapExec, InTrap
<1>6. Handshake'
  BY DEF SchedulingInv, TypeOK, CpuPc, FiberPc, ProcessState, Handlers,
         Registers, Frame, Bit, PlacesDisjoint, OnePlace, Holds, ThreadInv,
         Carrying, Handshake, FiberPlace, FiberAt, SuspendedOn, UserFiber,
         TrapExec, InTrap
<1>7. FiberPlace'
  BY DEF SchedulingInv, TypeOK, CpuPc, FiberPc, ProcessState, Handlers,
         Registers, Frame, Bit, PlacesDisjoint, OnePlace, Holds, CreatedNowhere,
         Unused, Carrying, ThreadInv, Handshake, FiberPlace, FiberAt,
         SuspendedOn, UserFiber, FiberInv, TrapExec, InTrap
<1>8. FiberInv'
  BY DEF SchedulingInv, TypeOK, CpuPc, FiberPc, ProcessState, Handlers,
         Registers, Frame, Bit, PlacesDisjoint, OnePlace, Holds, CreatedNowhere,
         Unused, Carrying, ThreadInv, Handshake, FiberPlace, FiberAt,
         SuspendedOn, UserFiber, FiberInv, TrapExec, InTrap
<1> QED  BY <1>1, <1>2, <1>3, <1>4, <1>5, <1>6, <1>7, <1>8 DEF SchedulingInv

\* The end of a trap handler.
LEMMA TrapReturnInv ==
    ASSUME SchedulingInv, NEW c \in CPUs, TrapReturn(c)
    PROVE  SchedulingInv'
<1>1. TypeOK'
  <2> DEFINE p == fiberOf[c]
  <2>1. p \in Procs
    BY DEF SchedulingInv, ThreadInv, Carrying, TrapReturn
  <2>2. /\ regs' \in [CPUs -> Registers]
        /\ ax' \in [Procs -> Bit] /\ regAX' \in [Procs -> Bit]
    <3> DEFINE k == frame[p].processor
               v == 1 - ax[p]
    <3>1. v \in Bit
      BY <2>1, FlippedBit DEF SchedulingInv, TypeOK
    <3>2. /\ regs' = regs \/ regs' = [regs EXCEPT ![k].ax = v]
          /\ ax' = [ax EXCEPT ![p] = v]
          /\ regAX' = regAX \/ regAX' = [regAX EXCEPT ![current[k]] = v]
      BY DEF TrapReturn
    <3> HIDE DEF k, v
    <3>3. ASSUME regs' = [regs EXCEPT ![k].ax = v]
          PROVE  regs' \in [CPUs -> Registers]
      BY <3>1, <3>3, SetRegistersAX DEF SchedulingInv, TypeOK
    <3>4. ax \in [Procs -> Bit] /\ regAX \in [Procs -> Bit]
      BY DEF SchedulingInv, TypeOK
    <3>5. ax' \in [Procs -> Bit]
      BY <3>1, <3>2, <3>4
    <3>6. regAX' \in [Procs -> Bit]
      BY <3>1, <3>2, <3>4
    <3> QED  BY <3>2, <3>3, <3>5, <3>6 DEF SchedulingInv, TypeOK
  <2> QED
    BY <2>1, <2>2 DEF SchedulingInv, TypeOK, CpuPc, FiberPc, ProcessState,
                      Handlers, TrapReturn
<1>2. PlacesDisjoint'
  BY DEF SchedulingInv, TypeOK, CpuPc, FiberPc, ProcessState, Handlers,
         Registers, Frame, Bit, PlacesDisjoint, OnePlace, Holds, ThreadInv,
         Carrying, FiberInv, TrapReturn
<1>3. Located'
  <2>1. \A q \in Procs, k \in CPUs : Holds(k, q) => Holds(k, q)'
    BY DEF SchedulingInv, TypeOK, CpuPc, FiberPc, ProcessState, Handlers,
           Registers, Frame, Bit, ThreadInv, Carrying, FiberInv, Holds, Dead,
           TrapReturn
  <2>2. \A q \in Procs : Dead(q) => Dead(q)'
    BY DEF SchedulingInv, TypeOK, CpuPc, FiberPc, ProcessState, Handlers,
           Registers, Frame, Bit, Holds, Dead, HasMemory, TrapReturn
  <2> QED  BY <2>1, <2>2, HoldersStay DEF SchedulingInv, TrapReturn
<1>4. CreatedNowhere'
  BY DEF SchedulingInv, TypeOK, CpuPc, FiberPc, ProcessState, Handlers,
         Registers, Frame, Bit, CreatedNowhere, Unused, Carrying, ThreadInv,
         FiberPlace, FiberAt, SuspendedOn, UserFiber, TrapReturn
<1>5. ThreadInv'
  BY DEF SchedulingInv, TypeOK, CpuPc, FiberPc, ProcessState, Handlers,
         Registers, Frame, Bit, PlacesDisjoint, OnePlace, Holds, CreatedNowhere,
         Unused, Carrying, ThreadInv, FiberInv, TrapReturn
<1>6. Handshake'
  BY DEF SchedulingInv, TypeOK, CpuPc, FiberPc, ProcessState, Handlers,
         Registers, Frame, Bit, PlacesDisjoint, OnePlace, Holds, ThreadInv,
         Carrying, Handshake, FiberPlace, FiberAt, SuspendedOn, UserFiber,
         TrapReturn
<1>7. FiberPlace'
  BY DEF SchedulingInv, TypeOK, CpuPc, FiberPc, ProcessState, Handlers,
         Registers, Frame, Bit, PlacesDisjoint, OnePlace, Holds, CreatedNowhere,
         Unused, Carrying, ThreadInv, Handshake, FiberPlace, FiberAt,
         SuspendedOn, UserFiber, FiberInv, TrapReturn
<1>8. FiberInv'
  BY DEF SchedulingInv, TypeOK, CpuPc, FiberPc, ProcessState, Handlers,
         Registers, Frame, Bit, PlacesDisjoint, OnePlace, Holds, CreatedNowhere,
         Unused, Carrying, ThreadInv, Handshake, FiberPlace, FiberAt,
         SuspendedOn, UserFiber, FiberInv, TrapReturn
<1> QED  BY <1>1, <1>2, <1>3, <1>4, <1>5, <1>6, <1>7, <1>8 DEF SchedulingInv

\* Processor::GetRunnableKernelProcess takes the first process.
LEMMA PollInv ==
    ASSUME SchedulingInv, NEW c \in CPUs, Poll(c), kernelQ[c] # <<>>
    PROVE  SchedulingInv'
<1> DEFINE h == Head(kernelQ[c])
<1>1. kernelQ \in [CPUs -> Seq(Procs)]
  BY DEF SchedulingInv, TypeOK
<1>2. /\ h \in Procs /\ Tail(kernelQ[c]) \in Seq(Procs)
      /\ Elements(Tail(kernelQ[c])) = Elements(kernelQ[c]) \ {h}
      /\ Distinct(Tail(kernelQ[c])) /\ h \in Elements(kernelQ[c])
  BY <1>1, TailElements DEF SchedulingInv, PlacesDisjoint
<1>3. /\ kernelQ' = [kernelQ EXCEPT ![c] = Tail(@)]
      /\ cproc' = [cproc EXCEPT ![c] = h]
      /\ cpc' = [cpc EXCEPT ![c] = "kresume"] /\ cpc[c] = "poll"
      /\ UNCHANGED <<current, regs, fiberOf, procVars, fiberVars, queue,
                     sleeping, ghostVars>>
  BY DEF Poll
<1> HIDE DEF h
<1>4. /\ kernelQ' \in [CPUs -> Seq(Procs)]
      /\ \A k \in CPUs :
             /\ Elements(kernelQ'[k]) =
                    IF k = c THEN Elements(kernelQ[c]) \ {h} ELSE Elements(kernelQ[k])
             /\ Distinct(kernelQ'[k])
  <2>1. \A k \in CPUs : kernelQ'[k] = IF k = c THEN Tail(kernelQ[c]) ELSE kernelQ[k]
    BY <1>1, <1>3
  <2> QED  BY <1>1, <1>2, <1>3, <2>1 DEF SchedulingInv, PlacesDisjoint
<1>5. InKernelQ(c, h)
  BY <1>2
<1>6. TypeOK'
  BY <1>2, <1>3, <1>4, <1>5
     DEF SchedulingInv, TypeOK, CpuPc, FiberPc, ProcessState, Handlers,
         Registers, Frame, Bit, ThreadInv, Carrying, FiberInv
<1>7. PlacesDisjoint'
  BY <1>2, <1>3, <1>4, <1>5
     DEF SchedulingInv, TypeOK, CpuPc, FiberPc, ProcessState, Handlers,
         Registers, Frame, Bit, PlacesDisjoint, OnePlace, Holds, ThreadInv,
         Carrying, FiberInv
<1>8. Located'
  <2> SUFFICES ASSUME NEW q \in Procs, ~Dead(q)' PROVE Somewhere(q)'
    BY DEF Located
  <2>1. ASSUME InQueue(q) PROVE Somewhere(q)'
    BY <2>1, <1>2, <1>3, <1>4
       DEF Somewhere, SchedulingInv, TypeOK, CpuPc, FiberPc, ProcessState,
           Handlers, Registers, Frame, Bit, ThreadInv, Carrying, Holds, Dead
  <2>2. ASSUME NEW k \in CPUs, InKernelQ(k, q) PROVE Somewhere(q)'
    BY <2>2, <1>2, <1>3, <1>4, ZenonT(40)
       DEF Somewhere, SchedulingInv, TypeOK, CpuPc, FiberPc, ProcessState,
           Handlers, Registers, Frame, Bit, ThreadInv, Carrying, Holds, Dead
  <2>3. ASSUME NEW k \in CPUs, Holds(k, q) PROVE Somewhere(q)'
    BY <2>3, <1>2, <1>3, <1>4
       DEF Somewhere, SchedulingInv, TypeOK, CpuPc, FiberPc, ProcessState,
           Handlers, Registers, Frame, Bit, ThreadInv, Carrying, Holds, Dead
  <2>4. ASSUME NEW f \in Events, Asleep(f, q) PROVE Somewhere(q)'
    BY <2>4, <1>2, <1>3, <1>4
       DEF Somewhere, SchedulingInv, TypeOK, CpuPc, FiberPc, ProcessState,
           Handlers, Registers, Frame, Bit, ThreadInv, Carrying, Holds, Dead
  <2>5. Dead(q) => Somewhere(q)'
    BY <1>2, <1>3, <1>4
       DEF Somewhere, SchedulingInv, TypeOK, CpuPc, FiberPc, ProcessState,
           Handlers, Registers, Frame, Bit, ThreadInv, Carrying, Holds, Dead, HasMemory
  <2> QED  BY <2>1, <2>2, <2>3, <2>4, <2>5 DEF SchedulingInv, Located, Somewhere
<1>9. CreatedNowhere'
  BY <1>2, <1>3, <1>4, <1>5
     DEF SchedulingInv, TypeOK, CpuPc, FiberPc, ProcessState, Handlers,
         Registers, Frame, Bit, CreatedNowhere, Unused, Carrying, ThreadInv,
         FiberPlace, FiberAt, SuspendedOn, UserFiber
<1>10. ThreadInv'
  BY <1>2, <1>3, <1>4, <1>5
     DEF SchedulingInv, TypeOK, CpuPc, FiberPc, ProcessState, Handlers,
         Registers, Frame, Bit, PlacesDisjoint, OnePlace, Holds, CreatedNowhere,
         Unused, Carrying, ThreadInv, FiberInv
<1>11. Handshake'
  BY <1>2, <1>3, <1>4, <1>5
     DEF SchedulingInv, TypeOK, CpuPc, FiberPc, ProcessState, Handlers,
         Registers, Frame, Bit, PlacesDisjoint, OnePlace, Holds, ThreadInv,
         Carrying, Handshake, FiberPlace, FiberAt, SuspendedOn, UserFiber
<1>12. FiberPlace'
  BY <1>2, <1>3, <1>4, <1>5
     DEF SchedulingInv, TypeOK, CpuPc, FiberPc, ProcessState, Handlers,
         Registers, Frame, Bit, PlacesDisjoint, OnePlace, Holds, CreatedNowhere,
         Unused, Carrying, ThreadInv, Handshake, FiberPlace, FiberAt,
         SuspendedOn, UserFiber, FiberInv
<1>13. FiberInv'
  BY <1>2, <1>3, <1>4, <1>5
     DEF SchedulingInv, TypeOK, CpuPc, FiberPc, ProcessState, Handlers,
         Registers, Frame, Bit, PlacesDisjoint, OnePlace, Holds, CreatedNowhere,
         Unused, Carrying, ThreadInv, Handshake, FiberPlace, FiberAt,
         SuspendedOn, UserFiber, FiberInv
<1> QED  BY <1>6, <1>7, <1>8, <1>9, <1>10, <1>11, <1>12, <1>13 DEF SchedulingInv

\* Processor::GetRunnableKernelProcess finds none.
LEMMA PollOnInv ==
    ASSUME SchedulingInv, NEW c \in CPUs, Poll(c), kernelQ[c] = <<>>
    PROVE  SchedulingInv'
<1>1. /\ cpc' = [cpc EXCEPT ![c] = "sched"] /\ cpc[c] = "poll"
      /\ UNCHANGED <<kernelQ, cproc, current, regs, fiberOf, procVars,
                     fiberVars, queue, sleeping, ghostVars>>
  BY DEF Poll
<1>2. TypeOK'
  BY <1>1
     DEF SchedulingInv, TypeOK, CpuPc, FiberPc, ProcessState, Handlers,
         Registers, Frame, Bit, ThreadInv, Carrying, FiberInv
<1>3. PlacesDisjoint'
  BY <1>1
     DEF SchedulingInv, TypeOK, CpuPc, FiberPc, ProcessState, Handlers,
         Registers, Frame, Bit, PlacesDisjoint, OnePlace, Holds, ThreadInv,
         Carrying, FiberInv
<1>4. Located'
  <2>1. \A q \in Procs, k \in CPUs : Holds(k, q) => Holds(k, q)'
    BY <1>1 DEF SchedulingInv, TypeOK, ThreadInv, Holds
  <2>2. \A q \in Procs : Dead(q) => Dead(q)'
    BY <1>1 DEF Dead, HasMemory
  <2> QED  BY <1>1, <2>1, <2>2, HoldersStay DEF SchedulingInv
<1>5. CreatedNowhere'
  BY <1>1
     DEF SchedulingInv, TypeOK, CpuPc, FiberPc, ProcessState, Handlers,
         Registers, Frame, Bit, CreatedNowhere, Unused, Carrying, ThreadInv,
         FiberPlace, FiberAt, SuspendedOn, UserFiber
<1>6. ThreadInv'
  BY <1>1
     DEF SchedulingInv, TypeOK, CpuPc, FiberPc, ProcessState, Handlers,
         Registers, Frame, Bit, PlacesDisjoint, OnePlace, Holds, CreatedNowhere,
         Unused, Carrying, ThreadInv, FiberInv
<1>7. Handshake'
  BY <1>1
     DEF SchedulingInv, TypeOK, CpuPc, FiberPc, ProcessState, Handlers,
         Registers, Frame, Bit, PlacesDisjoint, OnePlace, Holds, ThreadInv,
         Carrying, Handshake, FiberPlace, FiberAt, SuspendedOn, UserFiber
<1>8. FiberPlace'
  BY <1>1
     DEF SchedulingInv, TypeOK, CpuPc, FiberPc, ProcessState, Handlers,
         Registers, Frame, Bit, PlacesDisjoint, OnePlace, Holds, CreatedNowhere,
         Unused, Carrying, ThreadInv, Handshake, FiberPlace, FiberAt,
         SuspendedOn, UserFiber, FiberInv
<1>9. FiberInv'
  BY <1>1
     DEF SchedulingInv, TypeOK, CpuPc, FiberPc, ProcessState, Handlers,
         Registers, Frame, Bit, PlacesDisjoint, OnePlace, Holds, CreatedNowhere,
         Unused, Carrying, ThreadInv, Handshake, FiberPlace, FiberAt,
         SuspendedOn, UserFiber, FiberInv
<1> QED  BY <1>2, <1>3, <1>4, <1>5, <1>6, <1>7, <1>8, <1>9 DEF SchedulingInv

\* GetRunnableProcess pops the first runnable process; before it are zombies.
LEMMA QueuePop ==
    ASSUME SchedulingInv, NEW i \in DOMAIN queue, Runnable(queue[i]),
           \A j \in 1 .. (i - 1) : ~Runnable(queue[j]),
           queue' = SubSeq(queue, i + 1, Len(queue))
    PROVE  /\ queue[i] \in Procs /\ queue[i] \in Elements(queue)
           /\ queue' \in Seq(Procs) /\ Distinct(queue')
           /\ \A p \in Procs : p \in Elements(queue') =>
                  p \in Elements(queue) /\ p # queue[i]
           /\ \A p \in Procs : p \in Elements(queue) =>
                  p = queue[i] \/ p \in Elements(queue') \/ state[p] = "zombie"
<1>1. queue \in Seq(Procs) /\ Distinct(queue)
  BY DEF SchedulingInv, TypeOK, PlacesDisjoint, OnePlace
<1>2. DOMAIN queue = 1 .. Len(queue) /\ Len(queue) \in Nat
  BY <1>1, LenProperties
<1>3. /\ queue' \in Seq(Procs) /\ queue[i] \in Procs
      /\ Elements(queue') = {queue[j] : j \in (i + 1) .. Len(queue)}
      /\ Distinct(queue') /\ queue[i] \notin Elements(queue')
  BY <1>1, SuffixElements
<1>4. ASSUME NEW p \in Procs, p \in Elements(queue')
      PROVE  p \in Elements(queue) /\ p # queue[i]
  <2>1. PICK j \in (i + 1) .. Len(queue) : p = queue[j]  BY <1>3, <1>4
  <2>2. j \in DOMAIN queue  BY <1>2
  <2> QED  BY <1>3, <1>4, <2>1, <2>2 DEF Elements
<1>5. ASSUME NEW p \in Procs, p \in Elements(queue)
      PROVE  p = queue[i] \/ p \in Elements(queue') \/ state[p] = "zombie"
  <2>1. PICK j \in DOMAIN queue : p = queue[j]  BY <1>5 DEF Elements
  <2>2. j \in 1 .. (i - 1) \/ j = i \/ j \in (i + 1) .. Len(queue)  BY <1>2
  <2>3. ASSUME j \in 1 .. (i - 1) PROVE state[p] = "zombie"
    BY <1>5, <2>1, <2>3 DEF SchedulingInv, FiberPlace, FiberAt, Runnable
  <2> QED  BY <1>3, <2>1, <2>2, <2>3
<1>6. queue[i] \in Elements(queue)
  BY DEF Elements
<1> QED  BY <1>3, <1>4, <1>5, <1>6

\* GetRunnableProcess drops the zombies of the queue.
LEMMA GetNoneInv ==
    ASSUME SchedulingInv, NEW c \in CPUs, cpc[c] = "sched",
           \A i \in DOMAIN queue : ~Runnable(queue[i]),
           queue' = <<>>,
           cpc' = [cpc EXCEPT ![c] = "poll"],
           UNCHANGED <<kernelQ, cproc, current, regs, fiberOf, procVars,
                       fiberVars, sleeping, ghostVars>>
    PROVE  SchedulingInv'
<1>1. Elements(queue') = {} /\ Distinct(queue') /\ queue' \in Seq(Procs)
  BY DEF Elements, Distinct
<1>2. \A p \in Procs : InQueue(p) => Dead(p)
  BY DEF Elements, SchedulingInv, FiberPlace, FiberAt, Runnable, Dead
<1>3. TypeOK'
  BY <1>1
     DEF SchedulingInv, TypeOK, CpuPc, FiberPc, ProcessState, Handlers,
         Registers, Frame, Bit, ThreadInv, Carrying, FiberInv
<1>4. PlacesDisjoint'
  BY <1>1
     DEF SchedulingInv, TypeOK, CpuPc, FiberPc, ProcessState, Handlers,
         Registers, Frame, Bit, PlacesDisjoint, OnePlace, Holds, ThreadInv,
         Carrying, FiberInv
<1>5. Located'
  <2> SUFFICES ASSUME NEW q \in Procs, ~Dead(q)' PROVE Somewhere(q)'
    BY DEF Located
  <2>1. ASSUME InQueue(q) PROVE Somewhere(q)'
    BY <2>1, <1>1, <1>2
       DEF Somewhere, SchedulingInv, TypeOK, CpuPc, FiberPc, ProcessState,
           Handlers, Registers, Frame, Bit, ThreadInv, Carrying, Holds, Dead, HasMemory
  <2>2. ASSUME NEW k \in CPUs, InKernelQ(k, q) PROVE Somewhere(q)'
    BY <2>2, <1>1, <1>2
       DEF Somewhere, SchedulingInv, TypeOK, CpuPc, FiberPc, ProcessState,
           Handlers, Registers, Frame, Bit, ThreadInv, Carrying, Holds, Dead
  <2>3. ASSUME NEW k \in CPUs, Holds(k, q) PROVE Somewhere(q)'
    BY <2>3, <1>1, <1>2
       DEF Somewhere, SchedulingInv, TypeOK, CpuPc, FiberPc, ProcessState,
           Handlers, Registers, Frame, Bit, ThreadInv, Carrying, Holds, Dead
  <2>4. ASSUME NEW f \in Events, Asleep(f, q) PROVE Somewhere(q)'
    BY <2>4, <1>1, <1>2
       DEF Somewhere, SchedulingInv, TypeOK, CpuPc, FiberPc, ProcessState,
           Handlers, Registers, Frame, Bit, ThreadInv, Carrying, Holds, Dead
  <2>5. Dead(q) => Somewhere(q)'
    BY <1>1, <1>2
       DEF Somewhere, SchedulingInv, TypeOK, CpuPc, FiberPc, ProcessState,
           Handlers, Registers, Frame, Bit, ThreadInv, Carrying, Holds, Dead, HasMemory
  <2> QED  BY <2>1, <2>2, <2>3, <2>4, <2>5 DEF SchedulingInv, Located, Somewhere
<1>6. CreatedNowhere'
  BY <1>1
     DEF SchedulingInv, TypeOK, CpuPc, FiberPc, ProcessState, Handlers,
         Registers, Frame, Bit, CreatedNowhere, Unused, Carrying, ThreadInv,
         FiberPlace, FiberAt, SuspendedOn, UserFiber
<1>7. ThreadInv'
  BY <1>1
     DEF SchedulingInv, TypeOK, CpuPc, FiberPc, ProcessState, Handlers,
         Registers, Frame, Bit, PlacesDisjoint, OnePlace, Holds, CreatedNowhere,
         Unused, Carrying, ThreadInv, FiberInv
<1>8. Handshake'
  BY <1>1
     DEF SchedulingInv, TypeOK, CpuPc, FiberPc, ProcessState, Handlers,
         Registers, Frame, Bit, PlacesDisjoint, OnePlace, Holds, ThreadInv,
         Carrying, Handshake, FiberPlace, FiberAt, SuspendedOn, UserFiber
<1>9. FiberPlace'
  BY <1>1
     DEF SchedulingInv, TypeOK, CpuPc, FiberPc, ProcessState, Handlers,
         Registers, Frame, Bit, PlacesDisjoint, OnePlace, Holds, CreatedNowhere,
         Unused, Carrying, ThreadInv, Handshake, FiberPlace, FiberAt,
         SuspendedOn, UserFiber, FiberInv
<1>10. FiberInv'
  BY <1>1
     DEF SchedulingInv, TypeOK, CpuPc, FiberPc, ProcessState, Handlers,
         Registers, Frame, Bit, PlacesDisjoint, OnePlace, Holds, CreatedNowhere,
         Unused, Carrying, ThreadInv, Handshake, FiberPlace, FiberAt,
         SuspendedOn, UserFiber, FiberInv
<1> QED  BY <1>3, <1>4, <1>5, <1>6, <1>7, <1>8, <1>9, <1>10 DEF SchedulingInv

\* GetRunnableProcess returns a process that is runnable in user mode.
LEMMA GetUserInv ==
    ASSUME SchedulingInv, NEW c \in CPUs, cpc[c] = "sched",
           NEW i \in DOMAIN queue, state[queue[i]] = "runnableInUser",
           \A j \in 1 .. (i - 1) : ~Runnable(queue[j]),
           queue' = SubSeq(queue, i + 1, Len(queue)),
           cproc' = [cproc EXCEPT ![c] = queue[i]],
           cpc' = [cpc EXCEPT ![c] = "prepare"],
           UNCHANGED <<kernelQ, current, regs, fiberOf, procVars,
                       fiberVars, sleeping, ghostVars>>
    PROVE  SchedulingInv'
<1> DEFINE h == queue[i]
<1>1. Runnable(h)
  BY DEF Runnable
<1>2. /\ h \in Procs /\ InQueue(h) /\ state[h] = "runnableInUser"
      /\ queue' \in Seq(Procs) /\ Distinct(queue')
      /\ \A p \in Procs : p \in Elements(queue') => p \in Elements(queue) /\ p # h
      /\ \A p \in Procs : p \in Elements(queue) =>
             p = h \/ p \in Elements(queue') \/ state[p] = "zombie"
  BY <1>1, QueuePop
<1>3. cproc' = [cproc EXCEPT ![c] = h]
  OBVIOUS
<1> HIDE DEF h
<1>4. TypeOK'
  BY <1>2, <1>3
     DEF SchedulingInv, TypeOK, CpuPc, FiberPc, ProcessState, Handlers,
         Registers, Frame, Bit, ThreadInv, Carrying, FiberInv
<1>5. PlacesDisjoint'
  BY <1>2, <1>3
     DEF SchedulingInv, TypeOK, CpuPc, FiberPc, ProcessState, Handlers,
         Registers, Frame, Bit, PlacesDisjoint, OnePlace, Holds, ThreadInv,
         Carrying, FiberInv
<1>6. Located'
  <2> SUFFICES ASSUME NEW q \in Procs, ~Dead(q)' PROVE Somewhere(q)'
    BY DEF Located
  <2>1. ASSUME InQueue(q) PROVE Somewhere(q)'
    BY <2>1, <1>2, <1>3
       DEF Somewhere, SchedulingInv, TypeOK, CpuPc, FiberPc, ProcessState,
           Handlers, Registers, Frame, Bit, ThreadInv, Carrying, Holds, Dead
  <2>2. ASSUME NEW k \in CPUs, InKernelQ(k, q) PROVE Somewhere(q)'
    BY <2>2, <1>2, <1>3
       DEF Somewhere, SchedulingInv, TypeOK, CpuPc, FiberPc, ProcessState,
           Handlers, Registers, Frame, Bit, ThreadInv, Carrying, Holds, Dead
  <2>3. ASSUME NEW k \in CPUs, Holds(k, q) PROVE Somewhere(q)'
    BY <2>3, <1>2, <1>3
       DEF Somewhere, SchedulingInv, TypeOK, CpuPc, FiberPc, ProcessState,
           Handlers, Registers, Frame, Bit, ThreadInv, Carrying, Holds, Dead
  <2>4. ASSUME NEW f \in Events, Asleep(f, q) PROVE Somewhere(q)'
    BY <2>4, <1>2, <1>3
       DEF Somewhere, SchedulingInv, TypeOK, CpuPc, FiberPc, ProcessState,
           Handlers, Registers, Frame, Bit, ThreadInv, Carrying, Holds, Dead
  <2>5. Dead(q) => Somewhere(q)'
    BY <1>2, <1>3
       DEF Somewhere, SchedulingInv, TypeOK, CpuPc, FiberPc, ProcessState,
           Handlers, Registers, Frame, Bit, ThreadInv, Carrying, Holds, Dead, HasMemory
  <2> QED  BY <2>1, <2>2, <2>3, <2>4, <2>5 DEF SchedulingInv, Located, Somewhere
<1>7. CreatedNowhere'
  BY <1>2, <1>3
     DEF SchedulingInv, TypeOK, CpuPc, FiberPc, ProcessState, Handlers,
         Registers, Frame, Bit, CreatedNowhere, Unused, Carrying, ThreadInv,
         FiberPlace, FiberAt, SuspendedOn, UserFiber
<1>8. ThreadInv'
  BY <1>2, <1>3
     DEF SchedulingInv, TypeOK, CpuPc, FiberPc, ProcessState, Handlers,
         Registers, Frame, Bit, PlacesDisjoint, OnePlace, Holds, CreatedNowhere,
         Unused, Carrying, ThreadInv, FiberInv
<1>9. Handshake'
  BY <1>2, <1>3
     DEF SchedulingInv, TypeOK, CpuPc, FiberPc, ProcessState, Handlers,
         Registers, Frame, Bit, PlacesDisjoint, OnePlace, Holds, ThreadInv,
         Carrying, Handshake, FiberPlace, FiberAt, SuspendedOn, UserFiber
<1>10. FiberPlace'
  BY <1>2, <1>3
     DEF SchedulingInv, TypeOK, CpuPc, FiberPc, ProcessState, Handlers,
         Registers, Frame, Bit, PlacesDisjoint, OnePlace, Holds, CreatedNowhere,
         Unused, Carrying, ThreadInv, Handshake, FiberPlace, FiberAt,
         SuspendedOn, UserFiber, FiberInv
<1>11. FiberInv'
  BY <1>2, <1>3
     DEF SchedulingInv, TypeOK, CpuPc, FiberPc, ProcessState, Handlers,
         Registers, Frame, Bit, PlacesDisjoint, OnePlace, Holds, CreatedNowhere,
         Unused, Carrying, ThreadInv, Handshake, FiberPlace, FiberAt,
         SuspendedOn, UserFiber, FiberInv
<1> QED  BY <1>4, <1>5, <1>6, <1>7, <1>8, <1>9, <1>10, <1>11 DEF SchedulingInv

-----------------------------------------------------------------------------
(* The actions that move a process between the lists.                      *)

\* Nothing of what the invariant says about the place of p changes, except that
\* p may have left a list or a processor.
Untouched(p) ==
    /\ state'[p] = state[p] /\ fpc'[p] = fpc[p] /\ frame'[p] = frame[p]
    /\ inKernel'[p] = inKernel[p] /\ kernelProcessor'[p] = kernelProcessor[p]
    /\ InQueue(p)' => InQueue(p)
    /\ \A e \in Events : Asleep(e, p)' => Asleep(e, p)
    /\ \A c \in CPUs :
           /\ InKernelQ(c, p)' => InKernelQ(c, p)
           /\ Holds(c, p)' => Holds(c, p)
           /\ cpc'[c] \in Carrying /\ cproc'[c] = p =>
                  cpc'[c] = cpc[c] /\ cproc[c] = p
           /\ cpc[c] = "fiber" /\ cproc[c] = p =>
                  cpc'[c] = "fiber" /\ cproc'[c] = p

(* A step that does not touch a process leaves it in the one place it was
   in: the frame rule of the place invariant. *)
LEMMA UntouchedOnePlace ==
    ASSUME NEW p \in Procs, Untouched(p), OnePlace(p)
    PROVE  OnePlace(p)'
BY DEF OnePlace, Untouched

(* The frame rule for a slot that holds no process yet. *)
LEMMA UntouchedUnused ==
    ASSUME NEW p \in Procs, Untouched(p), state[p] = "created" => Unused(p)
    PROVE  state'[p] = "created" => Unused(p)'
BY DEF Unused, Untouched

(* The frame rule for how far a kernel fiber has got. *)
LEMMA UntouchedFiberAt ==
    ASSUME NEW p \in Procs, Untouched(p), FiberAt(p)
    PROVE  FiberAt(p)'
<1>1. \A c : SuspendedOn(p, c) => SuspendedOn(p, c)'
  BY DEF SuspendedOn, Untouched
<1>2. (\A c \in CPUs : ~(cpc[c] = "fiber" /\ cproc[c] = p))'
          => \A c \in CPUs : ~(cpc[c] = "fiber" /\ cproc[c] = p)
  BY DEF Untouched
<1>3. fpc[p] \in UserFiber => (fpc[p] \in UserFiber)'
  BY DEF UserFiber, Untouched
<1>4. ASSUME NEW c \in CPUs, cproc'[c] = p,
             cpc'[c] \in {"kresume", "kenter", "prepare", "uwait"}
      PROVE  cproc[c] = p /\ cpc'[c] = cpc[c]
  BY <1>4 DEF Untouched, Carrying
<1> QED  BY <1>1, <1>2, <1>3, <1>4 DEF FiberAt, Untouched

\* So it is enough to look at the process that moves.
LEMMA OneMoves ==
    ASSUME SchedulingInv, NEW q \in Procs,
           \A p \in Procs \ {q} : Untouched(p),
           Distinct(queue'), \A c \in CPUs : Distinct(kernelQ'[c]),
           OnePlace(q)', state'[q] = "created" => Unused(q)', FiberAt(q)'
    PROVE  PlacesDisjoint' /\ CreatedNowhere' /\ FiberPlace'
<1>1. ASSUME NEW p \in Procs
      PROVE  OnePlace(p)' /\ (state'[p] = "created" => Unused(p)') /\ FiberAt(p)'
  <2>1. CASE p = q  BY <2>1
  <2>2. CASE p # q
    <3>1. Untouched(p)  BY <2>2
    <3>2. OnePlace(p) /\ (state[p] = "created" => Unused(p)) /\ FiberAt(p)
      BY DEF SchedulingInv, PlacesDisjoint, CreatedNowhere, FiberPlace
    <3> QED  BY <3>1, <3>2, UntouchedOnePlace, UntouchedUnused, UntouchedFiberAt
  <2> QED  BY <2>1, <2>2
<1> QED  BY <1>1 DEF PlacesDisjoint, CreatedNowhere, FiberPlace

\* A process that slept is handed to the processor of its fiber.
LEMMA HandOverInv ==
    ASSUME SchedulingInv, NEW c \in CPUs, cpc[c] = "sched",
           NEW h \in Procs, NEW home \in CPUs,
           InQueue(h), SuspendedOn(h, home),
           queue' \in Seq(Procs) /\ Distinct(queue'),
           \A p \in Procs : p \in Elements(queue') => p \in Elements(queue) /\ p # h,
           \A p \in Procs : p \in Elements(queue) =>
               p = h \/ p \in Elements(queue') \/ state[p] = "zombie",
           kernelQ' \in [CPUs -> Seq(Procs)],
           \A k \in CPUs : Distinct(kernelQ'[k]),
           \A k \in CPUs : Elements(kernelQ'[k]) =
               IF k = home THEN Elements(kernelQ[k]) \cup {h} ELSE Elements(kernelQ[k]),
           cpc' = [cpc EXCEPT ![c] = "poll"],
           UNCHANGED <<cproc, current, regs, fiberOf, procVars,
                       fiberVars, sleeping, ghostVars>>
    PROVE  SchedulingInv'
<1>1. \A p \in Procs \ {h} : Untouched(p)
  BY DEF SchedulingInv, TypeOK, Untouched, Holds, Carrying
<1>2. /\ \A k \in CPUs : ~InKernelQ(k, h) /\ ~Holds(k, h)
      /\ \A e \in Events : ~Asleep(e, h)
      /\ FiberAt(h) /\ state[h] # "created"
  BY DEF SchedulingInv, PlacesDisjoint, OnePlace, FiberPlace, CreatedNowhere, Unused
<1>3. OnePlace(h)'
  <2>1. \A k \in CPUs : ~Holds(k, h)'
    BY <1>2 DEF SchedulingInv, TypeOK, Holds
  <2>2. ~InQueue(h)' /\ \A k \in CPUs : InKernelQ(k, h)' => k = home
    BY <1>2
  <2>3. \A e \in Events : ~Asleep(e, h)'
    BY <1>2
  <2> QED  BY <2>1, <2>2, <2>3 DEF OnePlace
<1>4. state'[h] = "created" => Unused(h)'
  BY <1>2
<1>5. FiberAt(h)'
  <2>1. ASSUME NEW k \in CPUs, cproc[k] = h
        PROVE  cpc[k] \notin {"kresume", "kenter", "prepare", "uwait"}
    <3>1. ~Holds(k, h)  BY <1>2
    <3>2. cpc[k] \in {"kenter", "uwait"} => current[k] = cproc[k]
      BY DEF SchedulingInv, ThreadInv
    <3> QED  BY <2>1, <3>1, <3>2 DEF Holds
  <2>2. cpc' \in [CPUs -> CpuPc] /\ cpc'[c] = "poll" /\ \A k \in CPUs \ {c} : cpc'[k] = cpc[k]
    BY DEF SchedulingInv, TypeOK, CpuPc
  <2> QED  BY <1>2, <2>1, <2>2 DEF FiberAt, SuspendedOn
<1>6. PlacesDisjoint' /\ CreatedNowhere' /\ FiberPlace'
  BY <1>1, <1>3, <1>4, <1>5, OneMoves
<1>7. TypeOK'
  BY DEF SchedulingInv, TypeOK, CpuPc, FiberPc, ProcessState, Handlers,
         Registers, Frame, Bit, ThreadInv, Carrying, FiberInv
<1>8. Located'
  <2> SUFFICES ASSUME NEW q \in Procs, ~Dead(q)' PROVE Somewhere(q)'
    BY DEF Located
  <2>1. ASSUME InQueue(q) PROVE Somewhere(q)'
    BY <2>1
       DEF Somewhere, SchedulingInv, TypeOK, CpuPc, FiberPc, ProcessState,
           Handlers, Registers, Frame, Bit, ThreadInv, Carrying, Holds, Dead
  <2>2. ASSUME NEW k \in CPUs, InKernelQ(k, q) PROVE Somewhere(q)'
    BY <2>2, ZenonT(40)
       DEF Somewhere, SchedulingInv, TypeOK, CpuPc, FiberPc, ProcessState,
           Handlers, Registers, Frame, Bit, ThreadInv, Carrying, Holds, Dead
  <2>3. ASSUME NEW k \in CPUs, Holds(k, q) PROVE Somewhere(q)'
    BY <2>3
       DEF Somewhere, SchedulingInv, TypeOK, CpuPc, FiberPc, ProcessState,
           Handlers, Registers, Frame, Bit, ThreadInv, Carrying, Holds, Dead
  <2>4. ASSUME NEW f \in Events, Asleep(f, q) PROVE Somewhere(q)'
    BY <2>4
       DEF Somewhere, SchedulingInv, TypeOK, CpuPc, FiberPc, ProcessState,
           Handlers, Registers, Frame, Bit, ThreadInv, Carrying, Holds, Dead
  <2>5. Dead(q) => Somewhere(q)'
    BY DEF Somewhere, SchedulingInv, TypeOK, CpuPc, FiberPc, ProcessState,
           Handlers, Registers, Frame, Bit, ThreadInv, Carrying, Holds, Dead, HasMemory
  <2> QED  BY <2>1, <2>2, <2>3, <2>4, <2>5 DEF SchedulingInv, Located, Somewhere
<1>9. ThreadInv'
  BY DEF SchedulingInv, TypeOK, CpuPc, FiberPc, ProcessState, Handlers,
         Registers, Frame, Bit, PlacesDisjoint, OnePlace, Holds, CreatedNowhere,
         Unused, Carrying, ThreadInv, FiberInv
<1>10. Handshake'
  BY DEF SchedulingInv, TypeOK, CpuPc, FiberPc, ProcessState, Handlers,
         Registers, Frame, Bit, PlacesDisjoint, OnePlace, Holds, ThreadInv,
         Carrying, Handshake, FiberPlace, FiberAt, SuspendedOn, UserFiber
<1>11. FiberInv'
  BY DEF SchedulingInv, TypeOK, CpuPc, FiberPc, ProcessState, Handlers,
         Registers, Frame, Bit, PlacesDisjoint, OnePlace, Holds, CreatedNowhere,
         Unused, Carrying, ThreadInv, Handshake, FiberPlace, FiberAt,
         SuspendedOn, UserFiber, FiberInv
<1> QED  BY <1>6, <1>7, <1>8, <1>9, <1>10, <1>11 DEF SchedulingInv

\* GetRunnableProcess hands over a process that is runnable in its kernel fiber.
LEMMA GetKernelInv ==
    ASSUME SchedulingInv, NEW c \in CPUs, cpc[c] = "sched",
           NEW i \in DOMAIN queue, state[queue[i]] = "runnableInKernel",
           \A j \in 1 .. (i - 1) : ~Runnable(queue[j]),
           queue' = SubSeq(queue, i + 1, Len(queue)),
           kernelQ' = [kernelQ EXCEPT ![kernelProcessor[queue[i]]] =
                           Append(@, queue[i])],
           cpc' = [cpc EXCEPT ![c] = "poll"],
           UNCHANGED <<cproc, current, regs, fiberOf, procVars,
                       fiberVars, sleeping, ghostVars>>
    PROVE  SchedulingInv'
<1> DEFINE h == queue[i]
           home == kernelProcessor[queue[i]]
<1>1. Runnable(h)
  BY DEF Runnable
<1>2. /\ h \in Procs /\ InQueue(h)
      /\ queue' \in Seq(Procs) /\ Distinct(queue')
      /\ \A p \in Procs : p \in Elements(queue') => p \in Elements(queue) /\ p # h
      /\ \A p \in Procs : p \in Elements(queue) =>
             p = h \/ p \in Elements(queue') \/ state[p] = "zombie"
  BY <1>1, QueuePop
<1>3. SuspendedOn(h, home) /\ home \in CPUs
  BY <1>2 DEF SchedulingInv, FiberPlace, FiberAt, SuspendedOn
<1>4. kernelQ \in [CPUs -> Seq(Procs)] /\ \A k \in CPUs : ~InKernelQ(k, h)
  BY <1>2 DEF SchedulingInv, TypeOK, PlacesDisjoint, OnePlace
<1>5. kernelQ' = [kernelQ EXCEPT ![home] = Append(@, h)]
  OBVIOUS
<1> HIDE DEF h, home
<1>6. /\ kernelQ' \in [CPUs -> Seq(Procs)]
      /\ \A k \in CPUs :
             /\ Elements(kernelQ'[k]) =
                    IF k = home THEN Elements(kernelQ[k]) \cup {h} ELSE Elements(kernelQ[k])
             /\ Distinct(kernelQ'[k])
  <2>1. \A k \in CPUs : kernelQ'[k] = IF k = home THEN Append(kernelQ[home], h) ELSE kernelQ[k]
    BY <1>4, <1>5
  <2>2. /\ Append(kernelQ[home], h) \in Seq(Procs)
        /\ Elements(Append(kernelQ[home], h)) = Elements(kernelQ[home]) \cup {h}
        /\ Distinct(Append(kernelQ[home], h))
    BY <1>2, <1>3, <1>4, AppendElements DEF SchedulingInv, PlacesDisjoint
  <2> QED  BY <1>3, <1>4, <1>5, <2>1, <2>2 DEF SchedulingInv, PlacesDisjoint
<1> QED
  BY <1>2, <1>3, <1>6, HandOverInv

\* Scheduler::GetRunnableProcess.
LEMMA GetRunnableProcessInv ==
    ASSUME SchedulingInv, NEW c \in CPUs, GetRunnableProcess(c)
    PROVE  SchedulingInv'
<1>1. cpc[c] = "sched" /\ UNCHANGED <<current, regs, fiberOf, procVars, fiberVars,
                                      sleeping, ghostVars>>
  BY DEF GetRunnableProcess
<1>2. CASE /\ \A i \in DOMAIN queue : ~Runnable(queue[i])
           /\ queue' = <<>>
           /\ cpc' = [cpc EXCEPT ![c] = "poll"]
           /\ UNCHANGED <<kernelQ, cproc>>
  BY <1>1, <1>2, GetNoneInv
<1>3. ASSUME NEW i \in DOMAIN queue, Runnable(queue[i]),
             \A j \in 1 .. (i - 1) : ~Runnable(queue[j]),
             queue' = SubSeq(queue, i + 1, Len(queue)),
             IF state[queue[i]] = "runnableInKernel"
             THEN /\ kernelQ' = [kernelQ EXCEPT ![kernelProcessor[queue[i]]] =
                                     Append(@, queue[i])]
                  /\ cpc' = [cpc EXCEPT ![c] = "poll"]
                  /\ UNCHANGED cproc
             ELSE /\ cproc' = [cproc EXCEPT ![c] = queue[i]]
                  /\ cpc' = [cpc EXCEPT ![c] = "prepare"]
                  /\ UNCHANGED kernelQ
      PROVE  SchedulingInv'
  <2>1. CASE state[queue[i]] = "runnableInKernel"
    BY <1>1, <1>3, <2>1, GetKernelInv
  <2>2. CASE state[queue[i]] # "runnableInKernel"
    <3>1. state[queue[i]] = "runnableInUser"  BY <1>3, <2>2 DEF Runnable
    <3> QED  BY <1>1, <1>3, <2>2, <3>1, GetUserInv
  <2> QED  BY <2>1, <2>2
<1> QED  BY <1>2, <1>3 DEF GetRunnableProcess

\* The end of a slice or of a trap: the process is runnable in user mode again,
\* while its kernel fiber is still on its way out.
LEMMA RequeueInv ==
    ASSUME SchedulingInv, NEW c \in CPUs, NEW p \in Procs, NEW save \in BOOLEAN,
           NEW to \in {"unguard", "leave"},
           cpc[c] = "fiber", cproc[c] = p, fpc[p] \in {"handle", "finish"},
           fpc[p] = "finish" => to = "leave",
           current[c] = p, state[p] # "zombie",
           ResetCurrentProcess(c, save, FALSE),
           AddRunnableProcess(p, "runnableInUser", c, "fiber"),
           fpc' = [fpc EXCEPT ![p] = to],
           UNCHANGED <<cproc, kernelQ, regs, fiberOf, mainFiber, handler, inKernel,
                       regAX, useRegAX, frame, sleeping, ghostVars>>
    PROVE  SchedulingInv'
<1>1. TypeOK /\ "fiber" \in CpuPc /\ "runnableInUser" \in ProcessState
  BY DEF SchedulingInv, CpuPc, ProcessState
<1>2. Holds(c, p) /\ ~InQueue(p) /\ Distinct(queue)
  BY DEF SchedulingInv, PlacesDisjoint, OnePlace, Holds
<1>3. /\ OthersStay(c) /\ cpc'[c] = "fiber"
      /\ queue' \in Seq(Procs) /\ Distinct(queue')
      /\ state' = [state EXCEPT ![p] = "runnableInUser"]
      /\ Elements(queue') = Elements(queue) \cup {p}
  BY <1>1, <1>2, QueueOne
<1>4. /\ context' \in [Procs -> Registers]
      /\ saveContext' \in [Procs -> BOOLEAN]
      /\ kernelProcessor' = kernelProcessor
      /\ processor' = [processor EXCEPT ![p] = NoCpu]
      /\ current' = [current EXCEPT ![c] = NoProc]
  BY <1>1, ResetOne
<1>5. /\ c \in CPUs /\ cpc[c] = "fiber" /\ cproc[c] = p
      /\ \A k \in CPUs : cpc'[k] = cpc[k] \/ (cpc[k] = "blocked" /\ cpc'[k] = "sched")
      /\ \A k \in CPUs \ {c} : current'[k] = current[k]
  BY <1>1, <1>3, <1>4 DEF OthersStay, TypeOK
<1>6. /\ \A k \in CPUs : ~InKernelQ(k, p)
      /\ \A k \in CPUs \ {c} : ~Holds(k, p)
      /\ \A e \in Events : ~Asleep(e, p)
      /\ FiberAt(p)
  BY <1>2 DEF SchedulingInv, PlacesDisjoint, OnePlace, FiberPlace
<1>7. \A x \in Procs, k \in CPUs : Holds(k, x)' => Holds(k, x) /\ k # c
  BY <1>1, <1>4, <1>5, <1>3 DEF Holds, TypeOK
<1>8. \A x \in Procs \ {p} : Untouched(x)
  <2> SUFFICES ASSUME NEW x \in Procs, x # p PROVE Untouched(x)
    OBVIOUS
  <2>1. state'[x] = state[x] /\ fpc'[x] = fpc[x] /\ kernelProcessor'[x] = kernelProcessor[x]
    BY <1>1, <1>3, <1>4 DEF TypeOK
  <2>2. InQueue(x)' => InQueue(x)
    BY <1>3
  <2> QED  BY <1>5, <1>7, <2>1, <2>2 DEF Untouched, Carrying
<1>9. OnePlace(p)'
  <2>1. \A k \in CPUs : ~Holds(k, p)'
    BY <1>6, <1>7
  <2>2. (\A k \in CPUs : ~InKernelQ(k, p)') /\ \A e \in Events : ~Asleep(e, p)'
    BY <1>6
  <2> QED  BY <2>1, <2>2 DEF OnePlace
<1>10. state'[p] = "runnableInUser" /\ fpc'[p] = to
  BY <1>1, <1>3 DEF TypeOK
<1>11. FiberAt(p)'
  <2>1. cpc'[c] = "fiber" /\ cproc'[c] = p
    BY <1>3
  <2>2. fpc'[p] = "unguard" => (frame[p].prev)' # "created"
    BY <1>6, <1>10 DEF FiberAt
  <2>3. (fpc[p] \in UserFiber)'
    BY <1>10 DEF UserFiber
  <2>4. ASSUME NEW k \in CPUs, cproc'[k] = p
        PROVE  cpc'[k] \notin {"kresume", "kenter", "prepare", "uwait"}
    <3>1. cpc'[k] \in {"kresume", "kenter", "prepare", "uwait"} => cpc'[k] = cpc[k] /\ k # c
      BY <1>3, <1>5
    <3>2. cpc[k] \in {"kenter", "uwait"} => current[k] = cproc[k]
      BY DEF SchedulingInv, ThreadInv
    <3>3. ~(k # c /\ Holds(k, p))
      BY <1>6
    <3> QED  BY <2>4, <3>1, <3>2, <3>3 DEF Holds
  <2>5. (\A k \in CPUs : ~InKernelQ(k, p)') /\ \A e \in Events : ~Asleep(e, p)'
    BY <1>6
  <2> QED  BY <1>10, <2>1, <2>2, <2>3, <2>4, <2>5 DEF FiberAt
<1>12. PlacesDisjoint' /\ CreatedNowhere' /\ FiberPlace'
  <2>1. \A k \in CPUs : Distinct(kernelQ'[k])
    BY DEF SchedulingInv, PlacesDisjoint
  <2>2. state'[p] # "created"
    BY <1>10
  <2> QED  BY <1>3, <1>8, <1>9, <1>11, <2>1, <2>2, OneMoves
<1>13. TypeOK'
  BY <1>3, <1>4
     DEF OthersStay, SchedulingInv, TypeOK, CpuPc, FiberPc, ProcessState, Handlers,
         Registers, Frame, Bit, ThreadInv, Carrying, FiberInv
<1>14. Located'
  <2> SUFFICES ASSUME NEW x \in Procs, ~Dead(x)' PROVE Somewhere(x)'
    BY DEF Located
  <2>1. CASE x = p
    BY <1>3, <2>1 DEF Somewhere
  <2>2. CASE x # p
    <3>1. state'[x] = state[x] /\ context'[x] = context[x]
      BY <1>1, <1>3, <2>2 DEF TypeOK, ResetCurrentProcess
    <3>2. Somewhere(x)
      BY <3>1 DEF SchedulingInv, Located, Dead, HasMemory
    <3>3. InQueue(x) => InQueue(x)'
      BY <1>3
    <3>4. \A k \in CPUs : Holds(k, x) => Holds(k, x)'
      <4> SUFFICES ASSUME NEW k \in CPUs, Holds(k, x) PROVE Holds(k, x)'
        OBVIOUS
      <4>1. k # c
        BY <2>2, <1>5 DEF Holds
      <4> QED  BY <1>5, <4>1 DEF Holds
    <3> QED  BY <3>2, <3>3, <3>4 DEF Somewhere
  <2> QED  BY <2>1, <2>2
<1>15. ThreadInv'
  BY <1>3, <1>4
     DEF OthersStay, SchedulingInv, TypeOK, CpuPc, FiberPc, ProcessState, Handlers,
         Registers, Frame, Bit, PlacesDisjoint, OnePlace, Holds, CreatedNowhere,
         Unused, Carrying, ThreadInv, FiberInv
<1>16. Handshake'
  <2>1. \A k \in CPUs : cpc'[k] \in {"fiber", "left", "urun", "user", "ienter"} => cpc'[k] = cpc[k]
    BY <1>3, <1>5
  <2>2. ASSUME NEW k \in CPUs, cpc[k] \in {"urun", "user", "ienter"}
        PROVE  cproc[k] # p
    BY <1>5, <2>2 DEF SchedulingInv, Handshake
  <2>3. \A x : x # p => fpc'[x] = fpc[x]
    BY <1>1 DEF TypeOK
  <2> QED  BY <2>1, <2>2, <2>3 DEF SchedulingInv, Handshake
<1>17. FiberInv'
  BY <1>2, <1>3, <1>4
     DEF OthersStay, SchedulingInv, TypeOK, CpuPc, FiberPc, ProcessState, Handlers,
         Registers, Frame, Bit, PlacesDisjoint, OnePlace, Holds, CreatedNowhere,
         Unused, Carrying, ThreadInv, Handshake, FiberPlace, FiberAt,
         SuspendedOn, UserFiber, FiberInv
<1> QED  BY <1>12, <1>13, <1>14, <1>15, <1>16, <1>17 DEF SchedulingInv

\* The end of a slice or of a trap of a process that is not on its processor any
\* more, or has exited.
LEMMA AdvanceInv ==
    ASSUME SchedulingInv, NEW c \in CPUs, NEW p \in Procs,
           NEW to \in {"unguard", "leave"},
           cpc[c] = "fiber", cproc[c] = p, fpc[p] \in {"handle", "finish"},
           fpc[p] = "handle" => to = "unguard",
           fpc[p] = "finish" =>
               to = "leave" /\ (state[p] = "zombie" \/ processor[p] # c),
           fpc' = [fpc EXCEPT ![p] = to],
           UNCHANGED <<cpuVars, procVars, frame, queue, sleeping, ghostVars>>
    PROVE  SchedulingInv'
<1>1. fpc' \in [Procs -> FiberPc] /\ \A x \in Procs : fpc'[x] = IF x = p THEN to ELSE fpc[x]
  BY DEF SchedulingInv, TypeOK, FiberPc
<1>2. TypeOK'
  BY <1>1
     DEF SchedulingInv, TypeOK, CpuPc, FiberPc, ProcessState, Handlers,
         Registers, Frame, Bit, ThreadInv, Carrying, FiberInv
<1>3. PlacesDisjoint'
  BY <1>1
     DEF SchedulingInv, TypeOK, CpuPc, FiberPc, ProcessState, Handlers,
         Registers, Frame, Bit, PlacesDisjoint, OnePlace, Holds, ThreadInv,
         Carrying, FiberInv
<1>4. Located'
  <2>1. \A q \in Procs, k \in CPUs : Holds(k, q) => Holds(k, q)'
    BY DEF Holds
  <2>2. \A q \in Procs : Dead(q) => Dead(q)'
    BY DEF Dead, HasMemory
  <2> QED  BY <2>1, <2>2, HoldersStay DEF SchedulingInv
<1>5. CreatedNowhere'
  BY <1>1
     DEF SchedulingInv, TypeOK, CpuPc, FiberPc, ProcessState, Handlers,
         Registers, Frame, Bit, CreatedNowhere, Unused, Carrying, ThreadInv,
         FiberPlace, FiberAt, SuspendedOn, UserFiber
<1>6. ThreadInv'
  BY <1>1
     DEF SchedulingInv, TypeOK, CpuPc, FiberPc, ProcessState, Handlers,
         Registers, Frame, Bit, PlacesDisjoint, OnePlace, Holds, CreatedNowhere,
         Unused, Carrying, ThreadInv, FiberInv
<1>7. Handshake'
  BY <1>1
     DEF SchedulingInv, TypeOK, CpuPc, FiberPc, ProcessState, Handlers,
         Registers, Frame, Bit, PlacesDisjoint, OnePlace, Holds, ThreadInv,
         Carrying, Handshake, FiberPlace, FiberAt, SuspendedOn, UserFiber
<1>8. FiberPlace'
  BY <1>1
     DEF SchedulingInv, TypeOK, CpuPc, FiberPc, ProcessState, Handlers,
         Registers, Frame, Bit, PlacesDisjoint, OnePlace, Holds, CreatedNowhere,
         Unused, Carrying, ThreadInv, Handshake, FiberPlace, FiberAt,
         SuspendedOn, UserFiber, FiberInv
<1>9. FiberInv'
  BY <1>1
     DEF SchedulingInv, TypeOK, CpuPc, FiberPc, ProcessState, Handlers,
         Registers, Frame, Bit, PlacesDisjoint, OnePlace, Holds, CreatedNowhere,
         Unused, Carrying, ThreadInv, Handshake, FiberPlace, FiberAt,
         SuspendedOn, UserFiber, FiberInv
<1> QED  BY <1>2, <1>3, <1>4, <1>5, <1>6, <1>7, <1>8, <1>9 DEF SchedulingInv

\* ClockInterruptHandler::HandleInterrupt.
LEMMA ClockHandleInv ==
    ASSUME SchedulingInv, NEW c \in CPUs, ClockHandle(c)
    PROVE  SchedulingInv'
<1> DEFINE p == cproc[c]
<1>1. /\ cpc[c] = "fiber" /\ fiberOf[c] = p /\ p \in Procs /\ fpc[p] = "handle"
      /\ frame[p].processor = c /\ current[c] = p
  BY DEF SchedulingInv, ThreadInv, Carrying, FiberInv, ClockHandle, InFiber
<1>2. saveContext[p] \in BOOLEAN /\ p # NoProc
  BY <1>1 DEF SchedulingInv, TypeOK
<1>3. CASE state[p] \notin {"zombie", "asleep"}
  <2>1. /\ ResetCurrentProcess(c, saveContext[p], FALSE)
        /\ AddRunnableProcess(p, "runnableInUser", c, "fiber")
        /\ fpc' = [fpc EXCEPT ![p] = "unguard"]
        /\ UNCHANGED <<cproc, kernelQ, regs, fiberOf, mainFiber, handler,
                       inKernel, regAX, useRegAX, frame, sleeping, ghostVars>>
    BY <1>1, <1>2, <1>3 DEF ClockHandle
  <2> QED  BY <1>1, <1>2, <1>3, <2>1, RequeueInv
<1>4. CASE state[p] \in {"zombie", "asleep"}
  <2>1. /\ fpc' = [fpc EXCEPT ![p] = "unguard"]
        /\ UNCHANGED <<cpuVars, procVars, frame, queue, sleeping, ghostVars>>
    BY <1>1, <1>2, <1>4 DEF ClockHandle
  <2> QED  BY <1>1, <2>1, AdvanceInv
<1> QED  BY <1>3, <1>4

\* The end of a turn of RunKernel.
LEMMA FinishInv ==
    ASSUME SchedulingInv, NEW c \in CPUs, Finish(c)
    PROVE  SchedulingInv'
<1> DEFINE p == cproc[c]
<1>1. /\ cpc[c] = "fiber" /\ fiberOf[c] = p /\ p \in Procs /\ fpc[p] = "finish"
      /\ frame[p].processor = c
      /\ \/ current[c] = p /\ processor[p] = c
         \/ current[c] = NoProc /\ processor[p] = NoCpu
  BY DEF SchedulingInv, ThreadInv, Carrying, FiberInv, Finish, InFiber
<1>2. MustSave(p) \in BOOLEAN
  BY <1>1 DEF SchedulingInv, TypeOK, MustSave
<1>3. CASE state[p] # "zombie" /\ processor[p] = c
  <2>1. /\ ResetCurrentProcess(c, MustSave(p), FALSE)
        /\ AddRunnableProcess(p, "runnableInUser", c, "fiber")
        /\ fpc' = [fpc EXCEPT ![p] = "leave"]
        /\ UNCHANGED <<cproc, kernelQ, regs, fiberOf, mainFiber, handler,
                       inKernel, regAX, useRegAX, frame, sleeping, ghostVars>>
    BY <1>1, <1>3 DEF Finish
  <2> QED  BY <1>1, <1>2, <1>3, <2>1, RequeueInv
<1>4. CASE state[p] = "zombie" \/ processor[p] # c
  <2>1. /\ fpc' = [fpc EXCEPT ![p] = "leave"]
        /\ UNCHANGED <<cpuVars, procVars, frame, queue, sleeping, ghostVars>>
    BY <1>1, <1>4 DEF Finish
  <2> QED  BY <1>1, <1>4, <2>1, AdvanceInv
<1> QED  BY <1>3, <1>4

\* The switch back to the main fiber at the end of a turn of RunKernel.
LEMMA FiberLeaveInv ==
    ASSUME SchedulingInv, NEW c \in CPUs, NEW p, p = cproc[c], FiberLeave(c)
    PROVE  SchedulingInv'
<1>1. /\ cpc[c] = "fiber" /\ fiberOf[c] = p /\ p \in Procs /\ fpc[p] = "leave"
      /\ frame[p].main = c
      /\ current[c] = p => state[p] = "zombie"
      /\ current[c] \in {p, NoProc}
      /\ inKernel[p]
  BY DEF SchedulingInv, ThreadInv, Carrying, FiberInv, FiberLeave, InFiber, Handshake
<1>2. /\ fpc' = [fpc EXCEPT ![p] = "top"]
      /\ fiberOf' = [fiberOf EXCEPT ![c] = NoProc]
      /\ cpc' = [(IF WorkAvailable THEN Notified ELSE cpc) EXCEPT ![c] = "left"]
      /\ UNCHANGED <<cproc, current, kernelQ, regs, procVars, frame,
                     queue, sleeping, ghostVars>>
  BY <1>1 DEF FiberLeave, SwitchToMain
<1>3. OthersStay(c) /\ cpc'[c] = "left"
  BY <1>2 DEF SchedulingInv, TypeOK, OthersStay, Notified, CpuPc
<1>4. /\ \A k \in CPUs \ {c} : cpc'[k] = cpc[k] \/ (cpc[k] = "blocked" /\ cpc'[k] = "sched")
      /\ cpc' \in [CPUs -> CpuPc]
  BY <1>3 DEF OthersStay
<1>5. fpc' \in [Procs -> FiberPc] /\ \A x \in Procs : fpc'[x] = IF x = p THEN "top" ELSE fpc[x]
  BY <1>1, <1>2 DEF SchedulingInv, TypeOK, FiberPc
<1>6. fiberOf' \in [CPUs -> Procs \cup {NoProc}]
      /\ \A k \in CPUs : fiberOf'[k] = IF k = c THEN NoProc ELSE fiberOf[k]
  BY <1>1, <1>2 DEF SchedulingInv, TypeOK
<1>7. \A k \in CPUs : cpc'[k] # "fiber" /\ cpc'[k] \in Carrying => k = c \/ cpc'[k] = cpc[k]
  BY <1>4 DEF Carrying
<1>8. \A x \in Procs, k \in CPUs : Holds(k, x)' => Holds(k, x) /\ k # c
  BY <1>2, <1>3, <1>4 DEF Holds
<1>9. \A x \in Procs \ {p} : Untouched(x)
  BY <1>1, <1>2, <1>3, <1>4, <1>5, <1>8 DEF Untouched, Carrying
<1>10. OnePlace(p)'
  BY <1>1, <1>2, <1>8 DEF OnePlace, SchedulingInv, PlacesDisjoint
<1>11. \A k \in CPUs \ {c} : ~(cpc[k] = "fiber" /\ cproc[k] = p)
  BY <1>1 DEF SchedulingInv, Handshake
<1>12. FiberAt(p)'
  <2>1. FiberAt(p)
    BY <1>1 DEF SchedulingInv, FiberPlace
  <2>2. \A k : ~SuspendedOn(p, k)
    BY <1>1 DEF SuspendedOn
  <2>3. (fpc[p] \in UserFiber)' /\ fpc'[p] = "top"
    BY <1>1, <1>5 DEF UserFiber
  <2>4. ASSUME NEW k \in CPUs, cproc'[k] = p,
               cpc'[k] \in {"kresume", "kenter", "prepare", "uwait"}
        PROVE  cpc[k] = cpc'[k] /\ cproc[k] = p
    BY <1>2, <1>3, <1>4, <2>4
  <2> QED  BY <1>2, <2>1, <2>2, <2>3, <2>4 DEF FiberAt
<1>13. state'[p] = "created" => Unused(p)'
  BY <1>1, <1>2 DEF SchedulingInv, CreatedNowhere, Unused
<1>14. PlacesDisjoint' /\ CreatedNowhere' /\ FiberPlace'
  <2>1. Distinct(queue') /\ \A k \in CPUs : Distinct(kernelQ'[k])
    BY <1>2 DEF SchedulingInv, PlacesDisjoint
  <2> QED  BY <1>1, <1>9, <1>10, <1>12, <1>13, <2>1, OneMoves
<1>15. TypeOK'
  BY <1>2, <1>4, <1>5, <1>6 DEF SchedulingInv, TypeOK
<1>16. Located'
  <2> SUFFICES ASSUME NEW x \in Procs, ~Dead(x)' PROVE Somewhere(x)'
    BY DEF Located
  <2>1. ~Dead(x) /\ Somewhere(x)
    BY <1>2 DEF Dead, HasMemory, SchedulingInv, Located
  <2>2. ASSUME NEW k \in CPUs, Holds(k, x) PROVE Holds(k, x)'
    <3>1. k # c
      BY <1>1, <2>1, <2>2 DEF Holds, Dead
    <3> QED  BY <1>2, <1>4, <2>2, <3>1 DEF Holds
  <2> QED  BY <1>2, <2>1, <2>2 DEF Somewhere
<1>17. ThreadInv'
  BY <1>1, <1>2, <1>3, <1>4, <1>6 DEF SchedulingInv, ThreadInv, Carrying
<1>18. Handshake'
  <2>1. \A k \in CPUs : cpc[k] \in {"urun", "user", "ienter"} => cproc[k] # p
    BY <1>1 DEF SchedulingInv, Handshake
  <2>2. \A k \in CPUs : cpc'[k] \in {"fiber", "left", "urun", "user", "ienter"} =>
            \/ k = c
            \/ cpc'[k] = cpc[k] /\ cpc'[k] \in {"fiber", "left", "urun", "user", "ienter"}
    BY <1>4
  <2>3. \A k \in CPUs : cpc'[k] \in {"urun", "user", "ienter"} =>
            cproc'[k] \in Procs /\ fpc'[cproc'[k]] = "top" /\ ~inKernel'[cproc'[k]]
    BY <1>2, <1>3, <1>5, <2>1, <2>2 DEF SchedulingInv, Handshake, ThreadInv, Carrying
  <2>4. \A k \in CPUs : cpc'[k] \in {"fiber", "left"} => cpc[k] \in {"fiber", "left"}
    BY <1>1, <2>2
  <2>5. \A k, j \in CPUs : /\ cpc'[k] \in {"fiber", "left"} /\ cpc'[j] \in {"fiber", "left"}
                           /\ cproc'[k] = cproc'[j]
                           => k = j
    BY <1>2, <2>4 DEF SchedulingInv, Handshake
  <2>6. \A k \in CPUs : cpc'[k] \in {"fiber", "left"} => inKernel'[cproc'[k]]
    BY <1>2, <2>4 DEF SchedulingInv, Handshake
  <2> QED  BY <2>3, <2>5, <2>6 DEF Handshake
<1>19. FiberInv'
  <2>1. \A k \in CPUs : cpc'[k] = "fiber" => k # c /\ cpc[k] = "fiber"
    BY <1>3, <1>4
  <2>2. \A k \in CPUs : cpc'[k] = "fiber" => cproc[k] # p /\ cproc[k] \in Procs
    BY <1>11, <2>1 DEF SchedulingInv, ThreadInv, Carrying
  <2> QED  BY <1>2, <1>5, <2>1, <2>2 DEF SchedulingInv, FiberInv
<1> QED  BY <1>14, <1>15, <1>16, <1>17, <1>18, <1>19 DEF SchedulingInv

\* The switch back to the main fiber after an exception of a handler: the process whose
\* fiber it is has no memory.
LEMMA FiberThrowsInv ==
    ASSUME SchedulingInv, NEW c \in CPUs, NEW p, p = cproc[c], FiberThrows(c)
    PROVE  SchedulingInv'
<1>1. /\ cpc[c] = "fiber" /\ fiberOf[c] = p /\ p \in Procs /\ fpc[p] \in {"handle", "awake"}
      /\ frame[p].processor = c /\ frame[p].main = c
      /\ current[c] = p
      /\ inKernel[p] /\ ~HasMemory(p)
  <2>1. /\ cpc[c] = "fiber" /\ fiberOf[c] = p /\ p \in Procs /\ fpc[p] \in {"handle", "awake"}
        /\ frame[p].processor = c /\ frame[p].main = c
        /\ current[c] = p
        /\ inKernel[p]
    BY DEF SchedulingInv, ThreadInv, Carrying, FiberInv, FiberThrows, Handshake
  <2> QED  BY <2>1 DEF FiberThrows
<1>2. /\ fpc' = [fpc EXCEPT ![p] = "top"]
      /\ fiberOf' = [fiberOf EXCEPT ![c] = NoProc]
      /\ cpc' = [cpc EXCEPT ![c] = "left"]
      /\ state' = [state EXCEPT ![p] = IF @ = "runningKernel" THEN frame[p].prev ELSE @]
      /\ UNCHANGED <<cproc, current, kernelQ, regs, processor, kernelProcessor,
                     mainFiber, handler, inKernel, saveContext, context, regAX,
                     useRegAX, frame, queue, sleeping, ghostVars>>
  BY <1>1 DEF FiberThrows, SwitchToMain
<1>3. OthersStay(c) /\ cpc'[c] = "left"
  BY <1>2 DEF SchedulingInv, TypeOK, OthersStay, CpuPc
<1>4. /\ state' \in [Procs -> ProcessState]
      /\ \A x \in Procs \ {p} : state'[x] = state[x]
      /\ state'[p] # "created"
  <2>1. FiberAt(p) /\ frame[p] \in Frame /\ state \in [Procs -> ProcessState]
    BY <1>1 DEF SchedulingInv, FiberPlace, TypeOK
  <2>2. frame[p].prev \in ProcessState
    BY <2>1 DEF Frame
  <2>3. frame[p].prev # "created"
    BY <1>1, <2>1 DEF FiberAt
  <2>4. state[p] # "created"
    BY <1>1 DEF SchedulingInv, CreatedNowhere, Unused
  <2> QED  BY <1>1, <1>2, <2>1, <2>2, <2>3, <2>4
<1>5. /\ \A k \in CPUs \ {c} : cpc'[k] = cpc[k] \/ (cpc[k] = "blocked" /\ cpc'[k] = "sched")
      /\ cpc' \in [CPUs -> CpuPc]
  BY <1>3 DEF OthersStay
<1>6. fpc' \in [Procs -> FiberPc] /\ \A x \in Procs : fpc'[x] = IF x = p THEN "top" ELSE fpc[x]
  BY <1>1, <1>2 DEF SchedulingInv, TypeOK, FiberPc
<1>7. fiberOf' \in [CPUs -> Procs \cup {NoProc}]
      /\ \A k \in CPUs : fiberOf'[k] = IF k = c THEN NoProc ELSE fiberOf[k]
  BY <1>1, <1>2 DEF SchedulingInv, TypeOK
<1>8. \A k \in CPUs : cpc'[k] # "fiber" /\ cpc'[k] \in Carrying => k = c \/ cpc'[k] = cpc[k]
  BY <1>5 DEF Carrying
<1>9. \A x \in Procs, k \in CPUs : Holds(k, x)' => Holds(k, x) /\ k # c
  BY <1>2, <1>3, <1>5 DEF Holds
<1>10. \A x \in Procs \ {p} : Untouched(x)
  BY <1>1, <1>4, <1>2, <1>3, <1>5, <1>6, <1>9 DEF Untouched, Carrying
<1>11. OnePlace(p)'
  BY <1>1, <1>2, <1>9 DEF OnePlace, SchedulingInv, PlacesDisjoint
<1>12. \A k \in CPUs \ {c} : ~(cpc[k] = "fiber" /\ cproc[k] = p)
  BY <1>1 DEF SchedulingInv, Handshake
<1>13. FiberAt(p)'
  <2>1. FiberAt(p)
    BY <1>1 DEF SchedulingInv, FiberPlace
  <2>2. \A k : ~SuspendedOn(p, k)
    BY <1>1 DEF SuspendedOn
  <2>3. (fpc[p] \in UserFiber)' /\ fpc'[p] = "top"
    BY <1>1, <1>6 DEF UserFiber
  <2>4. ASSUME NEW k \in CPUs, cproc'[k] = p,
               cpc'[k] \in {"kresume", "kenter", "prepare", "uwait"}
        PROVE  cpc[k] = cpc'[k] /\ cproc[k] = p
    BY <1>2, <1>3, <1>5, <2>4
  <2> QED  BY <1>2, <2>1, <2>2, <2>3, <2>4 DEF FiberAt
<1>14. PlacesDisjoint' /\ CreatedNowhere' /\ FiberPlace'
  <2>1. Distinct(queue') /\ \A k \in CPUs : Distinct(kernelQ'[k])
    BY <1>2 DEF SchedulingInv, PlacesDisjoint
  <2> QED  BY <1>1, <1>4, <1>10, <1>11, <1>13, <2>1, OneMoves
<1>15. TypeOK'
  BY <1>2, <1>4, <1>5, <1>6, <1>7 DEF SchedulingInv, TypeOK
<1>16. Located'
  <2> SUFFICES ASSUME NEW x \in Procs, ~Dead(x)' PROVE Somewhere(x)'
    BY DEF Located
  <2>1. x # p
    BY <1>1, <1>2 DEF Dead, HasMemory
  <2>3. Somewhere(x)
    BY <1>2, <1>4, <2>1 DEF Dead, HasMemory, SchedulingInv, Located
  <2>2. ASSUME NEW k \in CPUs, Holds(k, x) PROVE Holds(k, x)'
    <3>1. k # c
      BY <1>1, <2>1, <2>2 DEF Holds
    <3> QED  BY <1>2, <1>5, <2>2, <3>1 DEF Holds
  <2> QED  BY <1>2, <2>2, <2>3 DEF Somewhere
<1>17. ThreadInv'
  BY <1>1, <1>2, <1>3, <1>5, <1>7 DEF SchedulingInv, ThreadInv, Carrying
<1>18. Handshake'
  <2>1. \A k \in CPUs : cpc[k] \in {"urun", "user", "ienter"} => cproc[k] # p
    BY <1>1 DEF SchedulingInv, Handshake
  <2>2. \A k \in CPUs : cpc'[k] \in {"fiber", "left", "urun", "user", "ienter"} =>
            \/ k = c
            \/ cpc'[k] = cpc[k] /\ cpc'[k] \in {"fiber", "left", "urun", "user", "ienter"}
    BY <1>5
  <2>3. \A k \in CPUs : cpc'[k] \in {"urun", "user", "ienter"} =>
            cproc'[k] \in Procs /\ fpc'[cproc'[k]] = "top" /\ ~inKernel'[cproc'[k]]
    BY <1>2, <1>3, <1>6, <2>1, <2>2 DEF SchedulingInv, Handshake, ThreadInv, Carrying
  <2>4. \A k \in CPUs : cpc'[k] \in {"fiber", "left"} => cpc[k] \in {"fiber", "left"}
    BY <1>1, <2>2
  <2>5. \A k, j \in CPUs : /\ cpc'[k] \in {"fiber", "left"} /\ cpc'[j] \in {"fiber", "left"}
                           /\ cproc'[k] = cproc'[j]
                           => k = j
    BY <1>2, <2>4 DEF SchedulingInv, Handshake
  <2>6. \A k \in CPUs : cpc'[k] \in {"fiber", "left"} => inKernel'[cproc'[k]]
    BY <1>2, <2>4 DEF SchedulingInv, Handshake
  <2> QED  BY <2>3, <2>5, <2>6 DEF Handshake
<1>19. FiberInv'
  <2>1. \A k \in CPUs : cpc'[k] = "fiber" => k # c /\ cpc[k] = "fiber"
    BY <1>3, <1>5
  <2>2. \A k \in CPUs : cpc'[k] = "fiber" => cproc[k] # p /\ cproc[k] \in Procs
    BY <1>12, <2>1 DEF SchedulingInv, ThreadInv, Carrying
  <2> QED  BY <1>2, <1>4, <1>6, <2>1, <2>2 DEF SchedulingInv, FiberInv
<1> QED  BY <1>14, <1>15, <1>16, <1>17, <1>18, <1>19 DEF SchedulingInv

\* Processes that wake up: EventManager::Wakeup, after Process::Exit has made a
\* process a zombie (s is the state then), in a trap that ends there or goes on.
LEMMA WakeupInv ==
    ASSUME SchedulingInv, NEW e \in Events, NEW s \in [Procs -> ProcessState],
           \A p \in Procs : \/ s[p] = state[p]
                            \/ s[p] = "zombie" /\ state[p] # "created",
           Wakeup(e, s),
           fpc' \in [Procs -> FiberPc],
           \A p \in Procs : \/ fpc'[p] = fpc[p]
                            \/ fpc[p] = "handle" /\ fpc'[p] = "done",
           context' \in [Procs -> Registers],
           \A p \in Procs : context'[p] = context[p] \/ context'[p] = Freed,
           UNCHANGED <<cproc, current, kernelQ, regs, fiberOf, processor,
                       kernelProcessor, mainFiber, handler, inKernel, saveContext,
                       regAX, useRegAX, frame, ghostVars>>
    PROVE  SchedulingInv'
<1> DEFINE W == Woken(e, s)
<1>1. /\ cpc' \in [CPUs -> CpuPc]
      /\ \A k \in CPUs :
             cpc'[k] = cpc[k] \/ (cpc[k] = "blocked" /\ cpc'[k] = "sched")
      /\ queue' \in Seq(Procs)
      /\ sleeping' = [sleeping EXCEPT ![e] = {}]
      /\ state' = [p \in Procs |-> IF p \in W THEN "runnableInKernel" ELSE s[p]]
      /\ state' \in [Procs -> ProcessState]
      /\ Elements(queue') = Elements(queue) \cup W
      /\ /\ Distinct(queue)
         /\ \A p \in Procs : InQueue(p) => ~Asleep(e, p)
         => Distinct(queue')
  <2>1. TypeOK  BY DEF SchedulingInv
  <2> QED  BY <2>1, QueueWoken
<1>2. \A p \in W : Asleep(e, p) /\ s[p] # "zombie" /\ s[p] = state[p]
                   /\ p \in Procs /\ SuspendedOn(p, kernelProcessor[p])
  <2> SUFFICES ASSUME NEW p \in W
               PROVE  Asleep(e, p) /\ s[p] # "zombie" /\ s[p] = state[p]
                      /\ p \in Procs /\ SuspendedOn(p, kernelProcessor[p])
    OBVIOUS
  <2>1. Asleep(e, p) /\ s[p] # "zombie" /\ p \in Procs
    BY DEF W, Woken, SchedulingInv, TypeOK
  <2>2. FiberAt(p)
    BY <2>1 DEF SchedulingInv, FiberPlace
  <2> QED  BY <2>1, <2>2 DEF FiberAt
<1>3. \A p \in Procs : Asleep(e, p) /\ s[p] # "zombie" => p \in W
  BY DEF W, Woken
<1> HIDE DEF W
<1>4. \A p \in Procs : /\ InQueue(p)' <=> InQueue(p) \/ p \in W
                       /\ \A k \in CPUs : InKernelQ(k, p)' <=> InKernelQ(k, p)
                       /\ \A f \in Events : Asleep(f, p)' <=> Asleep(f, p) /\ f # e
                       /\ \A k \in CPUs : Holds(k, p)' <=> Holds(k, p)
  <2> SUFFICES ASSUME NEW p \in Procs
               PROVE  /\ InQueue(p)' <=> InQueue(p) \/ p \in W
                      /\ \A k \in CPUs : InKernelQ(k, p)' <=> InKernelQ(k, p)
                      /\ \A f \in Events : Asleep(f, p)' <=> Asleep(f, p) /\ f # e
                      /\ \A k \in CPUs : Holds(k, p)' <=> Holds(k, p)
    OBVIOUS
  <2>1. InQueue(p)' <=> InQueue(p) \/ p \in W
    BY <1>1
  <2>2. \A f \in Events : Asleep(f, p)' <=> Asleep(f, p) /\ f # e
    BY <1>1 DEF SchedulingInv, TypeOK
  <2>3. \A k \in CPUs : Holds(k, p)' <=> Holds(k, p)
    BY <1>1 DEF Holds
  <2> QED  BY <2>1, <2>2, <2>3
<1>5. \A p \in Procs : SuspendedOn(p, kernelProcessor[p]) => SuspendedOn(p, kernelProcessor[p])'
  BY DEF SuspendedOn
<1>6. \A k \in CPUs : cpc'[k] \in Carrying \/ cpc[k] \in Carrying => cpc'[k] = cpc[k]
  BY <1>1 DEF Carrying
<1>7. \A p \in Procs : state'[p] = IF p \in W THEN "runnableInKernel" ELSE s[p]
  BY <1>1
<1>8. PlacesDisjoint'
  <2>1. ASSUME NEW p \in Procs PROVE OnePlace(p)'
    <3>1. OnePlace(p)
      BY DEF SchedulingInv, PlacesDisjoint
    <3>2. p \in W => Asleep(e, p)
      BY <1>2
    <3> HIDE DEF InQueue, InKernelQ, Asleep
    <3> QED  BY <1>4, <3>1, <3>2 DEF OnePlace
  <2>2. Distinct(queue')
    BY <1>1 DEF SchedulingInv, PlacesDisjoint, OnePlace
  <2>3. \A k \in CPUs : Distinct(kernelQ'[k])
    BY DEF SchedulingInv, PlacesDisjoint
  <2> QED  BY <2>1, <2>2, <2>3 DEF PlacesDisjoint
<1>9. CreatedNowhere'
  <2> SUFFICES ASSUME NEW p \in Procs, state'[p] = "created" PROVE Unused(p)'
    BY DEF CreatedNowhere
  <2>1. p \notin W /\ state[p] = "created"
    BY <1>7
  <2>2. Unused(p)
    BY <2>1 DEF SchedulingInv, CreatedNowhere
  <2> QED  BY <1>1, <1>4, <1>6, <2>1, <2>2 DEF Unused
<1>10. FiberPlace'
  <2> SUFFICES ASSUME NEW p \in Procs PROVE FiberAt(p)'
    BY DEF FiberPlace
  <2>1. FiberAt(p)
    BY DEF SchedulingInv, FiberPlace
  <2>2. fpc[p] \in {"none", "top", "asleep"} \cup UserFiber \cup {"release"} => fpc'[p] = fpc[p]
    BY DEF UserFiber
  <2>3. \A k : SuspendedOn(p, k) => SuspendedOn(p, k)'
    BY DEF SuspendedOn
  <2>4. (\A k \in CPUs : ~(cpc[k] = "fiber" /\ cproc[k] = p)) \/ (\E k \in CPUs : (cpc[k] = "fiber" /\ cproc[k] = p)')
    BY <1>6 DEF Carrying
  <2>5. (\A k \in CPUs : ~(cpc[k] = "fiber" /\ cproc[k] = p))' => fpc'[p] \in {"none", "top", "asleep"}
    BY <2>1, <2>2, <2>4 DEF FiberAt
  <2>6. fpc'[p] \in {"handle", "release", "asleep", "awake", "done", "unguard"} =>
            (frame[p].prev)' # "created"
    BY <2>1 DEF FiberAt
  <2>7. ASSUME InQueue(p)'
        PROVE  /\ state'[p] \in {"runnableInUser", "runnableInKernel", "zombie"}
               /\ state'[p] = "runnableInUser" => fpc'[p] \in UserFiber
               /\ state'[p] = "runnableInKernel" => SuspendedOn(p, kernelProcessor[p])'
    <3>1. CASE p \in W
      BY <1>2, <1>5, <1>7, <3>1
    <3>2. CASE p \notin W
      <4>1. InQueue(p)
        BY <1>4, <2>7, <3>2
      <4>2. state'[p] = state[p] \/ state'[p] = "zombie"
        BY <1>7, <3>2
      <4> QED  BY <1>5, <2>1, <2>2, <4>1, <4>2 DEF FiberAt
    <3> QED  BY <3>1, <3>2
  <2>8. \A f \in Events : Asleep(f, p)' => SuspendedOn(p, kernelProcessor[p])'
    BY <1>4, <1>5, <2>1 DEF FiberAt
  <2>9. ASSUME NEW k \in CPUs
        PROVE  /\ InKernelQ(k, p)' => SuspendedOn(p, k)'
               /\ cproc'[k] = p =>
                      /\ cpc'[k] \in {"kresume", "kenter"} => SuspendedOn(p, k)'
                      /\ cpc'[k] \in {"prepare", "uwait"} => fpc'[p] \in UserFiber
                      /\ cpc'[k] = "uwait" => fpc'[p] # "none"
    <3>1. cpc'[k] \in {"kresume", "kenter", "prepare", "uwait"} => cpc[k] = cpc'[k]
      BY <1>6 DEF Carrying
    <3> QED  BY <2>1, <2>2, <2>3, <3>1 DEF FiberAt
  <2> QED  BY <2>5, <2>6, <2>7, <2>8, <2>9 DEF FiberAt
<1>11. Located'
  <2> SUFFICES ASSUME NEW p \in Procs, ~Dead(p)' PROVE Somewhere(p)'
    BY DEF Located
  <2>1. CASE p \in W
    BY <1>4, <2>1 DEF Somewhere
  <2>2. CASE p \notin W
    <3>1. s[p] # "zombie" /\ s[p] # "created" /\ state[p] = s[p] /\ HasMemory(p)
      BY <1>7, <2>2 DEF Dead, HasMemory, Freed, ZeroRegisters
    <3>2. Somewhere(p) /\ ~Asleep(e, p)
      BY <1>3, <2>2, <3>1 DEF SchedulingInv, Located, Dead, HasMemory
    <3> HIDE DEF InQueue, InKernelQ, Asleep
    <3> QED  BY <1>4, <3>2 DEF Somewhere
  <2> QED  BY <2>1, <2>2
<1>12. TypeOK'
  <2>1. sleeping' \in [Events -> SUBSET Procs]
    BY <1>1 DEF SchedulingInv, TypeOK
  <2> QED  BY <1>1, <2>1 DEF SchedulingInv, TypeOK
<1>13. ThreadInv'
  BY <1>1, <1>6 DEF SchedulingInv, ThreadInv, Carrying
<1>14. Handshake'
  <2>1. \A p \in Procs : fpc[p] = "top" => fpc'[p] = "top"
    OBVIOUS
  <2>2. \A k \in CPUs : cpc[k] \in Carrying => cproc[k] \in Procs
    BY DEF SchedulingInv, ThreadInv
  <2> QED  BY <1>6, <2>1, <2>2 DEF SchedulingInv, Handshake, Carrying
<1>15. FiberInv'
  <2>1. \A c \in CPUs : cpc'[c] = "fiber" => cpc[c] = "fiber" /\ cproc[c] \in Procs
    BY <1>6 DEF SchedulingInv, ThreadInv, Carrying
  <2>2. \A p \in Procs : state[p] = "zombie" => state'[p] = "zombie"
    BY <1>2, <1>7
  <2> QED  BY <2>1, <2>2 DEF SchedulingInv, FiberInv
<1> QED  BY <1>8, <1>9, <1>10, <1>11, <1>12, <1>13, <1>14, <1>15 DEF SchedulingInv

\* A trap handler that wakes processes up.
LEMMA TrapWakeupInv ==
    ASSUME SchedulingInv, NEW c \in CPUs, NEW e \in Events, TrapWakeup(c, e)
    PROVE  SchedulingInv'
<1>1. /\ state \in [Procs -> ProcessState] /\ fpc' \in [Procs -> FiberPc] /\ fpc' = fpc
      /\ context' \in [Procs -> Registers] /\ context' = context
  BY DEF SchedulingInv, TypeOK, TrapWakeup
<1> QED  BY <1>1, WakeupInv DEF TrapWakeup

\* Another thread that wakes processes up.
LEMMA DeviceWakeupInv ==
    ASSUME SchedulingInv, NEW e \in Events, DeviceWakeup(e)
    PROVE  SchedulingInv'
<1>1. /\ state \in [Procs -> ProcessState] /\ fpc' \in [Procs -> FiberPc] /\ fpc' = fpc
      /\ context' \in [Procs -> Registers] /\ context' = context
  BY DEF SchedulingInv, TypeOK, DeviceWakeup
<1> QED  BY <1>1, WakeupInv DEF DeviceWakeup

\* Process::Exit of the process p by the handler of a trap of the process q.
LEMMA ExitInv ==
    ASSUME SchedulingInv, NEW p \in Procs, NEW q \in Procs, NEW e \in Events,
           Exit(p, e), state[p] # "created", fpc[q] = "handle",
           fpc' = [fpc EXCEPT ![q] = "done"]
    PROVE  SchedulingInv'
<1> DEFINE s == [state EXCEPT ![p] = "zombie"]
<1>1. /\ state \in [Procs -> ProcessState] /\ fpc \in [Procs -> FiberPc]
      /\ "zombie" \in ProcessState /\ "done" \in FiberPc
  BY DEF SchedulingInv, TypeOK, ProcessState, FiberPc
<1>2. /\ s \in [Procs -> ProcessState]
      /\ \A x \in Procs : s[x] = state[x] \/ (s[x] = "zombie" /\ state[x] # "created")
  BY <1>1
<1>3. /\ fpc' \in [Procs -> FiberPc]
      /\ \A x \in Procs : fpc'[x] = fpc[x] \/ (fpc[x] = "handle" /\ fpc'[x] = "done")
  BY <1>1
<1>4. /\ Wakeup(e, s)
      /\ UNCHANGED <<cproc, current, kernelQ, regs, fiberOf, processor,
                     kernelProcessor, mainFiber, handler, inKernel, saveContext,
                     regAX, useRegAX, frame, ghostVars>>
  BY DEF Exit
<1>5. /\ context' \in [Procs -> Registers]
      /\ \A x \in Procs : context'[x] = context[x] \/ context'[x] = Freed
  <2>1. Freed \in Registers
    BY DEF Freed, ZeroRegisters, Registers, Bit
  <2> QED  BY <2>1 DEF SchedulingInv, TypeOK, Exit
<1> HIDE DEF s
<1> QED  BY <1>2, <1>3, <1>4, <1>5, WakeupInv

\* Exit.
LEMMA TrapExitInv ==
    ASSUME SchedulingInv, NEW c \in CPUs, NEW e \in Events, TrapExit(c, e)
    PROVE  SchedulingInv'
<1>1. fiberOf[c] \in Procs /\ fpc[fiberOf[c]] = "handle" /\ state[fiberOf[c]] # "created"
  BY DEF SchedulingInv, ThreadInv, Carrying, CreatedNowhere, Unused, TrapExit, InTrap
<1> QED  BY <1>1, ExitInv DEF TrapExit

\* Kill.
LEMMA TrapKillInv ==
    ASSUME SchedulingInv, NEW c \in CPUs, NEW q \in Procs, NEW e \in Events,
           TrapKill(c, q, e)
    PROVE  SchedulingInv'
<1>1. fiberOf[c] \in Procs /\ fpc[fiberOf[c]] = "handle" /\ state[q] # "created"
  BY DEF SchedulingInv, ThreadInv, Carrying, TrapKill, InTrap
<1> QED  BY <1>1, ExitInv DEF TrapKill

\* The Sleep of a trap handler: the process leaves its processor for the list of
\* the event, and its fiber is about to be suspended.
LEMMA TrapSleepInv ==
    ASSUME SchedulingInv, NEW c \in CPUs, NEW e \in Events, TrapSleep(c, e),
           NEW p, p = cproc[c]
    PROVE  SchedulingInv'
<1>1. /\ cpc[c] = "fiber" /\ fiberOf[c] = p /\ p \in Procs
      /\ fpc[p] \in {"handle", "awake"}
      /\ frame[p].processor = c /\ frame[p].main = c /\ mainFiber[p] = c
      /\ current[c] = p /\ processor[p] = c
      /\ frame[p].prev # "created" /\ inKernel[p] /\ p # NoProc /\ c # NoCpu
  <2>1. /\ cpc[c] = "fiber" /\ fiberOf[c] = p /\ p \in Procs
        /\ fpc[p] \in {"handle", "awake"}
        /\ frame[p].processor = c /\ frame[p].main = c /\ mainFiber[p] = c
        /\ current[c] = p /\ processor[p] = c
    BY DEF SchedulingInv, ThreadInv, Carrying, FiberInv, TrapSleep, InTrap
  <2>2. frame[p].prev # "created"
    BY <2>1 DEF SchedulingInv, FiberPlace, FiberAt
  <2> QED  BY <2>1, <2>2 DEF SchedulingInv, Handshake
<1>2. TypeOK /\ saveContext[p] \in BOOLEAN
  BY <1>1 DEF SchedulingInv, TypeOK
<1>3. /\ context' \in [Procs -> Registers]
      /\ saveContext' \in [Procs -> BOOLEAN]
      /\ kernelProcessor' = [kernelProcessor EXCEPT ![p] = c]
      /\ processor' = [processor EXCEPT ![p] = NoCpu]
      /\ current' = [current EXCEPT ![c] = NoProc]
  <2>1. ResetCurrentProcess(c, saveContext[p], TRUE)
    BY <1>1 DEF TrapSleep
  <2> QED  BY <1>1, <1>2, <2>1, ResetOne
<1>4. /\ cpc' = IF WorkAvailable THEN Notified ELSE cpc
      /\ sleeping' = [sleeping EXCEPT ![e] = @ \cup {p}]
      /\ state' = [state EXCEPT ![p] = "asleep"]
      /\ fpc' = [fpc EXCEPT ![p] = "release"]
      /\ UNCHANGED <<cproc, kernelQ, regs, fiberOf, mainFiber, handler,
                     inKernel, regAX, useRegAX, frame, queue, ghostVars>>
  BY <1>1 DEF TrapSleep
<1>5. /\ cpc' \in [CPUs -> CpuPc] /\ cpc'[c] = "fiber"
      /\ \A k \in CPUs :
             cpc'[k] = cpc[k] \/ (cpc[k] = "blocked" /\ cpc'[k] = "sched")
  BY <1>1, <1>2, <1>4 DEF TypeOK, Notified, CpuPc
<1>6. \A k \in CPUs : cpc'[k] \in Carrying => cpc'[k] = cpc[k]
  BY <1>5 DEF Carrying
<1>7. /\ \A x \in Procs \ {p} :
             /\ fpc'[x] = fpc[x] /\ state'[x] = state[x]
             /\ kernelProcessor'[x] = kernelProcessor[x] /\ processor'[x] = processor[x]
      /\ fpc'[p] = "release" /\ state'[p] = "asleep" /\ kernelProcessor'[p] = c
      /\ \A k \in CPUs \ {c} : current'[k] = current[k]
      /\ current'[c] = NoProc
  BY <1>1, <1>2, <1>3, <1>4 DEF TypeOK
<1>8. /\ \A k \in CPUs : ~InKernelQ(k, p)
      /\ \A k \in CPUs \ {c} : ~Holds(k, p)
      /\ \A f \in Events : ~Asleep(f, p)
      /\ ~InQueue(p)
  <2>1. Holds(c, p)
    BY <1>1 DEF Holds
  <2> QED  BY <1>1, <2>1 DEF SchedulingInv, PlacesDisjoint, OnePlace
<1>9. \A x \in Procs, k \in CPUs : Holds(k, x)' => Holds(k, x) /\ k # c
  BY <1>1, <1>4, <1>5, <1>7 DEF Holds
<1>10. \A x \in Procs, f \in Events :
           Asleep(f, x)' <=> Asleep(f, x) \/ (f = e /\ x = p)
  BY <1>2, <1>4 DEF TypeOK
<1>11. \A x \in Procs \ {p} : Untouched(x)
  BY <1>4, <1>5, <1>6, <1>7, <1>9, <1>10 DEF Untouched, Carrying
<1>12. OnePlace(p)'
  <2>1. ~InQueue(p)' /\ \A k \in CPUs : ~InKernelQ(k, p)' /\ ~Holds(k, p)'
    BY <1>1, <1>4, <1>8, <1>9
  <2>2. \A f \in Events : Asleep(f, p)' => f = e
    BY <1>1, <1>8, <1>10
  <2> QED  BY <2>1, <2>2 DEF OnePlace
<1>13. SuspendedOn(p, kernelProcessor[p])'
  BY <1>1, <1>4, <1>7 DEF SuspendedOn
<1>14. FiberAt(p)'
  <2>1. ASSUME NEW k \in CPUs, cproc'[k] = p
        PROVE  cpc'[k] \notin {"kresume", "kenter", "prepare", "uwait"}
    <3>1. cpc'[k] \in {"kresume", "kenter", "prepare", "uwait"} => cpc'[k] = cpc[k] /\ k # c
      BY <1>5
    <3>2. cpc[k] \in {"kenter", "uwait"} => current[k] = cproc[k]
      BY DEF SchedulingInv, ThreadInv
    <3>3. ~(k # c /\ Holds(k, p))
      BY <1>8
    <3> QED  BY <1>4, <2>1, <3>1, <3>2, <3>3 DEF Holds
  <2>2. ~InQueue(p)' /\ \A k \in CPUs : ~InKernelQ(k, p)'
    BY <1>4, <1>8
  <2>3. cpc'[c] = "fiber" /\ cproc'[c] = p /\ (frame[p].prev)' # "created"
    BY <1>1, <1>4, <1>5
  <2> QED  BY <1>13, <2>1, <2>2, <2>3 DEF FiberAt
<1>15. PlacesDisjoint' /\ CreatedNowhere' /\ FiberPlace'
  <2>1. Distinct(queue') /\ \A k \in CPUs : Distinct(kernelQ'[k])
    BY <1>4 DEF SchedulingInv, PlacesDisjoint
  <2>2. state'[p] # "created"
    BY <1>7
  <2> QED  BY <1>1, <1>11, <1>12, <1>14, <2>1, <2>2, OneMoves
<1>16. TypeOK'
  <2>1. /\ sleeping' \in [Events -> SUBSET Procs]
        /\ state' \in [Procs -> ProcessState] /\ fpc' \in [Procs -> FiberPc]
    BY <1>1, <1>2, <1>4 DEF TypeOK, ProcessState, FiberPc
  <2>2. /\ kernelProcessor' \in [Procs -> CPUs \cup {NoCpu}]
        /\ processor' \in [Procs -> CPUs \cup {NoCpu}]
        /\ current' \in [CPUs -> Procs \cup {NoProc}]
    BY <1>1, <1>2, <1>3 DEF TypeOK
  <2> QED  BY <1>2, <1>3, <1>4, <1>5, <2>1, <2>2 DEF TypeOK
<1>17. Located'
  <2> SUFFICES ASSUME NEW x \in Procs, ~Dead(x)' PROVE Somewhere(x)'
    BY DEF Located
  <2>1. CASE x = p
    BY <1>10, <2>1 DEF Somewhere
  <2>2. CASE x # p
    <3>0. context'[x] = context[x]
      BY <1>1, <1>2, <2>2 DEF TypeOK, TrapSleep, ResetCurrentProcess
    <3>1. Somewhere(x)
      BY <1>7, <2>2, <3>0 DEF SchedulingInv, Located, Dead, HasMemory
    <3>2. \A k \in CPUs : Holds(k, x) => Holds(k, x)'
      <4> SUFFICES ASSUME NEW k \in CPUs, Holds(k, x) PROVE Holds(k, x)'
        OBVIOUS
      <4>1. k # c
        BY <1>1, <2>2 DEF Holds
      <4> QED  BY <1>4, <1>5, <1>7, <4>1 DEF Holds
    <3>3. \A f \in Events : Asleep(f, x) => Asleep(f, x)'
      BY <1>10
    <3> QED  BY <1>4, <3>1, <3>2, <3>3 DEF Somewhere
  <2> QED  BY <2>1, <2>2
<1>18. ThreadInv'
  BY <1>1, <1>4, <1>5, <1>6, <1>7, <1>8
     DEF SchedulingInv, ThreadInv, Carrying, Holds
<1>19. Handshake'
  <2>1. \A k \in CPUs : cpc[k] \in {"urun", "user", "ienter"} => cproc[k] # p
    BY <1>1 DEF SchedulingInv, Handshake
  <2>2. \A k \in CPUs : cpc[k] \in Carrying => cproc[k] \in Procs
    BY DEF SchedulingInv, ThreadInv
  <2> QED  BY <1>4, <1>6, <1>7, <2>1, <2>2 DEF SchedulingInv, Handshake, Carrying
<1>20. FiberInv'
  <2>1. \A k \in CPUs : cpc'[k] = "fiber" /\ k # c =>
            cpc[k] = "fiber" /\ cproc[k] # p /\ cproc[k] \in Procs
    BY <1>1, <1>6 DEF SchedulingInv, Handshake, ThreadInv, Carrying
  <2> QED  BY <1>1, <1>4, <1>5, <1>7, <2>1 DEF SchedulingInv, FiberInv
<1> QED  BY <1>15, <1>16, <1>17, <1>18, <1>19, <1>20 DEF SchedulingInv

(* Loading the registers of another process, with its result, leaves a set
   of registers. *)
LEMMA SetOwnerAX ==
    ASSUME NEW r \in Registers, NEW q \in Procs, NEW v \in Bit
    PROVE  [r EXCEPT !.owner = q, !.ax = v] \in Registers
BY DEF Registers

\* Fork: the child is queued while its parent goes on.
LEMMA TrapForkInv ==
    ASSUME SchedulingInv, NEW c \in CPUs, NEW q \in Procs, TrapFork(c, q),
           NEW p, p = cproc[c]
    PROVE  SchedulingInv'
<1>1. /\ cpc[c] = "fiber" /\ fiberOf[c] = p /\ p \in Procs /\ fpc[p] = "handle"
      /\ current[c] = p /\ processor[p] = c /\ frame[p].prev # "created"
      /\ inKernel[p] /\ Holds(c, p)
  <2>1. /\ cpc[c] = "fiber" /\ fiberOf[c] = p /\ p \in Procs /\ fpc[p] = "handle"
        /\ current[c] = p /\ processor[p] = c
    BY DEF SchedulingInv, ThreadInv, Carrying, FiberInv, TrapFork, InTrap
  <2>2. frame[p].prev # "created"
    BY <2>1 DEF SchedulingInv, FiberPlace, FiberAt
  <2> QED  BY <2>1, <2>2 DEF SchedulingInv, Handshake, Holds
<1>2. state[q] = "created" /\ Unused(q) /\ q # p
  BY <1>1 DEF SchedulingInv, CreatedNowhere, Unused, TrapFork
<1>3. /\ processor' = [processor EXCEPT ![q] = c]
      /\ context' = [context EXCEPT ![q] = ChildRegisters(q, c)]
      /\ AddRunnableProcess(q, "runnableInUser", c, "fiber")
      /\ fpc' = [fpc EXCEPT ![p] = "done"]
      /\ image' = [image EXCEPT ![q] = image[p]]
      /\ ax' = [ax EXCEPT ![q] = 0]
      /\ UNCHANGED <<cproc, current, kernelQ, regs, fiberOf,
                     kernelProcessor, mainFiber, handler, inKernel, saveContext,
                     regAX, useRegAX, frame, sleeping>>
  BY <1>1 DEF TrapFork
<1>4. TypeOK /\ "runnableInUser" \in ProcessState /\ "fiber" \in CpuPc
  BY DEF SchedulingInv, ProcessState, CpuPc
<1>5. /\ OthersStay(c) /\ cpc'[c] = "fiber"
      /\ queue' \in Seq(Procs)
      /\ state' = [state EXCEPT ![q] = "runnableInUser"]
      /\ Elements(queue') = Elements(queue) \cup {q}
      /\ Distinct(queue) /\ ~InQueue(q) => Distinct(queue')
  BY <1>2, <1>3, <1>4, QueueOne
<1>6. /\ cpc' \in [CPUs -> CpuPc]
      /\ \A k \in CPUs :
             cpc'[k] = cpc[k] \/ (cpc[k] = "blocked" /\ cpc'[k] = "sched")
  BY <1>1, <1>5 DEF OthersStay
<1>7. \A k \in CPUs : cpc'[k] \in Carrying \/ cpc[k] \in Carrying => cpc'[k] = cpc[k]
  BY <1>6 DEF Carrying
<1>8. /\ \A x \in Procs \ {q} : state'[x] = state[x] /\ processor'[x] = processor[x]
      /\ \A x \in Procs \ {p} : fpc'[x] = fpc[x]
      /\ fpc'[p] = "done" /\ state'[q] = "runnableInUser"
  BY <1>1, <1>2, <1>3, <1>4, <1>5 DEF TypeOK
<1>9. \A x \in Procs, k \in CPUs : Holds(k, x)' <=> Holds(k, x)
  BY <1>3, <1>6 DEF Holds
<1>10. \A x \in Procs : InQueue(x)' <=> InQueue(x) \/ x = q
  BY <1>5
<1>11. \A k \in CPUs : ~Holds(k, q)
  BY <1>2 DEF SchedulingInv, ThreadInv, Unused, Holds, Carrying
<1>12. ASSUME NEW x \in Procs, x # p, x # q PROVE Untouched(x)
  BY <1>3, <1>6, <1>7, <1>8, <1>9, <1>10, <1>12 DEF Untouched, Carrying
<1>13. OnePlace(q)' /\ FiberAt(q)'
  <2>1. /\ InQueue(q)' /\ \A k \in CPUs : ~InKernelQ(k, q)' /\ ~Holds(k, q)'
        /\ \A e \in Events : ~Asleep(e, q)'
    BY <1>2, <1>3, <1>9, <1>10, <1>11 DEF Unused
  <2>2. \A k \in CPUs : cpc'[k] \in Carrying => cproc'[k] # q
    BY <1>2, <1>3, <1>7 DEF Unused
  <2>3. fpc'[q] = "none" /\ (fpc[q] \in UserFiber)'
    BY <1>2, <1>8 DEF Unused, UserFiber
  <2>4. FiberAt(q)'
    BY <1>8, <2>1, <2>2, <2>3 DEF FiberAt, Carrying
  <2> QED  BY <2>1, <2>4 DEF OnePlace
<1>14. OnePlace(p)' /\ FiberAt(p)'
  <2>1. OnePlace(p) /\ FiberAt(p)
    BY <1>1 DEF SchedulingInv, PlacesDisjoint, FiberPlace
  <2>2. /\ ~InQueue(p) /\ \A k \in CPUs : ~InKernelQ(k, p)
        /\ \A e \in Events : ~Asleep(e, p)
    BY <1>1, <2>1 DEF OnePlace
  <2>3. /\ ~InQueue(p)' /\ \A k \in CPUs : ~InKernelQ(k, p)'
        /\ \A e \in Events : ~Asleep(e, p)'
    BY <1>1, <1>2, <1>3, <1>10, <2>2
  <2>4. OnePlace(p)'
    BY <1>1, <1>9, <2>1, <2>3 DEF OnePlace
  <2>5. ASSUME NEW k \in CPUs, cproc'[k] = p
        PROVE  cpc'[k] \notin {"kresume", "kenter", "prepare", "uwait"}
    <3>1. cpc'[k] \in {"kresume", "kenter", "prepare", "uwait"} => cpc[k] = cpc'[k] /\ k # c
      BY <1>5, <1>7 DEF Carrying
    <3>2. cpc[k] \in {"kenter", "uwait"} => current[k] = cproc[k]
      BY DEF SchedulingInv, ThreadInv
    <3>3. ~(k # c /\ Holds(k, p))
      BY <1>1, <2>1 DEF OnePlace
    <3> QED  BY <1>3, <2>5, <3>1, <3>2, <3>3 DEF Holds
  <2>6. cpc'[c] = "fiber" /\ cproc'[c] = p /\ (frame[p].prev)' # "created"
    BY <1>1, <1>3, <1>5
  <2>7. FiberAt(p)'
    BY <2>3, <2>5, <2>6 DEF FiberAt
  <2> QED  BY <2>4, <2>7
<1>15. PlacesDisjoint' /\ CreatedNowhere' /\ FiberPlace'
  <2>1. ASSUME NEW x \in Procs
        PROVE  OnePlace(x)' /\ (state'[x] = "created" => Unused(x)') /\ FiberAt(x)'
    <3>1. CASE x = p
      <4>1. state'[p] # "created"
        BY <1>1, <1>2, <1>8 DEF SchedulingInv, CreatedNowhere, Unused
      <4> QED  BY <1>14, <3>1, <4>1
    <3>2. CASE x = q
      BY <1>8, <1>13, <3>2
    <3>3. CASE x # p /\ x # q
      <4>1. OnePlace(x) /\ (state[x] = "created" => Unused(x)) /\ FiberAt(x)
        BY DEF SchedulingInv, PlacesDisjoint, CreatedNowhere, FiberPlace
      <4>2. Untouched(x)
        BY <1>12, <3>3
      <4> QED  BY <4>1, <4>2, UntouchedOnePlace, UntouchedUnused, UntouchedFiberAt
    <3> QED  BY <3>1, <3>2, <3>3
  <2>2. Distinct(queue') /\ \A k \in CPUs : Distinct(kernelQ'[k])
    BY <1>2, <1>3, <1>5 DEF SchedulingInv, PlacesDisjoint, Unused
  <2> QED  BY <2>1, <2>2 DEF PlacesDisjoint, CreatedNowhere, FiberPlace
<1>16. TypeOK'
  <2>1. ChildRegisters(q, c) \in Registers
    <3>1. regs[c] \in Registers /\ 0 \in Bit
      BY <1>4 DEF TypeOK, Bit
    <3> QED  BY <3>1, SetOwnerAX, Zenon DEF ChildRegisters
  <2>2. context' \in [Procs -> Registers]
    BY <1>3, <1>4, <2>1 DEF TypeOK
  <2>3. image' \in [Procs -> Bit] /\ ax' \in [Procs -> Bit]
    BY <1>1, <1>3, <1>4 DEF TypeOK, Bit
  <2>4. /\ state' \in [Procs -> ProcessState] /\ fpc' \in [Procs -> FiberPc]
        /\ processor' \in [Procs -> CPUs \cup {NoCpu}]
    BY <1>3, <1>4, <1>5 DEF TypeOK, FiberPc
  <2> QED  BY <1>3, <1>4, <1>5, <1>6, <2>2, <2>3, <2>4 DEF TypeOK
<1>17. Located'
  <2> SUFFICES ASSUME NEW x \in Procs, ~Dead(x)' PROVE Somewhere(x)'
    BY DEF Located
  <2>1. CASE x = q
    BY <1>10, <2>1 DEF Somewhere
  <2>2. CASE x # q
    <3>0. context'[x] = context[x]
      BY <1>3, <1>4, <2>2 DEF TypeOK
    <3>1. Somewhere(x)
      BY <1>8, <2>2, <3>0 DEF SchedulingInv, Located, Dead, HasMemory
    <3> QED  BY <1>3, <1>9, <1>10, <3>1 DEF Somewhere
  <2> QED  BY <2>1, <2>2
<1>18. \A k \in CPUs : cpc[k] \in Carrying => cproc[k] \in Procs \ {q}
  BY <1>2 DEF SchedulingInv, ThreadInv, Unused
<1>19. ThreadInv'
  BY <1>3, <1>6, <1>7, <1>8, <1>18 DEF SchedulingInv, ThreadInv, Carrying
<1>20. Handshake'
  <2>1. \A k \in CPUs : cpc[k] \in {"urun", "user", "ienter"} => cproc[k] # p
    BY <1>1 DEF SchedulingInv, Handshake
  <2> QED  BY <1>3, <1>7, <1>8, <1>18, <2>1 DEF SchedulingInv, Handshake, Carrying
<1>21. FiberInv'
  <2>1. \A k \in CPUs : cpc'[k] = "fiber" /\ k # c =>
            cpc[k] = "fiber" /\ cproc[k] # p /\ cproc[k] \in Procs \ {q}
    BY <1>1, <1>7, <1>18 DEF SchedulingInv, Handshake, Carrying
  <2> QED  BY <1>1, <1>2, <1>3, <1>5, <1>8, <2>1 DEF SchedulingInv, FiberInv
<1> QED  BY <1>15, <1>16, <1>17, <1>19, <1>20, <1>21 DEF SchedulingInv

\* Processor::GetRunnableKernelProcess.
LEMMA PollsInv ==
    ASSUME SchedulingInv, NEW c \in CPUs, Poll(c)
    PROVE  SchedulingInv'
BY PollInv, PollOnInv

-----------------------------------------------------------------------------
(* The invariant.                                                          *)

\* The loaded machine satisfies the invariant.
LEMMA InitInv == Init => SchedulingInv
<1> SUFFICES ASSUME Init PROVE SchedulingInv
  OBVIOUS
<1>1. queue \in Seq(Procs) /\ Elements(queue) = InitProcs /\ Distinct(queue)
  <2>1. IsFiniteSet(InitProcs)
    BY FiniteProcs, FS_Subset
  <2>2. queue \in Seq(InitProcs) /\ Elements(queue) = InitProcs /\ Distinct(queue)
    BY <2>1, OrderElements DEF Init
  <2> QED  BY <2>2, SeqMonotonic
<1>2. \A c \in CPUs : kernelQ[c] = <<>> /\ cpc[c] = "poll" /\ fiberOf[c] = NoProc
  BY DEF Init
<1>3. \A c \in CPUs, p \in Procs : ~InKernelQ(c, p) /\ ~Holds(c, p)
  BY <1>2 DEF Elements, Holds
<1>4. \A p \in Procs : /\ state[p] = IF p \in InitProcs THEN "runnableInUser" ELSE "created"
                       /\ fpc[p] = "none" /\ inKernel[p] = FALSE
  BY DEF Init, Loaded
<1>5. \A e \in Events, p \in Procs : ~Asleep(e, p)
  BY DEF Init
<1>6. TypeOK
  <2>1. regs \in [CPUs -> Registers] /\ context \in [Procs -> Registers]
    BY DEF Init, ZeroRegisters, Registers, Bit
  <2>2. frame \in [Procs -> Frame]
    BY DEF Init, EmptyFrame, Frame, Handlers, ProcessState
  <2>3. kernelQ \in [CPUs -> Seq(Procs)]
    BY DEF Init
  <2> QED  BY <1>1, <2>1, <2>2, <2>3
           DEF Init, TypeOK, CpuPc, FiberPc, ProcessState, Handlers, Bit
<1>7. PlacesDisjoint
  <2>1. \A c \in CPUs : Distinct(kernelQ[c])
    BY <1>2 DEF Distinct
  <2> QED  BY <1>1, <1>3, <1>5, <2>1 DEF PlacesDisjoint, OnePlace
<1>8. Located /\ CreatedNowhere
  BY <1>1, <1>2, <1>3, <1>4, <1>5
     DEF Located, CreatedNowhere, Unused, Somewhere, Dead, HasMemory, Carrying
<1>9. ThreadInv /\ Handshake /\ FiberInv
  BY <1>2 DEF ThreadInv, Handshake, FiberInv, Carrying
<1>10. FiberPlace
  BY <1>1, <1>2, <1>3, <1>4, <1>5 DEF FiberPlace, FiberAt, UserFiber
<1> QED  BY <1>6, <1>7, <1>8, <1>9, <1>10 DEF SchedulingInv

\* Every step maintains it.
LEMMA NextInv ==
    ASSUME SchedulingInv, [Next]_vars
    PROVE  SchedulingInv'
<1>1. ASSUME NEW c \in CPUs, CpuStep(c) PROVE SchedulingInv'
  BY <1>1, PollsInv, BlockInv, GetRunnableProcessInv, KernelResumeInv,
     KernelEnterInv, PrepareInv, UserWaitInv, UserRunInv, UserThrowsInv,
     TakeClockInv, InterruptEnterInv, LeaveFiberInv
     DEF CpuStep
<1>2. ASSUME NEW c \in CPUs, FiberStep(c) PROVE SchedulingInv'
  BY <1>2, FiberTopInv, EnterGuardInv, ClockHandleInv, ReleaseProcessorInv,
     ResumedInv, LeaveGuardInv, FinishInv, FiberLeaveInv, FiberThrowsInv
     DEF FiberStep
<1>3. ASSUME NEW c \in CPUs, TrapStep(c) PROVE SchedulingInv'
  BY <1>3, TakeTrapInv, TrapExecInv, TrapReturnInv, TrapSleepInv, TrapWakeupInv,
     TrapExitInv, TrapForkInv, TrapKillInv
     DEF TrapStep
<1>4. ASSUME NEW e \in Events, DeviceWakeup(e) PROVE SchedulingInv'
  BY <1>4, DeviceWakeupInv
<1>5. CASE UNCHANGED vars
  BY <1>5
     DEF vars, SchedulingInv, TypeOK, PlacesDisjoint, OnePlace, Located,
         Somewhere, Dead, HasMemory, CreatedNowhere, Unused, ThreadInv, Handshake,
         FiberPlace, FiberAt, SuspendedOn, FiberInv, Holds
<1> QED  BY <1>1, <1>2, <1>3, <1>4, <1>5 DEF Next

\* The invariant holds in every reachable state of the scheduling of any number
\* of processors and processes.
THEOREM Invariance == Spec => []SchedulingInv
<1>1. SchedulingInv /\ [Next]_vars => SchedulingInv'
  BY NextInv
<1> QED  BY InitInv, <1>1, PTL DEF Spec

\* The state has the type that the code gives it.
THEOREM TypeCorrect == Spec => []TypeOK
<1>1. SchedulingInv => TypeOK
  BY DEF SchedulingInv
<1> QED  BY Invariance, <1>1, PTL

-----------------------------------------------------------------------------
(* What follows from it.                                                   *)

\* The elements of Places(p).
LEMMA PlacesElements ==
    ASSUME NEW p, NEW z
    PROVE  z \in Places(p) <=>
               \/ \E i \in DOMAIN queue : z = <<"queue", i>> /\ queue[i] = p
               \/ \E c \in CPUs : \E i \in DOMAIN kernelQ[c] :
                      z = <<c, i>> /\ kernelQ[c][i] = p
               \/ \E e \in Events : z = <<"sleeping", e>> /\ Asleep(e, p)
               \/ \E c \in CPUs : z = <<"held", c>> /\ Holds(c, p)
<1>1. z \in QueuePlaces(p) <=> \E i \in DOMAIN queue : z = <<"queue", i>> /\ queue[i] = p
  BY Zenon DEF QueuePlaces
<1>2. \A c : z \in KernelQPlaces(c, p) <=>
                 \E i \in DOMAIN kernelQ[c] : z = <<c, i>> /\ kernelQ[c][i] = p
  BY Zenon DEF KernelQPlaces
<1>3. z \in ListPlaces(p) <=> \E e \in Events : z = <<"sleeping", e>> /\ Asleep(e, p)
  BY Zenon DEF ListPlaces
<1>4. z \in CpuPlaces(p) <=> \E c \in CPUs : z = <<"held", c>> /\ Holds(c, p)
  BY Zenon DEF CpuPlaces
<1> DEFINE U == UNION {KernelQPlaces(c, p) : c \in CPUs}
<1>5. z \in U <=> \E c \in CPUs : z \in KernelQPlaces(c, p)
  BY Zenon
<1>6. Places(p) = QueuePlaces(p) \cup U \cup ListPlaces(p) \cup CpuPlaces(p)
  BY Zenon DEF Places
<1> HIDE DEF U
<1> QED  BY <1>1, <1>2, <1>3, <1>4, <1>5, <1>6

\* No two of them.
LEMMA PlacesAgree ==
    ASSUME PlacesDisjoint, NEW p \in Procs, NEW x \in Places(p), NEW y \in Places(p)
    PROVE  x = y
<1> DEFINE OnQueue(z) == \E i \in DOMAIN queue : z = <<"queue", i>> /\ queue[i] = p
           OnKernelQ(z) == \E c \in CPUs : \E i \in DOMAIN kernelQ[c] :
                               z = <<c, i>> /\ kernelQ[c][i] = p
           OnList(z) == \E e \in Events : z = <<"sleeping", e>> /\ Asleep(e, p)
           OnCpu(z) == \E c \in CPUs : z = <<"held", c>> /\ Holds(c, p)
<1>1. \A z \in Places(p) : OnQueue(z) \/ OnKernelQ(z) \/ OnList(z) \/ OnCpu(z)
  BY PlacesElements
<1>2. \A z : /\ OnQueue(z) => InQueue(p)
             /\ OnKernelQ(z) => \E c \in CPUs : InKernelQ(c, p)
             /\ OnList(z) => \E e \in Events : Asleep(e, p)
             /\ OnCpu(z) => \E c \in CPUs : Holds(c, p)
  BY DEF Elements
<1>3. OnePlace(p)
  BY DEF PlacesDisjoint
<1>4. CASE OnQueue(x) /\ OnQueue(y)
  BY <1>4 DEF PlacesDisjoint, Distinct
<1>5. CASE OnKernelQ(x) /\ OnKernelQ(y)
  <2>1. PICK c \in CPUs : \E i \in DOMAIN kernelQ[c] : x = <<c, i>> /\ kernelQ[c][i] = p
    BY <1>5
  <2>2. PICK k \in CPUs : \E i \in DOMAIN kernelQ[k] : y = <<k, i>> /\ kernelQ[k][i] = p
    BY <1>5
  <2>3. InKernelQ(c, p) /\ InKernelQ(k, p)
    BY <2>1, <2>2 DEF Elements
  <2>4. c = k
    BY <1>3, <2>3 DEF OnePlace
  <2> QED  BY <2>1, <2>2, <2>4 DEF PlacesDisjoint, Distinct
<1>6. CASE OnList(x) /\ OnList(y)
  BY <1>3, <1>6 DEF OnePlace
<1>7. CASE OnCpu(x) /\ OnCpu(y)
  BY <1>3, <1>7 DEF OnePlace
<1> HIDE DEF OnQueue, OnKernelQ, OnList, OnCpu, InQueue, InKernelQ, Asleep
<1>8. CASE OnQueue(x) \/ OnQueue(y)
  BY <1>1, <1>2, <1>3, <1>4, <1>8 DEF OnePlace
<1>9. CASE OnKernelQ(x) \/ OnKernelQ(y)
  BY <1>1, <1>2, <1>3, <1>5, <1>8, <1>9 DEF OnePlace
<1> QED  BY <1>1, <1>2, <1>3, <1>6, <1>7, <1>8, <1>9 DEF OnePlace

\* No process is lost or scheduled twice, however many processors hand it over
\* to one another through the run queue, the kernel queues and the event lists.
THEOREM NeverLostNorTwice == Spec => []ExactlyOnePlace
<1>1. SchedulingInv => ExactlyOnePlace
  <2> SUFFICES ASSUME SchedulingInv, NEW p \in Procs
               PROVE  Cardinality(Places(p)) <= 1 /\ (~Dead(p) => Places(p) # {})
    BY DEF ExactlyOnePlace
  <2>1. Cardinality(Places(p)) <= 1
    <3>1. CASE Places(p) = {}
      <4>1. Cardinality(Places(p)) = 0  BY <3>1, FS_EmptySet
      <4> QED  BY <4>1
    <3>2. ASSUME NEW x \in Places(p) PROVE Cardinality(Places(p)) <= 1
      <4>1. Places(p) = {x}
        BY <3>2, PlacesAgree DEF SchedulingInv
      <4>2. Cardinality(Places(p)) = 1  BY <4>1, FS_Singleton
      <4> QED  BY <4>2
    <3> QED  BY <3>1, <3>2
  <2>2. ASSUME ~Dead(p) PROVE Places(p) # {}
    <3>1. Somewhere(p)
      BY <2>2 DEF SchedulingInv, Located
    <3>2. ASSUME NEW i \in DOMAIN queue, queue[i] = p PROVE Places(p) # {}
      <4>1. <<"queue", i>> \in Places(p)  BY <3>2, PlacesElements
      <4> QED  BY <4>1
    <3>3. ASSUME NEW c \in CPUs, NEW i \in DOMAIN kernelQ[c], kernelQ[c][i] = p
          PROVE  Places(p) # {}
      <4>1. <<c, i>> \in Places(p)  BY <3>3, PlacesElements
      <4> QED  BY <4>1
    <3>4. ASSUME NEW c \in CPUs, Holds(c, p) PROVE Places(p) # {}
      <4>1. <<"held", c>> \in Places(p)  BY <3>4, PlacesElements
      <4> QED  BY <4>1
    <3>5. ASSUME NEW e \in Events, Asleep(e, p) PROVE Places(p) # {}
      <4>1. <<"sleeping", e>> \in Places(p)  BY <3>5, PlacesElements
      <4> QED  BY <4>1
    <3> QED  BY <3>1, <3>2, <3>3, <3>4, <3>5 DEF Somewhere, Elements
  <2> QED  BY <2>1, <2>2
<1> QED  BY Invariance, <1>1, PTL

\* The handshake of WaitNotInKernel and SetNotInKernel keeps two processors out
\* of one kernel fiber.
THEOREM OneProcessorPerFiber == Spec => []KernelFiberExclusive
<1>1. SchedulingInv => KernelFiberExclusive
  <2> SUFFICES ASSUME SchedulingInv, NEW c \in CPUs, NEW k \in CPUs, c # k,
                      fiberOf[c] # NoProc
               PROVE  /\ fiberOf[k] # fiberOf[c]
                      /\ cpc[k] \in {"urun", "user", "ienter"} => cproc[k] # fiberOf[c]
    BY DEF KernelFiberExclusive
  <2>1. cpc[c] = "fiber" /\ fiberOf[c] = cproc[c] /\ inKernel[cproc[c]]
    BY DEF SchedulingInv, ThreadInv, Handshake
  <2>2. fiberOf[k] # fiberOf[c]
    BY <2>1 DEF SchedulingInv, ThreadInv, Handshake
  <2>3. cpc[k] \in {"urun", "user", "ienter"} => ~inKernel[cproc[k]]
    BY DEF SchedulingInv, Handshake
  <2> QED  BY <2>1, <2>2, <2>3
<1> QED  BY Invariance, <1>1, PTL

\* A kernel fiber that slept goes on on the processor that its frame captured.
THEOREM FiberStaysHome == Spec => []FiberAffinity
<1>1. SchedulingInv => FiberAffinity
  BY DEF SchedulingInv, ThreadInv, FiberInv, FiberAffinity
<1> QED  BY Invariance, <1>1, PTL

\* An action that leaves the queues alone, and blocks no processor.
LEMMA QuietStep ==
    ASSUME NoMissedWork, UNCHANGED <<queue, kernelQ>>,
           \A k \in CPUs : cpc'[k] = "blocked" => cpc[k] = "blocked"
    PROVE  NoMissedWork'
BY DEF NoMissedWork, WorkAvailable

\* AddRunnableProcess and Wakeup notify every processor that waits.
LEMMA NotifiedStep ==
    ASSUME TypeOK, NoMissedWork, UNCHANGED kernelQ, NEW c \in CPUs, NEW pc \in CpuPc \ {"blocked"},
           NEW q, NEW s, AddRunnableProcess(q, s, c, pc)
    PROVE  NoMissedWork'
<1>1. CASE state[q] # "zombie"
  BY <1>1 DEF AddRunnableProcess, NoMissedWork, Notified, TypeOK
<1>2. CASE state[q] = "zombie"
  <2>1. \A k \in CPUs : cpc'[k] = "blocked" => cpc[k] = "blocked"
    BY <1>2 DEF AddRunnableProcess, TypeOK
  <2> QED  BY <1>2, <2>1, QuietStep DEF AddRunnableProcess
<1> QED  BY <1>1, <1>2

(* EventManager::Wakeup may only add to the run queue, and it notifies when
   it does: work is not missed. *)
LEMMA WakeupStep ==
    ASSUME TypeOK, NoMissedWork, UNCHANGED kernelQ, NEW e \in Events, NEW s,
           Wakeup(e, s)
    PROVE  NoMissedWork'
<1> DEFINE woken == {p \in sleeping[e] : s[p] # "zombie"}
<1>1. CASE woken # {}
  BY <1>1 DEF Wakeup, NoMissedWork, Notified
<1>2. CASE woken = {}
  <2>1. cpc' = cpc
    BY <1>2 DEF Wakeup
  <2>2. queue' = queue
    <3>1. PICK w \in Orders(woken) : queue' = queue \o w
      BY DEF Wakeup
    <3>2. w = <<>>
      <4>1. Cardinality(woken) = 0  BY <1>2, FS_EmptySet
      <4>2. w \in [1 .. 0 -> woken]  BY <4>1 DEF Orders
      <4> QED  BY <4>2, SeqDef, EmptySeq
    <3>3. queue \in Seq(Procs)  BY DEF TypeOK
    <3> QED  BY <3>1, <3>2, <3>3, ConcatEmptySeq
  <2> QED  BY <2>1, <2>2, QuietStep
<1> QED  BY <1>1, <1>2

\* No processor waits while there is work, although the processor that hands a
\* process over to the kernel queue of another notifies none.
THEOREM NoLostNotification == Spec => []NoMissedWork
<1>1. Init => NoMissedWork
  BY DEF Init, NoMissedWork
<1>2. ASSUME SchedulingInv, NoMissedWork, [Next]_vars PROVE NoMissedWork'
  <2> USE <1>2
  <2>1. TypeOK
    BY DEF SchedulingInv
  <2>2. ASSUME NEW c \in CPUs,
               \/ Poll(c) \/ KernelResume(c) \/ KernelEnter(c) \/ Prepare(c)
               \/ UserWait(c) \/ UserRun(c) \/ UserThrows(c) \/ TakeClock(c)
               \/ TakeTrap(c) \/ InterruptEnter(c) \/ LeaveFiber(c)
        PROVE  NoMissedWork'
    <3>1. \/ Poll(c)
          \/ UNCHANGED <<queue, kernelQ>>
      BY <2>2 DEF KernelResume, KernelEnter, EnterFiber, Prepare, UserWait, UserRun,
                  UserThrows, TakeClock, TakeTrap, Interrupt, InterruptEnter, LeaveFiber
    <3>2. \A k \in CPUs : cpc'[k] = "blocked" => cpc[k] = "blocked"
      BY <2>1, <2>2
         DEF TypeOK, Poll, KernelResume, KernelEnter, EnterFiber, Prepare,
             UserWait, UserRun, UserThrows, TakeClock, TakeTrap, Interrupt,
             InterruptEnter, LeaveFiber
    <3>3. CASE Poll(c)
      <4>1. WorkAvailable' => WorkAvailable
        <5>1. queue' = queue /\ \A k \in CPUs : kernelQ'[k] # <<>> => kernelQ[k] # <<>>
          BY <2>1, <3>3 DEF TypeOK, Poll
        <5> QED  BY <5>1 DEF WorkAvailable
      <4> QED  BY <3>2, <4>1 DEF NoMissedWork
    <3> QED  BY <3>1, <3>2, <3>3, QuietStep
  <2>3. ASSUME NEW c \in CPUs, Block(c) PROVE NoMissedWork'
    BY <2>3 DEF Block, NoMissedWork, WorkAvailable
  <2>4. ASSUME NEW c \in CPUs, GetRunnableProcess(c) PROVE NoMissedWork'
    <3>1. WorkAvailable
      BY <2>4 DEF GetRunnableProcess
    <3>2. \A k \in CPUs : cpc'[k] = "blocked" => cpc[k] = "blocked"
      BY <2>1, <2>4 DEF GetRunnableProcess, TypeOK
    <3> QED  BY <3>1, <3>2 DEF NoMissedWork
  <2>5. ASSUME NEW c \in CPUs,
               \/ FiberTop(c) \/ EnterGuard(c) \/ ReleaseProcessor(c) \/ Resumed(c)
               \/ LeaveGuard(c) \/ TrapExec(c) \/ TrapReturn(c) \/ FiberLeave(c)
               \/ FiberThrows(c)
        PROVE  NoMissedWork'
    <3>1. UNCHANGED <<queue, kernelQ>>
      BY <2>5 DEF FiberTop, EnterGuard, ReleaseProcessor, SwitchToMain, Resumed,
                  LeaveGuard, TrapExec, TrapReturn, FiberLeave, FiberThrows
    <3>2. \A k \in CPUs : cpc'[k] = "blocked" => cpc[k] = "blocked"
      <4>1. CASE FiberThrows(c)
        BY <2>1, <4>1 DEF TypeOK, FiberThrows, SwitchToMain
      <4>2. CASE ~FiberThrows(c)
        BY <2>1, <2>5, <4>2
           DEF TypeOK, FiberTop, EnterGuard, ReleaseProcessor, SwitchToMain,
               Resumed, LeaveGuard, TrapExec, TrapReturn, FiberLeave, Notified
      <4> QED  BY <4>1, <4>2
    <3> QED  BY <3>1, <3>2, QuietStep
  <2>6. ASSUME NEW c \in CPUs, ClockHandle(c) \/ Finish(c) PROVE NoMissedWork'
    <3>1. UNCHANGED kernelQ
      BY <2>6 DEF ClockHandle, Finish
    <3>2. \/ \E q : AddRunnableProcess(q, "runnableInUser", c, "fiber")
          \/ UNCHANGED <<queue, cpc>>
      BY <2>6 DEF ClockHandle, Finish
    <3>3. "fiber" \in CpuPc \ {"blocked"}
      BY DEF CpuPc
    <3> QED  BY <2>1, <3>1, <3>2, <3>3, NotifiedStep, QuietStep
  <2>7. ASSUME NEW c \in CPUs, NEW q \in Procs, TrapFork(c, q) PROVE NoMissedWork'
    <3>1. UNCHANGED kernelQ /\ AddRunnableProcess(q, "runnableInUser", c, "fiber")
      BY <2>7 DEF TrapFork
    <3>2. "fiber" \in CpuPc \ {"blocked"}
      BY DEF CpuPc
    <3> QED  BY <2>1, <3>1, <3>2, NotifiedStep
  <2>8. ASSUME NEW c \in CPUs, NEW e \in Events, TrapSleep(c, e) PROVE NoMissedWork'
    <3>1. UNCHANGED <<queue, kernelQ>>
      BY <2>8 DEF TrapSleep
    <3>2. \A k \in CPUs : cpc'[k] = "blocked" => cpc[k] = "blocked"
      BY <2>8 DEF TrapSleep, Notified
    <3> QED  BY <3>1, <3>2, QuietStep
  <2>9. ASSUME NEW e \in Events, NEW s, Wakeup(e, s), UNCHANGED kernelQ
        PROVE  NoMissedWork'
    BY <2>1, <2>9, WakeupStep
  <2>10. ASSUME NEW c \in CPUs, NEW e \in Events,
                TrapWakeup(c, e) \/ TrapExit(c, e) \/ \E q \in Procs : TrapKill(c, q, e)
         PROVE  NoMissedWork'
    <3>1. UNCHANGED kernelQ /\ \E s : Wakeup(e, s)
      BY <2>10 DEF TrapWakeup, TrapExit, TrapKill, Exit
    <3> QED  BY <2>9, <3>1
  <2>11. ASSUME NEW e \in Events, DeviceWakeup(e) PROVE NoMissedWork'
    BY <2>9, <2>11 DEF DeviceWakeup
  <2>12. CASE UNCHANGED vars
    BY <2>12, QuietStep DEF vars
  <2> QED
    BY <2>2, <2>3, <2>4, <2>5, <2>6, <2>7, <2>8, <2>10, <2>11, <2>12
       DEF Next, CpuStep, FiberStep, TrapStep
<1> QED  BY <1>1, <1>2, Invariance, PTL DEF Spec

-----------------------------------------------------------------------------
(* The states of the processes and their registers.                        *)

\* The thread has a process whose state or registers depend on it.
Busy == Carrying \ {"left"}

\* What the step does has nothing to do with p.
Bystander(p) ==
    /\ state'[p] = state[p] /\ fpc'[p] = fpc[p] /\ frame'[p] = frame[p]
    /\ kernelProcessor'[p] = kernelProcessor[p] /\ saveContext'[p] = saveContext[p]
    /\ context'[p] = context[p] /\ regAX'[p] = regAX[p] /\ useRegAX'[p] = useRegAX[p]
    /\ image'[p] = image[p] /\ ax'[p] = ax[p]
    /\ InQueue(p)' => InQueue(p)
    /\ \A e \in Events : Asleep(e, p)' <=> Asleep(e, p)
    /\ \A c \in CPUs :
           /\ InKernelQ(c, p)' => InKernelQ(c, p)
           /\ \/ cpc'[c] \notin Busy \/ cproc'[c] # p
              \/ /\ cpc'[c] = cpc[c] /\ cproc'[c] = cproc[c]
                 /\ current'[c] = current[c] /\ regs'[c] = regs[c]
           /\ \/ cpc[c] \notin Busy \/ cproc[c] # p
              \/ cpc'[c] = cpc[c] /\ cproc'[c] = cproc[c]

LEMMA BystanderKeeps ==
    ASSUME NEW p \in Procs, StateOf(p), RegistersOf(p), Bystander(p)
    PROVE  StateOf(p)' /\ RegistersOf(p)'
<1>1. \A c \in CPUs : (Interrupted(c, p)' => Interrupted(c, p)) /\ (Requeued(c, p)' => Requeued(c, p))
  BY DEF Bystander, Interrupted, Requeued, Busy, Carrying
<1>2. \A c \in CPUs : \A S : AtWork(c, p, S)' => AtWork(c, p, S)
  BY DEF Bystander, AtWork, Busy, Carrying
<1>3. \A c \in CPUs : /\ InRegisters(c, p)' => InRegisters(c, p)
                      /\ InRegisters(c, p)' => regs'[c] = regs[c]
  BY <1>2 DEF Bystander, InRegisters, AtWork, Busy, Carrying
<1>4. Execing(p)' <=> Execing(p)
  BY DEF Bystander, Execing
<1>5. Saved(p)' => Saved(p)
  BY <1>2, <1>4 DEF Bystander, Saved, Busy, Carrying
<1>6. StateOf(p)'
  BY <1>1 DEF StateOf, Bystander, Dead, HasMemory, Runnable
<1>7. Expected(p)' = Expected(p) /\ RestoredRegisters(p)' = RestoredRegisters(p)
  BY DEF Expected, RestoredRegisters, Bystander
<1>8. RegistersOf(p)'
  BY <1>3, <1>4, <1>5, <1>7 DEF RegistersOf, Bystander, HasMemory
<1> QED BY <1>6, <1>8

\* The thread c takes a step that concerns the processes S only, one of which it has if
\* it has one.
Concerns(c, S) ==
    /\ \A k \in CPUs \ {c} :
           /\ cpc'[k] = cpc[k] \/ (cpc[k] = "blocked" /\ cpc'[k] = "sched")
           /\ cproc'[k] = cproc[k] /\ current'[k] = current[k] /\ regs'[k] = regs[k]
    /\ cpc[c] \in Busy => cproc[c] \in S
    /\ cpc'[c] \in Busy => cproc'[c] \in S
    /\ \A p \in Procs \ S :
           /\ state'[p] = state[p] /\ fpc'[p] = fpc[p] /\ frame'[p] = frame[p]
           /\ kernelProcessor'[p] = kernelProcessor[p] /\ saveContext'[p] = saveContext[p]
           /\ context'[p] = context[p] /\ regAX'[p] = regAX[p] /\ useRegAX'[p] = useRegAX[p]
           /\ image'[p] = image[p] /\ ax'[p] = ax[p]
           /\ InQueue(p)' => InQueue(p)
           /\ \A e \in Events : Asleep(e, p)' <=> Asleep(e, p)
           /\ \A k \in CPUs : InKernelQ(k, p)' => InKernelQ(k, p)

LEMMA OthersKeep ==
    ASSUME KeptInv, SchedulingInv', NEW c \in CPUs, NEW S, Concerns(c, S),
           \A q \in Procs \cap S : StateOf(q)' /\ RegistersOf(q)'
    PROVE  KeptInv'
<1>1. ASSUME NEW p \in Procs \ S PROVE Bystander(p)
  BY DEF Concerns, Bystander, Busy, Carrying
<1> QED BY <1>1, BystanderKeeps DEF KeptInv, StateInv, RegistersInv

\* The registers of p are in one place: a list, or the processor that has it.
LEMMA SavedNow ==
    ASSUME SchedulingInv', NEW p \in Procs, Saved(p)',
           HasMemory(p)' => RestoredRegisters(p)' = Expected(p)',
           fpc'[p] \in {"release", "asleep", "awake"} => ~saveContext'[p]
    PROVE  RegistersOf(p)'
<1>1. \A c \in CPUs : InRegisters(c, p)' => Holds(c, p)'
  BY DEF SchedulingInv, ThreadInv, InRegisters, AtWork, Holds
<1>2. \A c \in CPUs : ~InRegisters(c, p)'
  <2> SUFFICES ASSUME NEW c \in CPUs, InRegisters(c, p)' PROVE FALSE
    OBVIOUS
  <2>1. OnePlace(p)' /\ Holds(c, p)'
    BY <1>1 DEF SchedulingInv, PlacesDisjoint
  <2>2. \A k \in CPUs : Holds(k, p)' => k = c
    BY <2>1 DEF OnePlace
  <2>3. PICK k \in CPUs :
           \/ cproc'[k] = p /\ cpc'[k] \in {"kresume", "kenter", "prepare", "uwait", "urun"}
           \/ AtWork(k, p, {"asleep", "awake"})'
           \/ /\ AtWork(k, p, {"done", "unguard", "finish"})' /\ ~Execing(p)'
              /\ state'[p] = "exec" \/ (state'[p] # "zombie" /\ ~saveContext'[p])
    BY <2>1 DEF Saved, OnePlace
  <2>4. Holds(k, p)'
    BY <2>3 DEF SchedulingInv, ThreadInv, Holds, AtWork
  <2> QED BY <2>2, <2>3, <2>4 DEF InRegisters, AtWork
<1>3. ~Execing(p)'
  <2>1. FiberAt(p)'
    BY DEF SchedulingInv, FiberPlace
  <2> SUFFICES ASSUME Execing(p)' PROVE FALSE
    OBVIOUS
  <2>2. fpc'[p] = "done" /\ state'[p] = "exec"
    BY DEF Execing
  <2>3. \A c \in CPUs : cproc'[c] = p => cpc'[c] # "urun"
    BY <2>2 DEF SchedulingInv, Handshake
  <2> QED BY <2>1, <2>2, <2>3 DEF Saved, FiberAt, SuspendedOn, UserFiber, AtWork, Execing
<1>4. state'[p] # "created"
  <2> SUFFICES ASSUME state'[p] = "created" PROVE FALSE
    OBVIOUS
  <2>1. Unused(p)'
    BY DEF SchedulingInv, CreatedNowhere
  <2> QED BY <2>1 DEF Unused, Saved, AtWork, Carrying
<1> QED BY <1>2, <1>3, <1>4 DEF RegistersOf

LEMMA InRegistersNow ==
    ASSUME SchedulingInv', NEW p \in Procs, NEW c \in CPUs, InRegisters(c, p)',
           saveContext'[p], ~useRegAX'[p], regs'[c] = Expected(p)'
    PROVE  RegistersOf(p)'
<1>1. \A k \in CPUs : InRegisters(k, p)' => Holds(k, p)'
  BY DEF SchedulingInv, ThreadInv, InRegisters, AtWork, Holds
<1>2. OnePlace(p)' /\ Holds(c, p)'
  BY <1>1 DEF SchedulingInv, PlacesDisjoint
<1>3. \A k \in CPUs : Holds(k, p)' => k = c
  BY <1>2 DEF OnePlace
<1>4. ~Execing(p)'
  BY DEF SchedulingInv, Handshake, InRegisters, AtWork, Execing
<1>5. ~Saved(p)'
  <2> SUFFICES ASSUME Saved(p)' PROVE FALSE
    OBVIOUS
  <2>1. PICK k \in CPUs :
           \/ cproc'[k] = p /\ cpc'[k] \in {"kresume", "kenter", "prepare", "uwait", "urun"}
           \/ AtWork(k, p, {"asleep", "awake"})'
           \/ /\ AtWork(k, p, {"done", "unguard", "finish"})' /\ ~Execing(p)'
              /\ state'[p] = "exec" \/ (state'[p] # "zombie" /\ ~saveContext'[p])
    BY <1>2 DEF Saved, OnePlace
  <2>2. Holds(k, p)'
    BY <2>1 DEF SchedulingInv, ThreadInv, Holds, AtWork
  <2> QED BY <1>3, <2>1, <2>2 DEF InRegisters, AtWork
<1>6. state'[p] # "created"
  <2> SUFFICES ASSUME state'[p] = "created" PROVE FALSE
    OBVIOUS
  <2>1. Unused(p)'
    BY DEF SchedulingInv, CreatedNowhere
  <2> QED BY <2>1 DEF Unused, InRegisters, AtWork, Carrying
<1>7. fpc'[p] \notin {"release", "asleep", "awake"}
  BY DEF SchedulingInv, Handshake, InRegisters, AtWork
<1> QED BY <1>1, <1>3, <1>4, <1>5, <1>6, <1>7 DEF RegistersOf

\* The places where the registers of p are do not become more.
LEMMA FewerModes ==
    ASSUME NEW p \in Procs, RegistersOf(p), Saved(p)' => Saved(p), Execing(p)' => Execing(p),
           \A c \in CPUs : InRegisters(c, p)' => InRegisters(c, p) /\ regs'[c] = regs[c],
           saveContext'[p] = saveContext[p], useRegAX'[p] = useRegAX[p],
           regAX'[p] = regAX[p], context'[p] = context[p] \/ ~HasMemory(p)',
           image'[p] = image[p], ax'[p] = ax[p],
           state'[p] = "created" => state[p] = "created",
           fpc'[p] \in {"release", "asleep", "awake"} =>
               fpc[p] \in {"release", "asleep", "awake"}
    PROVE  RegistersOf(p)'
<1>1. /\ Expected(p)' = Expected(p)
      /\ HasMemory(p)' => HasMemory(p) /\ RestoredRegisters(p)' = RestoredRegisters(p)
                          /\ context'[p] = context[p]
  BY DEF Expected, RestoredRegisters, HasMemory
<1> QED BY <1>1 DEF RegistersOf, HasMemory

\* A process on a processor is on no list.
LEMMA HeldNow ==
    ASSUME SchedulingInv', NEW p \in Procs, NEW c \in CPUs, Holds(c, p)',
           ~Dead(p)' => state'[p] # "asleep",
           Interrupted(c, p)' => state'[p] \in {"running", "zombie"},
           \A k \in CPUs : Requeued(k, p)' => state'[p] \in {"runnableInUser", "zombie"},
           fpc'[p] \in {"handle", "release", "asleep", "awake", "done", "unguard"} =>
               (frame[p].prev)' \in {"running", "zombie"},
           fpc'[p] \in {"handle", "awake"} => state'[p] \in {"runningKernel", "zombie"}
    PROVE  StateOf(p)'
<1>1. OnePlace(p)'
  BY DEF SchedulingInv, PlacesDisjoint
<1>2. \A k \in CPUs : Interrupted(k, p)' => Holds(k, p)'
  BY DEF Interrupted, Holds, SchedulingInv, ThreadInv, FiberInv
<1>3. /\ \A k \in CPUs : Interrupted(k, p)' => k = c
      /\ ~InQueue(p)' /\ \A k \in CPUs : ~InKernelQ(k, p)'
      /\ \A e \in Events : ~Asleep(e, p)'
  BY <1>1, <1>2 DEF OnePlace
<1> QED BY <1>3 DEF StateOf

\* What the code of a kernel fiber may rely on, with the process p as a constant.
LEMMA InsideFiber ==
    ASSUME SchedulingInv, NEW c \in CPUs, cpc[c] = "fiber", NEW p, p = cproc[c]
    PROVE  /\ fiberOf[c] = p /\ p \in Procs /\ p # NoProc /\ c # NoCpu
           /\ fpc[p] # "none" /\ state[p] # "created" /\ mainFiber[p] = c
           /\ fpc[p] = "top" => handler[p] # "none"
           /\ fpc[p] # "top" => frame[p].processor = c /\ frame[p].main = c
           /\ fpc[p] \in {"top", "guard", "handle", "asleep", "awake", "done"} =>
                  current[c] = p /\ processor[p] = c
           /\ fpc[p] = "release" => current[c] = NoProc
           /\ fpc[p] \in {"unguard", "finish"} =>
                  \/ current[c] = p /\ processor[p] = c
                  \/ current[c] = NoProc /\ processor[p] = NoCpu
           /\ fpc[p] = "leave" /\ current[c] = p => state[p] = "zombie"
           /\ \A k \in CPUs \ {c} : cpc[k] # "fiber" \/ cproc[k] # p
           /\ \A k \in CPUs : cpc[k] \in {"urun", "user", "ienter"} => cproc[k] # p
<1>1. fiberOf[c] = p /\ p \in Procs /\ p # NoProc /\ c # NoCpu
  BY DEF SchedulingInv, ThreadInv, Carrying
<1>2. state[p] # "created"
  BY <1>1 DEF SchedulingInv, CreatedNowhere, Unused, Carrying
<1>3. /\ \A k \in CPUs \ {c} : cpc[k] # "fiber" \/ cproc[k] # p
      /\ \A k \in CPUs : cpc[k] \in {"urun", "user", "ienter"} => cproc[k] # p
  BY DEF SchedulingInv, Handshake
<1> QED BY <1>1, <1>2, <1>3 DEF SchedulingInv, FiberInv

LEMMA BlockLife ==
    ASSUME KeptInv, SchedulingInv', NEW c \in CPUs, Block(c)
    PROVE  KeptInv'
<1>1. Concerns(c, {})
  BY DEF KeptInv, SchedulingInv, TypeOK, Block, Concerns, Busy, Carrying
<1> QED BY <1>1, OthersKeep

LEMMA LeaveFiberLife ==
    ASSUME KeptInv, SchedulingInv', NEW c \in CPUs, LeaveFiber(c)
    PROVE  KeptInv'
<1>1. Concerns(c, {})
  BY DEF KeptInv, SchedulingInv, TypeOK, LeaveFiber, Concerns, Busy, Carrying
<1> QED BY <1>1, OthersKeep

\* Two fields of a thread are set.
LEMMA SetThread ==
    ASSUME NEW c \in CPUs, NEW q, NEW pc, TypeOK,
           cproc' = [cproc EXCEPT ![c] = q], cpc' = [cpc EXCEPT ![c] = pc]
    PROVE  /\ \A k \in CPUs \ {c} : cproc'[k] = cproc[k] /\ cpc'[k] = cpc[k]
           /\ cproc'[c] = q /\ cpc'[c] = pc
BY DEF TypeOK

LEMMA PollLife ==
    ASSUME KeptInv, SchedulingInv', NEW c \in CPUs, Poll(c)
    PROVE  KeptInv'
<1>1. CASE kernelQ[c] = <<>>
  <2>1. Concerns(c, {})
    BY <1>1 DEF KeptInv, SchedulingInv, TypeOK, Poll, Concerns, Busy, Carrying
  <2> QED BY <2>1, OthersKeep
<1>2. CASE kernelQ[c] # <<>>
  <2>1. kernelQ \in [CPUs -> Seq(Procs)] /\ cproc \in [CPUs -> Procs \cup {NoProc}]
        /\ cpc \in [CPUs -> CpuPc]
    BY DEF KeptInv, SchedulingInv, TypeOK
  <2> PICK h : h = Head(kernelQ[c])
    OBVIOUS
  <2>2. /\ h \in Procs /\ InKernelQ(c, h)
        /\ \A p \in Procs : p \in Elements(Tail(kernelQ[c])) => p \in Elements(kernelQ[c])
    BY <1>2, <2>1, TailElements
  <2>3. /\ kernelQ' = [kernelQ EXCEPT ![c] = Tail(kernelQ[c])]
        /\ cproc' = [cproc EXCEPT ![c] = h]
        /\ cpc' = [cpc EXCEPT ![c] = "kresume"] /\ cpc[c] = "poll"
        /\ UNCHANGED <<current, regs, fiberOf, procVars, fiberVars, queue,
                       sleeping, ghostVars>>
    BY <1>2 DEF Poll
  <2>4. \A p \in Procs, k \in CPUs : InKernelQ(k, p)' => InKernelQ(k, p)
    BY <2>1, <2>2, <2>3
  <2>5. /\ \A k \in CPUs \ {c} : cproc'[k] = cproc[k] /\ cpc'[k] = cpc[k]
        /\ cproc'[c] = h /\ cpc'[c] = "kresume"
    BY <2>3, SetThread, ZenonT(40) DEF KeptInv, SchedulingInv
  <2>6. Concerns(c, {h})
    BY <2>3, <2>4, <2>5 DEF Concerns, Busy, Carrying
  <2>7. StateOf(h)'
    BY <2>2, <2>3, <2>4, <2>5 DEF KeptInv, StateInv, StateOf, Interrupted, Requeued, Dead, HasMemory, Runnable
  <2>8. Saved(h) /\ Saved(h)'
    <3>1. \E k \in CPUs : cproc'[k] = h /\ cpc'[k] \in {"kresume", "kenter", "prepare", "uwait", "urun"}
      BY <2>5
    <3> QED BY <2>2, <3>1, Zenon DEF Saved
  <2>9. HasMemory(h)' => RestoredRegisters(h)' = Expected(h)'
    BY <2>2, <2>3, <2>8 DEF KeptInv, RegistersInv, RegistersOf, RestoredRegisters, Expected, HasMemory
  <2>10. fpc'[h] \in {"release", "asleep", "awake"} => ~saveContext'[h]
    BY <2>2, <2>3 DEF KeptInv, RegistersInv, RegistersOf
  <2> QED BY <2>2, <2>6, <2>7, <2>8, <2>9, <2>10, SavedNow, OthersKeep
<1> QED BY <1>1, <1>2

LEMMA KernelResumeLife ==
    ASSUME KeptInv, SchedulingInv', NEW c \in CPUs, KernelResume(c), NEW p, p = cproc[c]
    PROVE  KeptInv'
<1>1. p \in Procs /\ SuspendedOn(p, c) /\ StateOf(p) /\ RegistersOf(p) /\ Saved(p)
  BY DEF KeptInv, SchedulingInv, StateInv, RegistersInv, ThreadInv, FiberPlace, FiberAt,
         KernelResume, Carrying, Saved
<1>2. /\ cpc[c] = "kresume" /\ cproc'[c] = p /\ cpc'[c] = "kenter"
      /\ \A k \in CPUs \ {c} : cpc'[k] = cpc[k] /\ cproc'[k] = cproc[k]
      /\ \A k \in CPUs \ {c} : current'[k] = current[k]
      /\ saveContext'[p] = FALSE
      /\ \A x \in Procs \ {p} : saveContext'[x] = saveContext[x]
      /\ UNCHANGED <<state, fpc, frame, kernelProcessor, queue, kernelQ, sleeping,
                     regs, context, useRegAX, regAX, image, ax>>
  BY <1>1 DEF KernelResume, KeptInv, SchedulingInv, TypeOK
<1>3. Concerns(c, {p})
  BY <1>2 DEF Concerns, Busy, Carrying
<1>4. StateOf(p)'
  BY <1>1, <1>2 DEF StateOf, Interrupted, Requeued, Dead, HasMemory, Runnable
<1>5. Saved(p)'
  BY <1>2 DEF Saved
<1>6. HasMemory(p)' => RestoredRegisters(p)' = Expected(p)'
  BY <1>1, <1>2 DEF RegistersOf, RestoredRegisters, Expected, HasMemory
<1> QED BY <1>1, <1>2, <1>3, <1>4, <1>5, <1>6, SavedNow, OthersKeep

LEMMA KernelEnterLife ==
    ASSUME KeptInv, SchedulingInv', NEW c \in CPUs, KernelEnter(c), NEW p, p = cproc[c]
    PROVE  KeptInv'
<1>1. p \in Procs /\ SuspendedOn(p, c) /\ StateOf(p) /\ RegistersOf(p) /\ Saved(p)
      /\ current[c] = p
  BY DEF KeptInv, SchedulingInv, StateInv, RegistersInv, ThreadInv, FiberPlace, FiberAt,
         KernelEnter, Carrying, Saved
<1>2. /\ cpc[c] = "kenter" /\ cproc'[c] = p /\ cpc'[c] = "fiber" /\ current'[c] = p
      /\ \A k \in CPUs \ {c} : cpc'[k] = cpc[k] /\ cproc'[k] = cproc[k]
      /\ UNCHANGED <<state, fpc, frame, kernelProcessor, queue, kernelQ, sleeping,
                     context, useRegAX, regAX, image, ax, saveContext>>
  BY <1>1 DEF KernelEnter, EnterFiber, KeptInv, SchedulingInv, TypeOK
<1>3. Concerns(c, {p})
  BY <1>2 DEF KernelEnter, EnterFiber, KeptInv, SchedulingInv, TypeOK, Concerns, Busy, Carrying
<1>4. fpc[p] = "asleep"
  BY <1>1, <1>2 DEF SuspendedOn, SchedulingInv, FiberInv
<1>5. StateOf(p)'
  BY <1>1, <1>2, <1>4 DEF StateOf, Interrupted, Requeued, Dead, HasMemory, Runnable
<1>6. Saved(p)'
  BY <1>2, <1>4 DEF Saved, AtWork
<1>7. HasMemory(p)' => RestoredRegisters(p)' = Expected(p)'
  BY <1>1, <1>2 DEF RegistersOf, RestoredRegisters, Expected, HasMemory
<1>8. ~saveContext'[p]
  BY <1>1, <1>2, <1>4 DEF RegistersOf
<1> QED BY <1>1, <1>3, <1>5, <1>6, <1>7, <1>8, SavedNow, OthersKeep

LEMMA PrepareLife ==
    ASSUME KeptInv, SchedulingInv', NEW c \in CPUs, Prepare(c), NEW p, p = cproc[c]
    PROVE  KeptInv'
<1>1. p \in Procs /\ fpc[p] \in UserFiber /\ StateOf(p) /\ RegistersOf(p) /\ Saved(p)
  BY DEF KeptInv, SchedulingInv, StateInv, RegistersInv, ThreadInv, FiberPlace, FiberAt,
         Prepare, Carrying, Saved
<1>2. /\ cpc[c] = "prepare" /\ cproc'[c] = p /\ cpc'[c] = "uwait" /\ current'[c] = p
      /\ \A k \in CPUs \ {c} : cpc'[k] = cpc[k] /\ cproc'[k] = cproc[k]
      /\ fpc'[p] = fpc[p] \/ (fpc[p] = "none" /\ fpc'[p] = "top")
      /\ \A k \in CPUs \ {c} : current'[k] = current[k]
      /\ UNCHANGED <<state, frame, kernelProcessor, queue, kernelQ, sleeping,
                     context, useRegAX, regAX, image, ax, saveContext>>
  BY <1>1 DEF Prepare, KeptInv, SchedulingInv, TypeOK
<1>3. Concerns(c, {p})
  BY <1>2 DEF Prepare, KeptInv, SchedulingInv, TypeOK, Concerns, Busy, Carrying
<1>4. \A k \in CPUs : cpc[k] = "fiber" /\ cproc[k] = p => fpc'[p] = fpc[p]
  BY <1>2 DEF KeptInv, SchedulingInv, FiberInv
<1>5. StateOf(p)'
  BY <1>1, <1>2, <1>4 DEF StateOf, Interrupted, Requeued, Dead, HasMemory, Runnable
<1>6. Saved(p)'
  BY <1>2 DEF Saved
<1>7. HasMemory(p)' => RestoredRegisters(p)' = Expected(p)'
  BY <1>1, <1>2 DEF RegistersOf, RestoredRegisters, Expected, HasMemory
<1>8. fpc'[p] \notin {"release", "asleep", "awake"}
  BY <1>1, <1>2 DEF UserFiber
<1> QED BY <1>1, <1>3, <1>5, <1>6, <1>7, <1>8, SavedNow, OthersKeep

LEMMA UserWaitLife ==
    ASSUME KeptInv, SchedulingInv', NEW c \in CPUs, UserWait(c), NEW p, p = cproc[c]
    PROVE  KeptInv'
<1>1. p \in Procs /\ fpc[p] \in UserFiber /\ StateOf(p) /\ RegistersOf(p) /\ Saved(p)
  BY DEF KeptInv, SchedulingInv, StateInv, RegistersInv, ThreadInv, FiberPlace, FiberAt,
         UserWait, Carrying, Saved
<1>2. /\ cpc[c] = "uwait" /\ cproc'[c] = p /\ cpc'[c] = "urun"
      /\ \A k \in CPUs \ {c} : cpc'[k] = cpc[k]
      /\ UNCHANGED <<state, fpc, frame, kernelProcessor, queue, kernelQ, sleeping, cproc, current,
                     context, useRegAX, regAX, image, ax, saveContext>>
  BY <1>1 DEF UserWait, KeptInv, SchedulingInv, TypeOK
<1>3. Concerns(c, {p})
  BY <1>2 DEF UserWait, KeptInv, SchedulingInv, TypeOK, Concerns, Busy, Carrying
<1>4. StateOf(p)'
  BY <1>1, <1>2 DEF StateOf, Interrupted, Requeued, Dead, HasMemory, Runnable
<1>5. Saved(p)'
  BY <1>2 DEF Saved
<1>6. HasMemory(p)' => RestoredRegisters(p)' = Expected(p)'
  BY <1>1, <1>2 DEF RegistersOf, RestoredRegisters, Expected, HasMemory
<1>7. fpc'[p] \notin {"release", "asleep", "awake"}
  BY <1>1, <1>2 DEF UserFiber
<1> QED BY <1>1, <1>3, <1>4, <1>5, <1>6, <1>7, SavedNow, OthersKeep

LEMMA UserRunLife ==
    ASSUME KeptInv, SchedulingInv', NEW c \in CPUs, UserRun(c), NEW p, p = cproc[c]
    PROVE  KeptInv'
<1>1. p \in Procs /\ fpc[p] = "top" /\ StateOf(p) /\ RegistersOf(p) /\ Saved(p)
      /\ current[c] = p
  BY DEF KeptInv, SchedulingInv, StateInv, RegistersInv, ThreadInv, Handshake,
         UserRun, Carrying, Saved
<1>2. /\ cpc[c] = "urun" /\ cproc'[c] = p /\ current'[c] = p /\ state'[p] = "running"
      /\ \A k \in CPUs \ {c} : cpc'[k] = cpc[k]
      /\ UNCHANGED <<fpc, frame, kernelProcessor, queue, kernelQ, sleeping, cproc, current,
                     context, image, ax>>
  BY <1>1 DEF UserRun, KeptInv, SchedulingInv, TypeOK
<1>3. Concerns(c, {p})
  BY <1>2 DEF UserRun, KeptInv, SchedulingInv, TypeOK, Concerns, Busy, Carrying
<1>4. \A k \in CPUs : ~Requeued(k, p)'
  BY <1>1, <1>2 DEF Requeued
<1>5. CASE HasMemory(p)
  <2>1. /\ cpc'[c] = "user" /\ regs'[c] = RestoredRegisters(p)
        /\ saveContext'[p] = TRUE /\ useRegAX'[p] = FALSE
    BY <1>1, <1>5 DEF UserRun, KeptInv, SchedulingInv, TypeOK
  <2>2. Holds(c, p)'
    BY <1>2, <2>1 DEF Holds
  <2>3. StateOf(p)'
    BY <1>1, <1>2, <1>4, <2>2, HeldNow
  <2>4. InRegisters(c, p)'
    BY <1>2, <2>1 DEF InRegisters
  <2>5. regs'[c] = Expected(p)'
    BY <1>1, <1>2, <1>5, <2>1 DEF RegistersOf, Expected
  <2> QED BY <1>1, <1>3, <2>1, <2>3, <2>4, <2>5, InRegistersNow, OthersKeep
<1>6. CASE ~HasMemory(p)
  <2>1. cpc'[c] = "ended" /\ ~HasMemory(p)'
    BY <1>1, <1>2, <1>6 DEF UserRun, KeptInv, SchedulingInv, TypeOK, HasMemory
  <2>2. \A k \in CPUs \ {c} : ~Holds(k, p)
    BY <1>1, <1>2 DEF KeptInv, SchedulingInv, PlacesDisjoint, OnePlace, Holds
  <2>3. \A k \in CPUs : ~Interrupted(k, p)' /\ ~InRegisters(k, p)'
    <3> SUFFICES ASSUME NEW k \in CPUs, k # c
                 PROVE  ~Interrupted(k, p)' /\ ~InRegisters(k, p)'
      BY <2>1 DEF Interrupted, InRegisters, AtWork
    <3>1. ~Holds(k, p)'
      BY <1>2, <2>2 DEF Holds
    <3> QED  BY <3>1 DEF SchedulingInv, ThreadInv, FiberInv, Interrupted, InRegisters, AtWork, Holds
  <2>4. StateOf(p)'
    BY <1>1, <1>2, <1>4, <2>1, <2>3 DEF StateOf, Dead
  <2>5. RegistersOf(p)'
    BY <1>1, <1>2, <2>1, <2>3 DEF RegistersOf, Execing
  <2> QED BY <1>3, <2>4, <2>5, OthersKeep
<1> QED BY <1>5, <1>6

LEMMA UserThrowsLife ==
    ASSUME KeptInv, SchedulingInv', NEW c \in CPUs, UserThrows(c), NEW p, p = cproc[c]
    PROVE  KeptInv'
<1>1. p \in Procs /\ StateOf(p) /\ RegistersOf(p) /\ ~HasMemory(p)
  BY DEF KeptInv, SchedulingInv, StateInv, RegistersInv, ThreadInv, UserThrows, Carrying
<1>2. /\ cpc[c] = "user" /\ cproc'[c] = p /\ cpc'[c] = "ended"
      /\ \A k \in CPUs \ {c} : cpc'[k] = cpc[k]
      /\ UNCHANGED <<cproc, current, kernelQ, regs, fiberOf, procVars, fiberVars, queue,
                     sleeping, ghostVars>>
  BY DEF UserThrows, KeptInv, SchedulingInv, TypeOK
<1>3. Concerns(c, {p})
  BY <1>2 DEF Concerns, Busy, Carrying
<1>4. \A k \in CPUs : /\ Interrupted(k, p)' => Interrupted(k, p)
                      /\ Requeued(k, p)' => Requeued(k, p)
                      /\ InRegisters(k, p)' => InRegisters(k, p)
  BY <1>2 DEF Interrupted, Requeued, InRegisters, AtWork
<1>5. StateOf(p)'
  BY <1>1, <1>2, <1>4 DEF StateOf, Dead, HasMemory
<1>6. RegistersOf(p)'
  BY <1>1, <1>2, <1>4 DEF RegistersOf, HasMemory, Execing, Expected
<1> QED BY <1>3, <1>5, <1>6, OthersKeep

LEMMA InterruptLife ==
    ASSUME KeptInv, SchedulingInv', NEW c \in CPUs, NEW h, Interrupt(c, h), NEW p, p = cproc[c],
           Concerns(c, {p}), regs'[c] = Expected(p)'
    PROVE  KeptInv'
<1>1. p \in Procs /\ StateOf(p) /\ RegistersOf(p) /\ InRegisters(c, p) /\ current[c] = p
  BY DEF KeptInv, SchedulingInv, StateInv, RegistersInv, ThreadInv, Interrupt, Carrying, InRegisters
<1>2. /\ cpc[c] = "user" /\ cproc'[c] = p /\ cpc'[c] = "ienter" /\ current'[c] = p
      /\ \A k \in CPUs \ {c} : cpc'[k] = cpc[k]
      /\ saveContext'[p] = TRUE
      /\ UNCHANGED <<fpc, frame, kernelProcessor, queue, kernelQ, sleeping, cproc, current,
                     state, context, regAX, useRegAX, image>>
  BY <1>1 DEF Interrupt, KeptInv, SchedulingInv, TypeOK
<1>3. StateOf(p)'
  BY <1>1, <1>2 DEF StateOf, Interrupted, Requeued, Dead, HasMemory, Runnable
<1>4. InRegisters(c, p)'
  BY <1>2 DEF InRegisters
<1>5. ~useRegAX'[p]
  BY <1>1, <1>2 DEF RegistersOf
<1> QED BY <1>1, <1>2, <1>3, <1>4, <1>5, InRegistersNow, OthersKeep

LEMMA TakeTrapLife ==
    ASSUME KeptInv, SchedulingInv', NEW c \in CPUs, TakeTrap(c), NEW p, p = cproc[c]
    PROVE  KeptInv'
<1>1. p \in Procs /\ RegistersOf(p) /\ InRegisters(c, p) /\ current[c] = p
  BY DEF KeptInv, SchedulingInv, RegistersInv, ThreadInv, TakeTrap, Interrupt, Carrying, InRegisters
<1>2. Concerns(c, {p})
  BY <1>1 DEF TakeTrap, Interrupt, KeptInv, SchedulingInv, TypeOK, Concerns, Busy, Carrying
<1>3. regs'[c] = Expected(p)'
  BY <1>1 DEF RegistersOf, Expected, TakeTrap, Interrupt
<1> QED BY <1>2, <1>3, InterruptLife DEF TakeTrap

LEMMA TakeClockLife ==
    ASSUME KeptInv, SchedulingInv', NEW c \in CPUs, TakeClock(c), NEW p, p = cproc[c]
    PROVE  KeptInv'
<1>1. p \in Procs /\ RegistersOf(p) /\ InRegisters(c, p) /\ current[c] = p
  BY DEF KeptInv, SchedulingInv, RegistersInv, ThreadInv, TakeClock, Interrupt, Carrying, InRegisters
<1>2. Concerns(c, {p})
  BY <1>1 DEF TakeClock, Interrupt, KeptInv, SchedulingInv, TypeOK, Concerns, Busy, Carrying
<1>3. regs[c] = [owner |-> p, image |-> image[p], ax |-> ax[p]]
  BY <1>1 DEF RegistersOf, Expected
<1>4. /\ regs'[c] = [regs[c] EXCEPT !.ax = 1 - ax[p]]
      /\ ax'[p] = 1 - ax[p] /\ image'[p] = image[p]
  BY <1>1, <1>3 DEF TakeClock, Interrupt, KeptInv, SchedulingInv, TypeOK
<1>5. regs'[c] = Expected(p)'
  BY <1>3, <1>4 DEF Expected
<1> QED BY <1>2, <1>5, InterruptLife DEF TakeClock

LEMMA InterruptEnterLife ==
    ASSUME KeptInv, SchedulingInv', NEW c \in CPUs, InterruptEnter(c), NEW p, p = cproc[c]
    PROVE  KeptInv'
<1>1. p \in Procs /\ StateOf(p) /\ RegistersOf(p) /\ InRegisters(c, p) /\ current[c] = p
      /\ fpc[p] = "top"
  BY DEF KeptInv, SchedulingInv, StateInv, RegistersInv, ThreadInv, Handshake,
         InterruptEnter, Carrying, InRegisters
<1>2. /\ cpc[c] = "ienter" /\ cproc'[c] = p /\ cpc'[c] = "fiber" /\ current'[c] = p
      /\ \A k \in CPUs \ {c} : cpc'[k] = cpc[k]
      /\ UNCHANGED <<fpc, frame, kernelProcessor, queue, kernelQ, sleeping, cproc, current,
                     state, context, regs, regAX, useRegAX, saveContext, image, ax>>
  BY <1>1 DEF InterruptEnter, EnterFiber, KeptInv, SchedulingInv, TypeOK
<1>3. Concerns(c, {p})
  BY <1>2 DEF InterruptEnter, EnterFiber, KeptInv, SchedulingInv, TypeOK, Concerns, Busy, Carrying
<1>4. StateOf(p)'
  BY <1>1, <1>2 DEF StateOf, Interrupted, Requeued, Dead, HasMemory, Runnable
<1>5. InRegisters(c, p)'
  BY <1>1, <1>2 DEF InRegisters, AtWork
<1>6. saveContext'[p] /\ ~useRegAX'[p] /\ regs'[c] = Expected(p)'
  BY <1>1, <1>2 DEF RegistersOf, Expected
<1> QED BY <1>1, <1>3, <1>4, <1>5, <1>6, InRegistersNow, OthersKeep

LEMMA FiberTopLife ==
    ASSUME KeptInv, SchedulingInv', NEW c \in CPUs, FiberTop(c), NEW p, p = cproc[c]
    PROVE  KeptInv'
<1>1. /\ cpc[c] = "fiber" /\ fiberOf[c] = p /\ p \in Procs /\ fpc[p] = "top"
      /\ current[c] = p /\ processor[p] = c /\ handler[p] # "none" /\ c # NoCpu
      /\ \A k \in CPUs \ {c} : cpc[k] # "fiber" \/ cproc[k] # p
  BY InsideFiber DEF KeptInv, SchedulingInv, ThreadInv, FiberTop, InFiber
<1>2. StateOf(p) /\ RegistersOf(p) /\ InRegisters(c, p) /\ Interrupted(c, p)
  BY <1>1 DEF KeptInv, StateInv, RegistersInv, InRegisters, AtWork, Interrupted
<1>3. /\ fpc'[p] = "guard"
      /\ \A x \in Procs \ {p} : fpc'[x] = fpc[x] /\ frame'[x] = frame[x]
      /\ UNCHANGED <<cpuVars, procVars, queue, sleeping, ghostVars>>
  BY <1>1 DEF FiberTop, KeptInv, SchedulingInv, TypeOK
<1>4. Concerns(c, {p})
  BY <1>1, <1>3 DEF Concerns
<1>5. StateOf(p)'
  BY <1>1, <1>2, <1>3 DEF StateOf, Interrupted, Requeued, Dead, HasMemory, Runnable
<1>6. InRegisters(c, p)'
  BY <1>1, <1>3 DEF InRegisters, AtWork
<1>7. saveContext'[p] /\ ~useRegAX'[p] /\ regs'[c] = Expected(p)'
  BY <1>2, <1>3 DEF RegistersOf, Expected
<1> QED BY <1>1, <1>4, <1>5, <1>6, <1>7, InRegistersNow, OthersKeep

LEMMA EnterGuardLife ==
    ASSUME KeptInv, SchedulingInv', NEW c \in CPUs, EnterGuard(c), NEW p, p = cproc[c]
    PROVE  KeptInv'
<1>1. /\ cpc[c] = "fiber" /\ fiberOf[c] = p /\ p \in Procs /\ fpc[p] = "guard"
      /\ current[c] = p
      /\ \A k \in CPUs \ {c} : cpc[k] # "fiber" \/ cproc[k] # p
  BY InsideFiber DEF KeptInv, SchedulingInv, ThreadInv, EnterGuard, InFiber
<1>2. /\ StateOf(p) /\ RegistersOf(p) /\ InRegisters(c, p)
      /\ state[p] \in {"running", "zombie"}
  BY <1>1 DEF KeptInv, StateInv, StateOf, RegistersInv, InRegisters, AtWork, Interrupted
<1>3. /\ fpc'[p] = "handle" /\ state'[p] = "runningKernel" /\ (frame[p].prev)' = state[p]
      /\ \A x \in Procs \ {p} :
             fpc'[x] = fpc[x] /\ frame'[x] = frame[x] /\ state'[x] = state[x]
      /\ UNCHANGED <<cpuVars, processor, kernelProcessor, mainFiber, handler,
                     inKernel, saveContext, context, regAX, useRegAX, queue,
                     sleeping, ghostVars>>
  <2>1. frame[p] \in Frame /\ frame \in [Procs -> Frame]
    BY <1>1 DEF KeptInv, SchedulingInv, TypeOK
  <2>2. frame' = [frame EXCEPT ![p] = [frame[p] EXCEPT !.prev = state[p]]]
    BY <1>1, <2>1 DEF EnterGuard
  <2>3. [frame[p] EXCEPT !.prev = state[p]].prev = state[p]
    BY <2>1 DEF Frame
  <2> QED BY <1>1, <2>1, <2>2, <2>3 DEF EnterGuard, KeptInv, SchedulingInv, TypeOK
<1>4. Concerns(c, {p})
  BY <1>1, <1>3 DEF Concerns
<1>5. Holds(c, p)' /\ ~Interrupted(c, p)' /\ \A k \in CPUs : ~Requeued(k, p)'
  BY <1>1, <1>3 DEF Holds, Interrupted, Requeued
<1>6. StateOf(p)'
  BY <1>1, <1>2, <1>3, <1>5, HeldNow
<1>7. InRegisters(c, p)'
  BY <1>1, <1>3 DEF InRegisters, AtWork
<1>8. saveContext'[p] /\ ~useRegAX'[p] /\ regs'[c] = Expected(p)'
  BY <1>2, <1>3 DEF RegistersOf, Expected
<1> QED BY <1>1, <1>4, <1>6, <1>7, <1>8, InRegistersNow, OthersKeep

LEMMA ReleaseProcessorLife ==
    ASSUME KeptInv, SchedulingInv', NEW c \in CPUs, ReleaseProcessor(c), NEW p, p = cproc[c]
    PROVE  KeptInv'
<1>1. /\ cpc[c] = "fiber" /\ fiberOf[c] = p /\ p \in Procs /\ fpc[p] = "release"
      /\ mainFiber[p] = c
      /\ \A k \in CPUs \ {c} : cpc[k] # "fiber" \/ cproc[k] # p
  BY InsideFiber DEF KeptInv, SchedulingInv, ThreadInv, ReleaseProcessor, InFiber
<1>2. StateOf(p) /\ RegistersOf(p)
  BY <1>1 DEF KeptInv, StateInv, RegistersInv
<1>3. /\ fpc'[p] = "asleep" /\ cpc'[c] = "left"
      /\ \A k \in CPUs \ {c} : cpc'[k] = cpc[k]
      /\ \A x \in Procs \ {p} : fpc'[x] = fpc[x]
      /\ UNCHANGED <<cproc, current, kernelQ, regs, procVars, frame,
                     queue, sleeping, ghostVars>>
  BY <1>1 DEF ReleaseProcessor, SwitchToMain, KeptInv, SchedulingInv, TypeOK
<1>4. Concerns(c, {p})
  BY <1>1, <1>3 DEF Concerns, Busy
<1>5. StateOf(p)'
  BY <1>1, <1>2, <1>3 DEF StateOf, Interrupted, Requeued, Dead, HasMemory, Runnable
<1>6. \A k \in CPUs : \A S : ~AtWork(k, p, S)'
  BY <1>1, <1>3 DEF AtWork
<1>7. Saved(p)' => Saved(p)
  BY <1>3, <1>6 DEF Saved
<1>8. \A k \in CPUs : InRegisters(k, p)' => InRegisters(k, p)
  BY <1>3, <1>6 DEF InRegisters
<1>9. ~Execing(p)'
  BY <1>3 DEF Execing
<1>10. RegistersOf(p)'
  BY <1>1, <1>2, <1>3, <1>7, <1>8, <1>9, FewerModes
<1> QED BY <1>4, <1>5, <1>10, OthersKeep

LEMMA ResumedLife ==
    ASSUME KeptInv, SchedulingInv', NEW c \in CPUs, Resumed(c), NEW p, p = cproc[c]
    PROVE  KeptInv'
<1>1. /\ cpc[c] = "fiber" /\ fiberOf[c] = p /\ p \in Procs /\ fpc[p] = "asleep"
      /\ current[c] = p
      /\ \A k \in CPUs \ {c} : cpc[k] # "fiber" \/ cproc[k] # p
  BY InsideFiber DEF KeptInv, SchedulingInv, ThreadInv, Resumed, InFiber
<1>2. StateOf(p) /\ RegistersOf(p) /\ Saved(p)
  BY <1>1 DEF KeptInv, StateInv, RegistersInv, Saved, AtWork
<1>3. /\ fpc'[p] = "awake" /\ state'[p] = "runningKernel"
      /\ \A x \in Procs \ {p} : fpc'[x] = fpc[x] /\ state'[x] = state[x]
      /\ UNCHANGED <<cpuVars, processor, kernelProcessor, mainFiber, handler,
                   inKernel, saveContext, context, regAX, useRegAX, frame,
                   queue, sleeping, ghostVars>>
  BY <1>1 DEF Resumed, KeptInv, SchedulingInv, TypeOK
<1>4. Concerns(c, {p})
  BY <1>1, <1>3 DEF Concerns
<1>5. Holds(c, p)' /\ ~Interrupted(c, p)' /\ \A k \in CPUs : ~Requeued(k, p)'
  BY <1>1, <1>3 DEF Holds, Interrupted, Requeued
<1>6. frame[p].prev \in {"running", "zombie"} /\ ~saveContext'[p]
  BY <1>1, <1>2, <1>3 DEF StateOf, RegistersOf
<1>7. StateOf(p)'
  BY <1>1, <1>3, <1>5, <1>6, HeldNow
<1>8. Saved(p)'
  BY <1>1, <1>3 DEF Saved, AtWork
<1>9. HasMemory(p)' => RestoredRegisters(p)' = Expected(p)'
  BY <1>2, <1>3 DEF RegistersOf, RestoredRegisters, Expected, HasMemory
<1> QED BY <1>1, <1>4, <1>6, <1>7, <1>8, <1>9, SavedNow, OthersKeep

LEMMA LeaveGuardLife ==
    ASSUME KeptInv, SchedulingInv', NEW c \in CPUs, LeaveGuard(c), NEW p, p = cproc[c]
    PROVE  KeptInv'
<1>1. /\ cpc[c] = "fiber" /\ fiberOf[c] = p /\ p \in Procs /\ fpc[p] = "unguard"
      /\ state[p] # "created" /\ p # NoProc
      /\ \/ current[c] = p /\ processor[p] = c
         \/ current[c] = NoProc /\ processor[p] = NoCpu
      /\ \A k \in CPUs \ {c} : cpc[k] # "fiber" \/ cproc[k] # p
      /\ \A k \in CPUs : cpc[k] \in {"urun", "user", "ienter"} => cproc[k] # p
  BY InsideFiber DEF KeptInv, SchedulingInv, ThreadInv, LeaveGuard, InFiber
<1>2. StateOf(p) /\ RegistersOf(p) /\ OnePlace(p)
  BY <1>1 DEF KeptInv, StateInv, RegistersInv, SchedulingInv, PlacesDisjoint
<1>3. frame[p].prev \in {"running", "zombie"}
  BY <1>1, <1>2 DEF StateOf
<1>4. /\ fpc'[p] = "finish"
      /\ state'[p] = IF state[p] = "runningKernel" THEN frame[p].prev ELSE state[p]
      /\ \A x \in Procs \ {p} : fpc'[x] = fpc[x] /\ state'[x] = state[x]
      /\ UNCHANGED <<cpuVars, processor, kernelProcessor, mainFiber, handler,
                   inKernel, saveContext, context, regAX, useRegAX, frame,
                   queue, sleeping, ghostVars>>
  BY <1>1 DEF LeaveGuard, KeptInv, SchedulingInv, TypeOK
<1>5. Concerns(c, {p})
  BY <1>1, <1>4 DEF Concerns
<1>6. \A k \in CPUs : ~Interrupted(k, p)' /\ ~Requeued(k, p)'
  BY <1>1, <1>4 DEF Interrupted, Requeued
<1>7. state[p] \in {"exec", "zombie"} => state'[p] = state[p]
  BY <1>4
<1>8. state'[p] # "created" /\ (state'[p] # "zombie" => state[p] # "zombie")
      /\ (state'[p] = "exec" => state[p] = "exec")
  BY <1>1, <1>3, <1>4
<1>9. \A k \in CPUs : InRegisters(k, p)' => InRegisters(k, p)
  BY <1>1, <1>4, <1>7, <1>8 DEF InRegisters, AtWork
<1>10. ~Execing(p)' /\ ~Execing(p)
  BY <1>1, <1>4 DEF Execing
<1>11. Saved(p)' => Saved(p)
  BY <1>1, <1>4, <1>8, <1>10 DEF Saved, AtWork
<1>12. RegistersOf(p)'
  BY <1>1, <1>2, <1>4, <1>8, <1>9, <1>10, <1>11, FewerModes
<1>13. StateOf(p)'
  <2>1. CASE current[c] = p
    <3>1. Holds(c, p) /\ Holds(c, p)'
      BY <1>1, <1>4, <2>1 DEF Holds
    <3>2. ~Dead(p) => state[p] # "asleep"
      BY <1>2, <3>1 DEF StateOf, OnePlace
    <3>3. ~Dead(p)' => state'[p] # "asleep"
      BY <1>1, <1>3, <1>4, <3>2 DEF Dead, HasMemory
    <3> QED BY <1>1, <1>4, <1>6, <3>1, <3>3, HeldNow
  <2>2. CASE current[c] = NoProc
    <3>1. state[p] \in {"runnableInUser", "zombie"}
      BY <1>1, <1>2, <2>2 DEF StateOf, Requeued
    <3>2. state'[p] = state[p]
      BY <1>4, <3>1
    <3> QED BY <1>2, <1>4, <1>6, <3>2 DEF StateOf, Dead, HasMemory, Runnable
  <2> QED BY <1>1, <2>1, <2>2
<1> QED BY <1>5, <1>12, <1>13, OthersKeep

LEMMA FiberLeaveLife ==
    ASSUME KeptInv, SchedulingInv', NEW c \in CPUs, FiberLeave(c), NEW p, p = cproc[c]
    PROVE  KeptInv'
<1>1. /\ cpc[c] = "fiber" /\ fiberOf[c] = p /\ p \in Procs /\ fpc[p] = "leave"
      /\ frame[p].main = c
      /\ \A k \in CPUs \ {c} : cpc[k] # "fiber" \/ cproc[k] # p
      /\ \A k \in CPUs : cpc[k] \in {"urun", "user", "ienter"} => cproc[k] # p
  BY InsideFiber DEF KeptInv, SchedulingInv, ThreadInv, FiberLeave, InFiber
<1>2. StateOf(p) /\ RegistersOf(p)
  BY <1>1 DEF KeptInv, StateInv, RegistersInv
<1>3. /\ fpc'[p] = "top" /\ cpc'[c] = "left"
      /\ \A k \in CPUs \ {c} :
             cpc'[k] = cpc[k] \/ (cpc[k] = "blocked" /\ cpc'[k] = "sched")
      /\ \A x \in Procs \ {p} : fpc'[x] = fpc[x]
      /\ UNCHANGED <<cproc, current, kernelQ, regs, procVars, frame,
                     queue, sleeping, ghostVars>>
  BY <1>1 DEF FiberLeave, SwitchToMain, Notified, KeptInv, SchedulingInv, TypeOK
<1>4. Concerns(c, {p})
  BY <1>1, <1>3 DEF Concerns, Busy
<1>5. StateOf(p)'
  BY <1>1, <1>2, <1>3 DEF StateOf, Interrupted, Requeued, Dead, HasMemory, Runnable
<1>6. \A k \in CPUs : \A S : ~AtWork(k, p, S)'
  BY <1>1, <1>3 DEF AtWork
<1>7. Saved(p)' => Saved(p)
  BY <1>3, <1>6 DEF Saved
<1>8. \A k \in CPUs : InRegisters(k, p)' => InRegisters(k, p)
  BY <1>3, <1>6 DEF InRegisters
<1>9. ~Execing(p)'
  BY <1>3 DEF Execing
<1>10. RegistersOf(p)'
  BY <1>1, <1>2, <1>3, <1>7, <1>8, <1>9, FewerModes
<1> QED BY <1>4, <1>5, <1>10, OthersKeep

\* The registers are saved where they are the ones of the processor, and only there.
LEMMA RequeueLife ==
    ASSUME KeptInv, SchedulingInv', NEW c \in CPUs, NEW p \in Procs, NEW save \in BOOLEAN,
           NEW to \in {"unguard", "leave"},
           cpc[c] = "fiber", cproc[c] = p,
           \/ fpc[p] = "handle" /\ to = "unguard"
           \/ fpc[p] = "finish" /\ to = "leave",
           current[c] = p, state[p] # "zombie",
           \/ InRegisters(c, p) /\ save
           \/ Saved(p) /\ ~save,
           ResetCurrentProcess(c, save, FALSE),
           AddRunnableProcess(p, "runnableInUser", c, "fiber"),
           fpc' = [fpc EXCEPT ![p] = to],
           UNCHANGED <<cproc, kernelQ, regs, fiberOf, mainFiber, handler, inKernel,
                       regAX, useRegAX, frame, sleeping, ghostVars>>
    PROVE  KeptInv'
<1>1. TypeOK /\ "fiber" \in CpuPc /\ "runnableInUser" \in ProcessState
  BY DEF KeptInv, SchedulingInv, CpuPc, ProcessState
<1>2. /\ \A k \in CPUs \ {c} : cpc[k] # "fiber" \/ cproc[k] # p
      /\ \A k \in CPUs : cpc[k] \in {"urun", "user", "ienter"} => cproc[k] # p
  BY InsideFiber DEF KeptInv
<1>3. StateOf(p) /\ RegistersOf(p) /\ OnePlace(p) /\ Holds(c, p)
  BY DEF KeptInv, StateInv, RegistersInv, SchedulingInv, PlacesDisjoint, Holds
<1>4. /\ OthersStay(c) /\ cpc'[c] = "fiber"
      /\ state' = [state EXCEPT ![p] = "runnableInUser"]
      /\ Elements(queue') = Elements(queue) \cup {p}
  <2>1. Holds(c, p) /\ ~InQueue(p) /\ Distinct(queue)
    BY <1>3 DEF KeptInv, SchedulingInv, PlacesDisjoint, OnePlace
  <2> QED BY <1>1, <2>1, QueueOne
<1>5. /\ context'[p] = IF save THEN regs[c] ELSE context[p]
      /\ current'[c] = NoProc
      /\ \A k \in CPUs \ {c} : current'[k] = current[k]
      /\ \A x \in Procs \ {p} :
             /\ context'[x] = context[x] /\ saveContext'[x] = saveContext[x]
             /\ kernelProcessor'[x] = kernelProcessor[x]
  <2>1. /\ context'[p] = IF save THEN regs[c] ELSE context[p]
        /\ current'[c] = NoProc
        /\ \A k \in CPUs \ {c} : current'[k] = current[k]
    BY <1>1 DEF TypeOK, ResetCurrentProcess
  <2>2. ASSUME NEW x \in Procs \ {p}
        PROVE  /\ context'[x] = context[x] /\ saveContext'[x] = saveContext[x]
               /\ kernelProcessor'[x] = kernelProcessor[x]
    BY <1>1 DEF TypeOK, ResetCurrentProcess
  <2> QED BY <2>1, <2>2
<1>6. /\ state'[p] = "runnableInUser" /\ fpc'[p] = to
      /\ \A x \in Procs \ {p} : state'[x] = state[x] /\ fpc'[x] = fpc[x]
  BY <1>1, <1>4 DEF TypeOK
<1>7. Concerns(c, {p})
  BY <1>4, <1>5, <1>6 DEF Concerns, OthersStay
<1>8. Saved(p)'
  BY <1>4 DEF Saved
<1>9. HasMemory(p)' => RestoredRegisters(p)' = Expected(p)'
  <2>1. CASE InRegisters(c, p) /\ save
    <3>1. ~useRegAX[p] /\ regs[c] = Expected(p)
      BY <1>3, <2>1 DEF RegistersOf
    <3>2. ~useRegAX'[p] /\ context'[p] = Expected(p)'
      BY <1>5, <2>1, <3>1 DEF Expected
    <3>3. Expected(p)' = [owner |-> p, image |-> image'[p], ax |-> ax'[p]]
      BY DEF Expected
    <3> QED BY <3>2, <3>3 DEF RestoredRegisters
  <2>2. CASE Saved(p) /\ ~save
    <3>1. HasMemory(p) => RestoredRegisters(p) = Expected(p)
      BY <1>3, <2>2 DEF RegistersOf
    <3> QED BY <1>5, <2>2, <3>1 DEF RestoredRegisters, Expected, HasMemory
  <2> QED BY <2>1, <2>2
<1>10. RegistersOf(p)'
  BY <1>6, <1>8, <1>9, SavedNow
<1>11. StateOf(p)'
  <2>1. InQueue(p)' /\ OnePlace(p)'
    BY <1>4 DEF SchedulingInv, PlacesDisjoint
  <2>2. \A k \in CPUs : ~Interrupted(k, p)'
    BY <1>2, <1>4, <1>6 DEF Interrupted, OthersStay
  <2>3. /\ \A e \in Events : ~Asleep(e, p)'
        /\ \A k \in CPUs : ~InKernelQ(k, p)'
    BY <2>1 DEF OnePlace
  <2>4. fpc'[p] = "unguard" => (frame[p].prev)' \in {"running", "zombie"}
    BY <1>3, <1>6 DEF StateOf
  <2> QED BY <1>6, <2>2, <2>3, <2>4 DEF StateOf, Runnable
<1> QED BY <1>7, <1>10, <1>11, OthersKeep

\* A process that has exited, or that its handler took off the processor, goes on.
LEMMA AdvanceLife ==
    ASSUME KeptInv, SchedulingInv', NEW c \in CPUs, NEW p \in Procs, NEW to,
           cpc[c] = "fiber", cproc[c] = p,
           \/ fpc[p] = "handle" /\ to = "unguard" /\ current[c] = p
           \/ fpc[p] = "finish" /\ to = "leave",
           state[p] = "zombie" \/ current[c] = NoProc,
           fpc' = [fpc EXCEPT ![p] = to],
           UNCHANGED <<cpuVars, procVars, frame, queue, sleeping, ghostVars>>
    PROVE  KeptInv'
<1>1. /\ \A k \in CPUs \ {c} : cpc[k] # "fiber" \/ cproc[k] # p
      /\ p # NoProc
  BY InsideFiber DEF KeptInv
<1>2. StateOf(p) /\ RegistersOf(p)
  BY DEF KeptInv, StateInv, RegistersInv
<1>3. /\ fpc'[p] = to
      /\ \A x \in Procs \ {p} : fpc'[x] = fpc[x]
  BY DEF KeptInv, SchedulingInv, TypeOK
<1>4. Concerns(c, {p})
  BY <1>3 DEF Concerns
<1>5. StateOf(p)'
  BY <1>1, <1>2, <1>3 DEF StateOf, Interrupted, Requeued, Dead, HasMemory, Runnable
<1>6. \A k \in CPUs : /\ \A S : AtWork(k, p, S)' => k = c /\ current[c] = p
                      /\ InRegisters(k, p)' => InRegisters(k, p)
  BY <1>1, <1>3 DEF AtWork, InRegisters
<1>7. ~Execing(p)'
  BY <1>3 DEF Execing
<1>8. Saved(p)' => Saved(p)
  BY <1>1, <1>3, <1>6 DEF Saved, AtWork
<1>9. RegistersOf(p)'
  BY <1>2, <1>3, <1>6, <1>7, <1>8, FewerModes
<1> QED BY <1>4, <1>5, <1>9, OthersKeep

LEMMA ClockHandleLife ==
    ASSUME KeptInv, SchedulingInv', NEW c \in CPUs, ClockHandle(c), NEW p, p = cproc[c]
    PROVE  KeptInv'
<1>1. /\ cpc[c] = "fiber" /\ fiberOf[c] = p /\ p \in Procs /\ fpc[p] = "handle"
      /\ frame[p].processor = c /\ current[c] = p /\ p # NoProc
  BY InsideFiber DEF KeptInv, SchedulingInv, ThreadInv, ClockHandle, InFiber
<1>2. InRegisters(c, p) /\ RegistersOf(p) /\ StateOf(p) /\ saveContext[p] = TRUE
  <2>1. InRegisters(c, p) /\ RegistersOf(p) /\ StateOf(p)
    BY <1>1 DEF KeptInv, StateInv, RegistersInv, InRegisters, AtWork
  <2>2. saveContext[p] \in BOOLEAN
    BY <1>1 DEF KeptInv, SchedulingInv, TypeOK
  <2> QED BY <2>1, <2>2 DEF RegistersOf
<1>3. state[p] \in {"runningKernel", "zombie"}
  BY <1>1, <1>2 DEF StateOf
<1>4. CASE state[p] # "zombie"
  <2>1. /\ ResetCurrentProcess(c, TRUE, FALSE)
        /\ AddRunnableProcess(p, "runnableInUser", c, "fiber")
        /\ fpc' = [fpc EXCEPT ![p] = "unguard"]
        /\ UNCHANGED <<cproc, kernelQ, regs, fiberOf, mainFiber, handler,
                       inKernel, regAX, useRegAX, frame, sleeping, ghostVars>>
    BY <1>1, <1>2, <1>3, <1>4 DEF ClockHandle
  <2> QED  BY <1>1, <1>2, <1>4, <2>1, RequeueLife
<1>5. CASE state[p] = "zombie"
  <2>1. /\ fpc' = [fpc EXCEPT ![p] = "unguard"]
        /\ UNCHANGED <<cpuVars, procVars, frame, queue, sleeping, ghostVars>>
    BY <1>1, <1>5 DEF ClockHandle
  <2> QED  BY <1>1, <1>5, <2>1, AdvanceLife
<1> QED  BY <1>4, <1>5

LEMMA FinishLife ==
    ASSUME KeptInv, SchedulingInv', NEW c \in CPUs, Finish(c), NEW p, p = cproc[c]
    PROVE  KeptInv'
<1>1. /\ cpc[c] = "fiber" /\ fiberOf[c] = p /\ p \in Procs /\ fpc[p] = "finish"
      /\ frame[p].processor = c /\ p # NoProc /\ c # NoCpu
      /\ \/ current[c] = p /\ processor[p] = c
         \/ current[c] = NoProc /\ processor[p] = NoCpu
  BY InsideFiber DEF KeptInv, SchedulingInv, ThreadInv, Finish, InFiber
<1>2. saveContext[p] \in BOOLEAN /\ MustSave(p) \in BOOLEAN
  BY <1>1 DEF KeptInv, SchedulingInv, TypeOK, MustSave
<1>3. CASE state[p] # "zombie" /\ processor[p] = c
  <2>1. /\ ResetCurrentProcess(c, MustSave(p), FALSE)
        /\ AddRunnableProcess(p, "runnableInUser", c, "fiber")
        /\ fpc' = [fpc EXCEPT ![p] = "leave"]
        /\ UNCHANGED <<cproc, kernelQ, regs, fiberOf, mainFiber, handler,
                       inKernel, regAX, useRegAX, frame, sleeping, ghostVars>>
    BY <1>1, <1>3 DEF Finish
  <2>2. current[c] = p
    BY <1>1, <1>3
  <2>3. \/ InRegisters(c, p) /\ MustSave(p)
        \/ Saved(p) /\ ~MustSave(p)
    BY <1>1, <1>3, <2>2 DEF InRegisters, Saved, AtWork, MustSave, Execing
  <2> QED  BY <1>1, <1>2, <1>3, <2>1, <2>2, <2>3, RequeueLife
<1>4. CASE state[p] = "zombie" \/ processor[p] # c
  <2>1. /\ fpc' = [fpc EXCEPT ![p] = "leave"]
        /\ UNCHANGED <<cpuVars, procVars, frame, queue, sleeping, ghostVars>>
    BY <1>1, <1>4 DEF Finish
  <2>2. state[p] = "zombie" \/ current[c] = NoProc
    BY <1>1, <1>4
  <2> QED  BY <1>1, <2>1, <2>2, AdvanceLife
<1> QED  BY <1>3, <1>4

\* A handler ends with an exception, and its process is without memory.
LEMMA FiberThrowsLife ==
    ASSUME KeptInv, SchedulingInv', NEW c \in CPUs, FiberThrows(c), NEW p, p = cproc[c]
    PROVE  KeptInv'
<1>1. /\ cpc[c] = "fiber" /\ fiberOf[c] = p /\ p \in Procs /\ fpc[p] \in {"handle", "awake"}
      /\ frame[p].processor = c /\ frame[p].main = c /\ current[c] = p
      /\ state[p] # "created"
      /\ \A k \in CPUs \ {c} : cpc[k] # "fiber" \/ cproc[k] # p
      /\ \A k \in CPUs : cpc[k] \in {"urun", "user", "ienter"} => cproc[k] # p
  BY InsideFiber DEF KeptInv, SchedulingInv, ThreadInv, FiberThrows
<1>2. StateOf(p) /\ RegistersOf(p)
  BY <1>1 DEF KeptInv, StateInv, RegistersInv
<1>3. /\ cpc'[c] = "left" /\ fpc'[p] = "top" /\ ~HasMemory(p)
      /\ state'[p] = IF state[p] = "runningKernel" THEN frame[p].prev ELSE state[p]
      /\ \A k \in CPUs \ {c} : cpc'[k] = cpc[k]
      /\ \A x \in Procs \ {p} : fpc'[x] = fpc[x] /\ state'[x] = state[x]
      /\ UNCHANGED <<cproc, current, kernelQ, regs, processor, kernelProcessor,
                     mainFiber, handler, inKernel, saveContext, context, regAX,
                     useRegAX, frame, queue, sleeping, ghostVars>>
  BY <1>1 DEF FiberThrows, SwitchToMain, KeptInv, SchedulingInv, TypeOK
<1>4. Concerns(c, {p})
  BY <1>1, <1>3 DEF Concerns, Busy, Carrying
<1>5. \A k \in CPUs : ~Interrupted(k, p)' /\ ~Requeued(k, p)' /\ ~InRegisters(k, p)'
  BY <1>1, <1>3 DEF Interrupted, Requeued, InRegisters, AtWork
<1>6. state'[p] # "created"
  BY <1>1, <1>2, <1>3 DEF StateOf
<1>7. StateOf(p)'
  BY <1>3, <1>5 DEF StateOf, Dead, HasMemory
<1>8. RegistersOf(p)'
  BY <1>3, <1>5, <1>6 DEF RegistersOf, HasMemory, Execing
<1> QED BY <1>4, <1>7, <1>8, OthersKeep

\* A process on a processor, in its kernel fiber, is on no list.
LEMMA SavedAtWork ==
    ASSUME SchedulingInv', NEW p \in Procs, NEW c \in CPUs, Saved(p)',
           cpc'[c] = "fiber", cproc'[c] = p, current'[c] = p
    PROVE  \/ fpc'[p] \in {"asleep", "awake"}
           \/ /\ fpc'[p] \in {"done", "unguard", "finish"} /\ ~Execing(p)'
              /\ state'[p] = "exec" \/ (state'[p] # "zombie" /\ ~saveContext'[p])
<1>1. OnePlace(p)' /\ Holds(c, p)'
  BY DEF SchedulingInv, PlacesDisjoint, Holds
<1>2. PICK k \in CPUs :
         \/ cproc'[k] = p /\ cpc'[k] \in {"kresume", "kenter", "prepare", "uwait", "urun"}
         \/ AtWork(k, p, {"asleep", "awake"})'
         \/ /\ AtWork(k, p, {"done", "unguard", "finish"})' /\ ~Execing(p)'
            /\ state'[p] = "exec" \/ (state'[p] # "zombie" /\ ~saveContext'[p])
  BY <1>1 DEF Saved, OnePlace
<1>3. ~(cproc'[k] = p /\ cpc'[k] \in {"kresume", "kenter", "prepare", "uwait", "urun"})
  <2> SUFFICES ASSUME cproc'[k] = p, cpc'[k] \in {"kresume", "kenter", "prepare", "uwait", "urun"}
               PROVE  FALSE
    OBVIOUS
  <2>1. Holds(k, p)' /\ k # c
    BY DEF SchedulingInv, ThreadInv, Holds
  <2> QED BY <1>1, <2>1 DEF OnePlace
<1> QED BY <1>2, <1>3 DEF AtWork

\* Exec replaces the saved registers, and its result is still to come.
LEMMA TrapExecLife ==
    ASSUME KeptInv, SchedulingInv', NEW c \in CPUs, TrapExec(c), NEW p, p = cproc[c]
    PROVE  KeptInv'
<1>1. /\ cpc[c] = "fiber" /\ fiberOf[c] = p /\ p \in Procs /\ fpc[p] \in {"handle", "awake"}
      /\ current[c] = p
      /\ \A k \in CPUs \ {c} : cpc[k] # "fiber" \/ cproc[k] # p
      /\ \A k \in CPUs : cpc[k] \in {"urun", "user", "ienter"} => cproc[k] # p
  BY InsideFiber DEF KeptInv, SchedulingInv, ThreadInv, TrapExec, InTrap
<1>2. StateOf(p) /\ RegistersOf(p)
  BY <1>1 DEF KeptInv, StateInv, RegistersInv
<1>3. saveContext[p] => ~useRegAX[p]
  BY <1>1, <1>2 DEF RegistersOf, InRegisters, AtWork
<1>4. ax[p] \in Bit /\ image[p] \in Bit
  BY <1>1 DEF KeptInv, SchedulingInv, TypeOK
<1>5. /\ fpc'[p] = "done" /\ state'[p] = "exec"
      /\ context'[p] = [owner |-> p, image |-> image'[p], ax |-> 1 - ax[p]]
      /\ \A x \in Procs \ {p} : /\ fpc'[x] = fpc[x] /\ state'[x] = state[x]
                                /\ context'[x] = context[x] /\ image'[x] = image[x]
      /\ UNCHANGED <<cpuVars, processor, kernelProcessor, mainFiber, handler,
                   inKernel, saveContext, regAX, useRegAX, frame, queue,
                   sleeping, ax>>
  BY <1>1 DEF TrapExec, KeptInv, SchedulingInv, TypeOK
<1>6. Concerns(c, {p})
  BY <1>1, <1>5 DEF Concerns
<1>7. Holds(c, p)' /\ \A k \in CPUs : ~Interrupted(k, p)' /\ ~Requeued(k, p)'
  BY <1>1, <1>5 DEF Holds, Interrupted, Requeued
<1>8. StateOf(p)'
  <2>1. frame[p].prev \in {"running", "zombie"}
    BY <1>1, <1>2 DEF StateOf
  <2> QED BY <1>1, <1>5, <1>7, <2>1, HeldNow
<1>9. Execing(p)'
  BY <1>5 DEF Execing
<1>10. \A k \in CPUs : ~InRegisters(k, p)'
  BY <1>1, <1>5 DEF InRegisters, AtWork
<1>11. ~Saved(p)'
  BY <1>1, <1>5, <1>9, SavedAtWork
<1>12. RegistersOf(p)'
  BY <1>3, <1>5, <1>10, <1>11 DEF RegistersOf
<1> QED BY <1>6, <1>8, <1>12, OthersKeep

\* The result of a trap goes where the registers of the process are.
LEMMA TrapReturnLife ==
    ASSUME KeptInv, SchedulingInv', NEW c \in CPUs, TrapReturn(c), NEW p, p = cproc[c]
    PROVE  KeptInv'
<1>1. /\ cpc[c] = "fiber" /\ fiberOf[c] = p /\ p \in Procs
      /\ fpc[p] \in {"handle", "awake", "done"}
      /\ frame[p].processor = c /\ current[c] = p /\ p # NoProc /\ state[p] # "created"
      /\ \A k \in CPUs \ {c} : cpc[k] # "fiber" \/ cproc[k] # p
      /\ \A k \in CPUs : cpc[k] \in {"urun", "user", "ienter"} => cproc[k] # p
  BY InsideFiber DEF KeptInv, SchedulingInv, ThreadInv, TrapReturn
<1>2. StateOf(p) /\ RegistersOf(p)
  BY <1>1 DEF KeptInv, StateInv, RegistersInv
<1>3. PICK r : r = 1 - ax[p]
  OBVIOUS
<1>4. /\ fpc'[p] = "unguard" /\ ax'[p] = r
      /\ \A x \in Procs \ {p} : fpc'[x] = fpc[x] /\ ax'[x] = ax[x]
      /\ UNCHANGED <<cpc, cproc, current, kernelQ, fiberOf, state,
                   processor, kernelProcessor, mainFiber, handler, inKernel,
                   saveContext, context, frame, queue, sleeping, image>>
  BY <1>1, <1>3 DEF TrapReturn, KeptInv, SchedulingInv, TypeOK
<1>5. /\ \A k \in CPUs \ {c} : regs'[k] = regs[k]
      /\ \A x \in Procs \ {p} : regAX'[x] = regAX[x] /\ useRegAX'[x] = useRegAX[x]
  BY <1>1 DEF TrapReturn, KeptInv, SchedulingInv, TypeOK
<1>6. saveContext[p] => /\ regs'[c] = [regs[c] EXCEPT !.ax = r]
                        /\ regAX'[p] = regAX[p] /\ useRegAX'[p] = useRegAX[p]
  <2> SUFFICES ASSUME saveContext[p]
               PROVE  /\ regs'[c] = [regs[c] EXCEPT !.ax = r]
                      /\ regAX'[p] = regAX[p] /\ useRegAX'[p] = useRegAX[p]
    OBVIOUS
  <2>1. regs' = [regs EXCEPT ![c].ax = r] /\ UNCHANGED <<regAX, useRegAX>>
    BY <1>1, <1>3 DEF TrapReturn
  <2>2. regs \in [CPUs -> Registers]
    BY DEF KeptInv, SchedulingInv, TypeOK
  <2> QED BY <2>1, <2>2
<1>7. ~saveContext[p] => regAX'[p] = r /\ useRegAX'[p] = TRUE /\ regs' = regs
  BY <1>1, <1>3 DEF TrapReturn, KeptInv, SchedulingInv, TypeOK
<1>8. Concerns(c, {p})
  BY <1>1, <1>4, <1>5 DEF Concerns
<1>9. Holds(c, p) /\ Holds(c, p)' /\ \A k \in CPUs : ~Interrupted(k, p)' /\ ~Requeued(k, p)'
  BY <1>1, <1>4 DEF Holds, Interrupted, Requeued
<1>10. StateOf(p)'
  <2>1. (frame[p].prev)' \in {"running", "zombie"}
    BY <1>1, <1>2, <1>4 DEF StateOf
  <2>2. OnePlace(p)
    BY <1>1 DEF KeptInv, SchedulingInv, PlacesDisjoint
  <2>3. ~Dead(p)' => state'[p] # "asleep"
    BY <1>1, <1>2, <1>4, <1>9, <2>2 DEF StateOf, OnePlace, Dead, HasMemory
  <2> QED BY <1>1, <1>4, <1>9, <2>1, <2>3, HeldNow
<1>11. CASE state[p] = "zombie"
  <2>1. ~Saved(p)'
    BY <1>1, <1>4, <1>11, SavedAtWork
  <2>2. ~Execing(p)' /\ \A k \in CPUs : ~InRegisters(k, p)'
    BY <1>1, <1>4, <1>11 DEF Execing, InRegisters, AtWork
  <2>3. RegistersOf(p)'
    BY <1>4, <1>11, <2>1, <2>2 DEF RegistersOf
  <2> QED BY <1>8, <1>10, <2>3, OthersKeep
<1>12. CASE Execing(p)
  <2>1. HasMemory(p) => /\ context[p] = [owner |-> p, image |-> image[p], ax |-> r]
                        /\ saveContext[p] => ~useRegAX[p]
    BY <1>2, <1>3, <1>12 DEF RegistersOf
  <2>2. Saved(p)'
    BY <1>1, <1>4, <1>12 DEF Saved, AtWork, Execing
  <2>3. HasMemory(p) => Expected(p)' = context'[p]
    BY <1>4, <2>1 DEF Expected
  <2>4. HasMemory(p) => RestoredRegisters(p)' = context'[p]
    <3> SUFFICES ASSUME HasMemory(p) PROVE RestoredRegisters(p)' = context'[p]
      OBVIOUS
    <3>1. context'[p].ax = r /\ context'[p] = [owner |-> p, image |-> image[p], ax |-> r]
      BY <1>4, <2>1
    <3>2. CASE saveContext[p]
      BY <1>6, <2>1, <3>1, <3>2 DEF RestoredRegisters
    <3>3. CASE ~saveContext[p]
      BY <1>7, <3>1, <3>3 DEF RestoredRegisters
    <3> QED BY <3>2, <3>3
  <2>5. HasMemory(p)' => RestoredRegisters(p)' = Expected(p)'
    BY <1>4, <2>3, <2>4 DEF HasMemory
  <2>6. RegistersOf(p)'
    BY <1>1, <1>4, <2>2, <2>5, SavedNow
  <2> QED BY <1>8, <1>10, <2>6, OthersKeep
<1>13. CASE ~Execing(p) /\ state[p] # "zombie" /\ saveContext[p]
  <2>1. state[p] # "exec"
    BY <1>1, <1>2, <1>13 DEF Execing, StateOf, RegistersOf
  <2>2. InRegisters(c, p)
    BY <1>1, <1>2, <1>13, <2>1 DEF InRegisters, AtWork, RegistersOf
  <2>3. InRegisters(c, p)'
    BY <1>1, <1>4, <1>13, <2>1 DEF InRegisters, AtWork
  <2>4. ~useRegAX[p] /\ regs[c] = [owner |-> p, image |-> image[p], ax |-> ax[p]]
    BY <1>2, <2>2 DEF RegistersOf, Expected
  <2>5. regs'[c] = [owner |-> p, image |-> image[p], ax |-> r]
    BY <1>6, <1>13, <2>4
  <2>6. regs'[c] = Expected(p)'
    BY <1>4, <2>5 DEF Expected
  <2>7. RegistersOf(p)'
    BY <1>1, <1>4, <1>6, <1>13, <2>3, <2>4, <2>6, InRegistersNow
  <2> QED BY <1>8, <1>10, <2>7, OthersKeep
<1>14. CASE ~Execing(p) /\ state[p] # "zombie" /\ ~saveContext[p]
  <2>1. fpc[p] # "handle"
    BY <1>1, <1>2, <1>14 DEF InRegisters, AtWork, RegistersOf
  <2>2. Saved(p)
    BY <1>1, <1>14, <2>1 DEF Saved, AtWork
  <2>3. Saved(p)'
    BY <1>1, <1>4, <1>14 DEF Saved, AtWork, Execing
  <2>4. /\ HasMemory(p) =>
              RestoredRegisters(p) = [owner |-> p, image |-> image[p], ax |-> ax[p]]
        /\ context[p] \in Registers
    BY <1>1, <1>2, <2>2 DEF RegistersOf, Expected, KeptInv, SchedulingInv, TypeOK
  <2>5. HasMemory(p) => context[p].owner = p /\ context[p].image = image[p]
    BY <2>4 DEF RestoredRegisters, Registers
  <2>6. RestoredRegisters(p)' = [context[p] EXCEPT !.ax = r]
    BY <1>4, <1>7, <1>14 DEF RestoredRegisters
  <2>7. HasMemory(p) =>
            [context[p] EXCEPT !.ax = r] = [owner |-> p, image |-> image[p], ax |-> r]
    BY <2>4, <2>5 DEF Registers
  <2>8. HasMemory(p)' => RestoredRegisters(p)' = Expected(p)'
    BY <1>4, <2>6, <2>7 DEF Expected, HasMemory
  <2>9. RegistersOf(p)'
    BY <1>1, <1>4, <2>3, <2>8, SavedNow
  <2> QED BY <1>8, <1>10, <2>9, OthersKeep
<1> QED BY <1>11, <1>12, <1>13, <1>14

\* Sleep saves the registers, unless they were saved when the process slept before.
LEMMA TrapSleepLife ==
    ASSUME KeptInv, SchedulingInv', NEW c \in CPUs, NEW e \in Events, TrapSleep(c, e),
           NEW p, p = cproc[c]
    PROVE  KeptInv'
<1>1. /\ cpc[c] = "fiber" /\ fiberOf[c] = p /\ p \in Procs
      /\ fpc[p] \in {"handle", "awake"}
      /\ current[c] = p /\ processor[p] = c /\ p # NoProc /\ c # NoCpu
      /\ \A k \in CPUs \ {c} : cpc[k] # "fiber" \/ cproc[k] # p
      /\ \A k \in CPUs : cpc[k] \in {"urun", "user", "ienter"} => cproc[k] # p
  BY InsideFiber DEF KeptInv, SchedulingInv, ThreadInv, TrapSleep, InTrap
<1>2. StateOf(p) /\ RegistersOf(p)
  BY <1>1 DEF KeptInv, StateInv, RegistersInv
<1>3. TypeOK /\ saveContext[p] \in BOOLEAN
  BY <1>1 DEF KeptInv, SchedulingInv, TypeOK
<1>4. /\ context'[p] = IF saveContext[p] THEN regs[c] ELSE context[p]
      /\ saveContext'[p] <=> saveContext[p] /\ ~saveContext[p]
      /\ current'[c] = NoProc
      /\ \A k \in CPUs \ {c} : current'[k] = current[k]
      /\ \A x \in Procs \ {p} :
             /\ context'[x] = context[x] /\ saveContext'[x] = saveContext[x]
             /\ kernelProcessor'[x] = kernelProcessor[x]
  <2>1. ResetCurrentProcess(c, saveContext[p], TRUE)
    BY <1>1 DEF TrapSleep
  <2>2. /\ context'[p] = IF saveContext[p] THEN regs[c] ELSE context[p]
        /\ saveContext'[p] <=> saveContext[p] /\ ~saveContext[p]
        /\ current'[c] = NoProc
        /\ \A k \in CPUs \ {c} : current'[k] = current[k]
    BY <1>1, <1>3, <2>1 DEF TypeOK, ResetCurrentProcess
  <2>3. ASSUME NEW x \in Procs \ {p}
        PROVE  /\ context'[x] = context[x] /\ saveContext'[x] = saveContext[x]
               /\ kernelProcessor'[x] = kernelProcessor[x]
    BY <1>1, <1>3, <2>1 DEF TypeOK, ResetCurrentProcess
  <2> QED BY <2>2, <2>3
<1>5. /\ cpc' = IF WorkAvailable THEN Notified ELSE cpc
      /\ sleeping' = [sleeping EXCEPT ![e] = @ \cup {p}]
      /\ state' = [state EXCEPT ![p] = "asleep"]
      /\ fpc' = [fpc EXCEPT ![p] = "release"]
      /\ UNCHANGED <<cproc, kernelQ, regs, fiberOf, mainFiber, handler,
                     inKernel, regAX, useRegAX, frame, queue, ghostVars>>
  BY <1>1 DEF TrapSleep
<1>6. /\ cpc'[c] = "fiber"
      /\ \A k \in CPUs :
             cpc'[k] = cpc[k] \/ (cpc[k] = "blocked" /\ cpc'[k] = "sched")
  BY <1>1, <1>3, <1>5 DEF TypeOK, Notified, CpuPc
<1>7. /\ state'[p] = "asleep" /\ fpc'[p] = "release" /\ Asleep(e, p)'
      /\ \A x \in Procs \ {p} : state'[x] = state[x] /\ fpc'[x] = fpc[x]
      /\ \A x \in Procs \ {p}, f \in Events : Asleep(f, x)' <=> Asleep(f, x)
  BY <1>1, <1>3, <1>5 DEF TypeOK
<1>8. Concerns(c, {p})
  BY <1>1, <1>4, <1>5, <1>6, <1>7 DEF Concerns
<1>9. Saved(p)' /\ ~saveContext'[p]
  BY <1>4, <1>7 DEF Saved
<1>10. HasMemory(p)' => RestoredRegisters(p)' = Expected(p)'
  <2>1. CASE fpc[p] = "handle"
    <3>1. saveContext[p] /\ ~useRegAX[p] /\ regs[c] = Expected(p)
      BY <1>1, <1>2, <2>1 DEF RegistersOf, InRegisters, AtWork
    <3>2. ~useRegAX'[p] /\ context'[p] = Expected(p)'
      BY <1>4, <1>5, <3>1 DEF Expected
    <3>3. Expected(p)' = [owner |-> p, image |-> image'[p], ax |-> ax'[p]]
      BY DEF Expected
    <3> QED BY <3>2, <3>3 DEF RestoredRegisters
  <2>2. CASE fpc[p] = "awake"
    <3>1. Saved(p) /\ ~saveContext[p]
      BY <1>1, <1>2, <2>2 DEF RegistersOf, Saved, AtWork
    <3>2. HasMemory(p) => RestoredRegisters(p) = Expected(p)
      BY <1>2, <3>1 DEF RegistersOf
    <3> QED BY <1>4, <1>5, <3>1, <3>2 DEF RestoredRegisters, Expected, HasMemory
  <2> QED BY <1>1, <2>1, <2>2
<1>11. RegistersOf(p)'
  BY <1>1, <1>9, <1>10, SavedNow
<1>12. StateOf(p)'
  <2>1. OnePlace(p)'
    BY <1>1 DEF SchedulingInv, PlacesDisjoint
  <2>2. ~InQueue(p)' /\ \A k \in CPUs : ~InKernelQ(k, p)'
    BY <1>7, <2>1 DEF OnePlace
  <2>3. \A k \in CPUs : ~Interrupted(k, p)' /\ ~Requeued(k, p)'
    BY <1>1, <1>5, <1>6, <1>7 DEF Interrupted, Requeued
  <2>4. (frame[p].prev)' \in {"running", "zombie"}
    BY <1>1, <1>2, <1>5 DEF StateOf
  <2> QED BY <1>7, <2>2, <2>3, <2>4 DEF StateOf
<1> QED BY <1>8, <1>11, <1>12, OthersKeep

LEMMA ChildOf ==
    ASSUME NEW k \in CPUs, regs[k] \in Registers, NEW q \in Procs
    PROVE  ChildRegisters(q, k) = [owner |-> q, image |-> regs[k].image, ax |-> 0]
<1> PICK r \in Registers : r = regs[k]
  OBVIOUS
<1> PICK v \in Bit : v = 0
  BY DEF Bit
<1> DEFINE t == [r EXCEPT !.owner = q, !.ax = v]
<1>1. t \in Registers
  BY SetOwnerAX, Zenon
<1>2. t.owner = q /\ t.image = r.image /\ t.ax = v
  BY DEF Registers
<1>3. t = ChildRegisters(q, k)
  BY DEF ChildRegisters
<1> HIDE DEF t
<1>4. t = [owner |-> t.owner, image |-> t.image, ax |-> t.ax]
  BY <1>1 DEF Registers
<1>5. t = [owner |-> q, image |-> regs[k].image, ax |-> 0]
  BY <1>2, <1>4
<1> QED BY <1>3, <1>5

\* The child of a fork starts with the registers of its parent.
LEMMA TrapForkLife ==
    ASSUME KeptInv, SchedulingInv', NEW c \in CPUs, NEW q \in Procs, TrapFork(c, q),
           NEW p, p = cproc[c]
    PROVE  KeptInv'
<1>1. /\ cpc[c] = "fiber" /\ fiberOf[c] = p /\ p \in Procs
      /\ fpc[p] = "handle" /\ state[p] # "created"
      /\ current[c] = p /\ processor[p] = c /\ p # NoProc /\ c # NoCpu
      /\ \A k \in CPUs \ {c} : cpc[k] # "fiber" \/ cproc[k] # p
      /\ \A k \in CPUs : cpc[k] \in {"urun", "user", "ienter"} => cproc[k] # p
  BY InsideFiber DEF KeptInv, SchedulingInv, ThreadInv, TrapFork, InTrap
<1>2. /\ state[q] = "created" /\ q # p /\ Unused(q)
      /\ StateOf(p) /\ RegistersOf(p) /\ StateOf(q) /\ RegistersOf(q)
      /\ InRegisters(c, p)
  BY <1>1 DEF TrapFork, KeptInv, SchedulingInv, CreatedNowhere, StateInv, RegistersInv,
              InRegisters, AtWork
<1>3. TypeOK /\ "fiber" \in CpuPc /\ "runnableInUser" \in ProcessState
  BY DEF KeptInv, SchedulingInv, CpuPc, ProcessState
<1>4. AddRunnableProcess(q, "runnableInUser", c, "fiber")
  BY DEF TrapFork
<1>5. /\ OthersStay(c) /\ cpc'[c] = "fiber"
      /\ state' = [state EXCEPT ![q] = "runnableInUser"]
      /\ Elements(queue') = Elements(queue) \cup {q}
  <2>1. ~InQueue(q) /\ Distinct(queue)
    BY <1>2 DEF Unused, KeptInv, SchedulingInv, PlacesDisjoint
  <2> QED BY <1>2, <1>3, <1>4, <2>1, QueueOne
<1>6. /\ fpc'[p] = "done" /\ fpc'[q] = fpc[q]
      /\ state'[q] = "runnableInUser" /\ state'[p] = state[p]
      /\ context'[q] = ChildRegisters(q, c) /\ context'[p] = context[p]
      /\ image'[q] = image[p] /\ image'[p] = image[p]
      /\ ax'[q] = 0 /\ ax'[p] = ax[p]
      /\ \A x \in Procs \ {p, q} :
             /\ state'[x] = state[x] /\ fpc'[x] = fpc[x]
             /\ context'[x] = context[x] /\ image'[x] = image[x] /\ ax'[x] = ax[x]
      /\ UNCHANGED <<cproc, current, kernelQ, regs, fiberOf,
                   kernelProcessor, mainFiber, handler, inKernel, saveContext,
                   regAX, useRegAX, frame, sleeping>>
  BY <1>1, <1>2, <1>3, <1>5 DEF TrapFork, TypeOK
<1>7. Concerns(c, {p, q})
  BY <1>1, <1>5, <1>6 DEF Concerns, OthersStay
<1>8. StateOf(q)' /\ RegistersOf(q)'
  <2>1. Saved(q)' /\ InQueue(q)' /\ OnePlace(q)'
    BY <1>5 DEF Saved, SchedulingInv, PlacesDisjoint
  <2>2. context'[q] = Expected(q)'
    <3>1. regs[c] = [owner |-> p, image |-> image[p], ax |-> ax[p]]
      BY <1>2 DEF RegistersOf, Expected
    <3>2. regs[c].image = image[p] /\ regs[c] \in Registers
      BY <1>3, <3>1 DEF TypeOK
    <3>3. ChildRegisters(q, c) = [owner |-> q, image |-> image[p], ax |-> 0]
      BY <3>2, ChildOf
    <3> QED BY <1>6, <3>3 DEF Expected
  <2>3. ~useRegAX'[q]
    BY <1>2, <1>6 DEF RegistersOf
  <2>4. Expected(q)' = [owner |-> q, image |-> image'[q], ax |-> ax'[q]]
    BY DEF Expected
  <2>5. HasMemory(q)' => RestoredRegisters(q)' = Expected(q)'
    BY <2>2, <2>3, <2>4 DEF RestoredRegisters
  <2>6. fpc'[q] = "none"
    BY <1>2, <1>6 DEF Unused
  <2>7. RegistersOf(q)'
    BY <2>1, <2>5, <2>6, SavedNow
  <2>8. \A k \in CPUs : ~Interrupted(k, q)' /\ ~Requeued(k, q)'
    BY <1>2, <1>5, <1>6 DEF Interrupted, Requeued, Unused, OthersStay, Carrying
  <2>9. /\ \A e \in Events : ~Asleep(e, q)'
        /\ \A k \in CPUs : ~InKernelQ(k, q)'
    BY <2>1 DEF OnePlace
  <2>10. StateOf(q)'
    BY <1>6, <2>6, <2>8, <2>9 DEF StateOf, Runnable
  <2> QED BY <2>7, <2>10
<1>9. state[p] \in {"runningKernel", "zombie"}
  BY <1>1, <1>2 DEF StateOf
<1>10. StateOf(p)'
  <2>1. Holds(c, p)' /\ \A k \in CPUs : ~Interrupted(k, p)' /\ ~Requeued(k, p)'
    BY <1>1, <1>5, <1>6 DEF Holds, Interrupted, Requeued, OthersStay
  <2>2. (frame[p].prev)' \in {"running", "zombie"}
    BY <1>1, <1>2, <1>6 DEF StateOf
  <2> QED BY <1>1, <1>6, <1>9, <2>1, <2>2, HeldNow
<1>11. RegistersOf(p)'
  <2>1. ~Execing(p)'
    BY <1>6, <1>9 DEF Execing
  <2>2. saveContext'[p]
    BY <1>2, <1>6 DEF RegistersOf
  <2>3. ~Saved(p)'
    BY <1>1, <1>5, <1>6, <1>9, <2>2, SavedAtWork
  <2>4. \A k \in CPUs : InRegisters(k, p)' => InRegisters(k, p)
    BY <1>1, <1>2, <1>5, <1>6 DEF InRegisters, AtWork, OthersStay
  <2> QED BY <1>1, <1>2, <1>6, <2>1, <2>3, <2>4, FewerModes
<1> QED BY <1>7, <1>8, <1>10, <1>11, OthersKeep

\* The processes that wake up stay where their registers are saved, one that is killed
\* loses them, and the trap that ends keeps its own.
LEMMA WakeupLife ==
    ASSUME KeptInv, SchedulingInv', NEW e \in Events, NEW s \in [Procs -> ProcessState],
           \A p \in Procs : \/ s[p] = state[p]
                            \/ s[p] = "zombie" /\ state[p] # "created",
           Wakeup(e, s),
           \A p \in Procs : \/ fpc'[p] = fpc[p]
                            \/ fpc[p] = "handle" /\ fpc'[p] = "done",
           \A p \in Procs : context'[p] = context[p] \/ context'[p] = Freed,
           UNCHANGED <<cproc, current, kernelQ, regs, fiberOf, processor,
                       kernelProcessor, mainFiber, handler, inKernel, saveContext,
                       regAX, useRegAX, frame, ghostVars>>
    PROVE  KeptInv'
<1>1. PICK W : W = Woken(e, s)
  OBVIOUS
<1>2. /\ \A k \in CPUs :
             cpc'[k] = cpc[k] \/ (cpc[k] = "blocked" /\ cpc'[k] = "sched")
      /\ sleeping' = [sleeping EXCEPT ![e] = {}]
      /\ state' = [p \in Procs |-> IF p \in W THEN "runnableInKernel" ELSE s[p]]
      /\ Elements(queue') = Elements(queue) \cup W
  <2>1. TypeOK  BY DEF KeptInv, SchedulingInv
  <2> QED  BY <1>1, <2>1, QueueWoken
<1>3. \A k \in CPUs : cpc'[k] \in Carrying \/ cpc[k] \in Carrying => cpc'[k] = cpc[k]
  BY <1>2 DEF Carrying
<1>4. ASSUME NEW p \in Procs PROVE StateOf(p)' /\ RegistersOf(p)'
  <2>1. StateOf(p) /\ RegistersOf(p) /\ OnePlace(p) /\ OnePlace(p)' /\ FiberAt(p)
    BY DEF KeptInv, StateInv, RegistersInv, SchedulingInv, PlacesDisjoint, FiberPlace
  <2>0. context'[p] = context[p] \/ ~HasMemory(p)'
    BY DEF HasMemory, Freed, ZeroRegisters
  <2>2. /\ p \in W => Asleep(e, p) /\ s[p] = state[p] /\ s[p] # "zombie" /\ InQueue(p)'
        /\ Asleep(e, p) /\ s[p] # "zombie" => p \in W
        /\ state'[p] = IF p \in W THEN "runnableInKernel" ELSE s[p]
    BY <1>1, <1>2 DEF Woken
  <2>3. /\ InQueue(p)' => InQueue(p) \/ p \in W
        /\ \A f \in Events : Asleep(f, p)' <=> Asleep(f, p) /\ f # e
    BY <1>2 DEF KeptInv, SchedulingInv, TypeOK
  <2>4. /\ p \in W => fpc[p] \in {"release", "asleep"} /\ fpc'[p] = fpc[p]
        /\ p \in W => \A k \in CPUs : ~Holds(k, p)
    BY <2>1, <2>2 DEF FiberAt, SuspendedOn, OnePlace
  <2>5. \A k \in CPUs : /\ Interrupted(k, p)' => Interrupted(k, p)
                        /\ Requeued(k, p)' => Requeued(k, p)
    BY <1>3 DEF Interrupted, Requeued, Carrying
  <2>6. \A k \in CPUs : Interrupted(k, p) => Holds(k, p)
    BY DEF Interrupted, Holds, KeptInv, SchedulingInv, ThreadInv, FiberInv
  <2>7. StateOf(p)'
    <3>1. CASE p \in W
      <4>1. /\ \A f \in Events : ~Asleep(f, p)'
            /\ \A k \in CPUs : ~InKernelQ(k, p)'
        BY <2>1, <2>2, <3>1 DEF OnePlace
      <4>2. \A k \in CPUs : ~Interrupted(k, p)' /\ ~Requeued(k, p)'
        BY <2>4, <2>5, <2>6, <3>1 DEF Requeued
      <4>3. (frame[p].prev)' \in {"running", "zombie"}
        BY <2>1, <2>4, <3>1 DEF StateOf
      <4> QED BY <2>2, <2>4, <3>1, <4>1, <4>2, <4>3 DEF StateOf, Runnable
    <3>2. CASE p \notin W /\ s[p] = "zombie"
      BY <2>1, <2>2, <2>5, <3>2 DEF StateOf, Dead
    <3>3. CASE p \notin W /\ s[p] # "zombie"
      <4>1. state'[p] = state[p] /\ ~Asleep(e, p)
        BY <2>2, <3>3
      <4> QED BY <2>0, <2>1, <2>3, <2>5, <3>3, <4>1 DEF StateOf, Dead, HasMemory, Runnable
    <3> QED BY <3>1, <3>2, <3>3
  <2>8. fpc[p] = "handle" => \E k \in CPUs : AtWork(k, p, {"handle"})
    BY <2>1 DEF FiberAt, AtWork, KeptInv, SchedulingInv, FiberInv
  <2>9. /\ fpc[p] = "handle" => saveContext[p] /\ state[p] \in {"runningKernel", "zombie"}
        /\ state'[p] = "exec" => state[p] = "exec"
        /\ state'[p] = "created" => state[p] = "created"
        /\ state[p] = "zombie" => state'[p] = "zombie"
        /\ state[p] = "exec" /\ p \notin W => state'[p] \in {"exec", "zombie"}
    <3>1. fpc[p] = "handle" => saveContext[p]
      BY <2>1, <2>8 DEF RegistersOf, InRegisters, AtWork
    <3>2. fpc[p] = "handle" => state[p] \in {"runningKernel", "zombie"}
      BY <2>1 DEF StateOf
    <3> QED BY <2>2, <3>1, <3>2
  <2>10. Execing(p)' => Execing(p)
    BY <2>9 DEF Execing
  <2>11. \A k \in CPUs : InRegisters(k, p)' => InRegisters(k, p)
    BY <1>3, <2>4, <2>9 DEF InRegisters, AtWork, Carrying
  <2>12. Saved(p)' => Saved(p)
    <3> SUFFICES ASSUME Saved(p)' PROVE Saved(p)
      OBVIOUS
    <3>1. CASE InQueue(p)' \/ \E f \in Events : Asleep(f, p)'
      BY <2>2, <2>3, <3>1 DEF Saved
    <3>2. ASSUME NEW k \in CPUs,
                 \/ InKernelQ(k, p)'
                 \/ cproc'[k] = p /\ cpc'[k] \in {"kresume", "kenter", "prepare", "uwait", "urun"}
                 \/ AtWork(k, p, {"asleep", "awake"})'
          PROVE  Saved(p)
      BY <1>3, <3>2 DEF Saved, AtWork, Carrying
    <3>3. ASSUME NEW k \in CPUs,
                 AtWork(k, p, {"done", "unguard", "finish"})', ~Execing(p)',
                 state'[p] = "exec" \/ (state'[p] # "zombie" /\ ~saveContext'[p])
          PROVE  Saved(p)
      <4>1. fpc[p] # "handle" /\ fpc'[p] = fpc[p]
        BY <2>9, <3>3
      <4>2. AtWork(k, p, {"done", "unguard", "finish"})
        BY <1>3, <3>3, <4>1 DEF AtWork, Carrying
      <4>3. state[p] = "exec" \/ (state[p] # "zombie" /\ ~saveContext[p])
        BY <2>9, <3>3
      <4>4. ~Execing(p)
        BY <2>2, <2>4, <3>3, <4>1 DEF Execing
      <4> QED BY <4>2, <4>3, <4>4 DEF Saved
    <3> QED BY <3>1, <3>2, <3>3 DEF Saved
  <2>13. RegistersOf(p)'
    BY <2>0, <2>1, <2>9, <2>10, <2>11, <2>12, FewerModes
  <2> QED BY <2>7, <2>13
<1> QED BY <1>4 DEF KeptInv, StateInv, RegistersInv

LEMMA TrapWakeupLife ==
    ASSUME KeptInv, SchedulingInv', NEW c \in CPUs, NEW e \in Events, TrapWakeup(c, e)
    PROVE  KeptInv'
<1>1. state \in [Procs -> ProcessState] /\ fpc' = fpc
  BY DEF KeptInv, SchedulingInv, TypeOK, TrapWakeup
<1> QED  BY <1>1, WakeupLife DEF TrapWakeup

LEMMA DeviceWakeupLife ==
    ASSUME KeptInv, SchedulingInv', NEW e \in Events, DeviceWakeup(e)
    PROVE  KeptInv'
<1>1. state \in [Procs -> ProcessState] /\ fpc' = fpc
  BY DEF KeptInv, SchedulingInv, TypeOK, DeviceWakeup
<1> QED  BY <1>1, WakeupLife DEF DeviceWakeup

LEMMA ExitLife ==
    ASSUME KeptInv, SchedulingInv', NEW p \in Procs, NEW q \in Procs, NEW e \in Events,
           Exit(p, e), state[p] # "created", fpc[q] = "handle",
           fpc' = [fpc EXCEPT ![q] = "done"]
    PROVE  KeptInv'
<1> DEFINE s == [state EXCEPT ![p] = "zombie"]
<1>1. /\ state \in [Procs -> ProcessState] /\ fpc \in [Procs -> FiberPc]
      /\ "zombie" \in ProcessState
  BY DEF KeptInv, SchedulingInv, TypeOK, ProcessState
<1>2. /\ s \in [Procs -> ProcessState]
      /\ \A x \in Procs : s[x] = state[x] \/ (s[x] = "zombie" /\ state[x] # "created")
  BY <1>1
<1>3. \A x \in Procs : fpc'[x] = fpc[x] \/ (fpc[x] = "handle" /\ fpc'[x] = "done")
  BY <1>1
<1>4. /\ Wakeup(e, s)
      /\ UNCHANGED <<cproc, current, kernelQ, regs, fiberOf, processor,
                     kernelProcessor, mainFiber, handler, inKernel, saveContext,
                     regAX, useRegAX, frame, ghostVars>>
  BY DEF Exit
<1>5. \A x \in Procs : context'[x] = context[x] \/ context'[x] = Freed
  BY DEF KeptInv, SchedulingInv, TypeOK, Exit
<1> HIDE DEF s
<1> QED  BY <1>2, <1>3, <1>4, <1>5, WakeupLife

LEMMA TrapExitLife ==
    ASSUME KeptInv, SchedulingInv', NEW c \in CPUs, NEW e \in Events, TrapExit(c, e)
    PROVE  KeptInv'
<1>1. fiberOf[c] \in Procs /\ fpc[fiberOf[c]] = "handle" /\ state[fiberOf[c]] # "created"
  BY DEF KeptInv, SchedulingInv, ThreadInv, Carrying, CreatedNowhere, Unused, TrapExit, InTrap
<1> QED  BY <1>1, ExitLife DEF TrapExit

LEMMA TrapKillLife ==
    ASSUME KeptInv, SchedulingInv', NEW c \in CPUs, NEW q \in Procs, NEW e \in Events,
           TrapKill(c, q, e)
    PROVE  KeptInv'
<1>1. fiberOf[c] \in Procs /\ fpc[fiberOf[c]] = "handle" /\ state[q] # "created"
  BY DEF KeptInv, SchedulingInv, ThreadInv, Carrying, TrapKill, InTrap
<1> QED  BY <1>1, ExitLife DEF TrapKill

\* A process that GetRunnableProcess finds goes to this thread, or to the one its
\* fiber belongs to.
LEMMA GetRunnableProcessLife ==
    ASSUME KeptInv, SchedulingInv', NEW c \in CPUs, GetRunnableProcess(c)
    PROVE  KeptInv'
<1>1. /\ cpc[c] = "sched"
      /\ UNCHANGED <<current, regs, fiberOf, procVars, fiberVars, sleeping, ghostVars>>
  BY DEF GetRunnableProcess
<1>2. cpc \in [CPUs -> CpuPc] /\ kernelQ \in [CPUs -> Seq(Procs)] /\ queue \in Seq(Procs)
  BY DEF KeptInv, SchedulingInv, TypeOK
<1>3. CASE /\ queue' = <<>>
           /\ cpc' = [cpc EXCEPT ![c] = "poll"]
           /\ UNCHANGED <<kernelQ, cproc>>
  <2>1. \A p \in Procs : ~InQueue(p)'
    BY <1>3 DEF Elements
  <2>2. \A k \in CPUs : cpc'[k] = IF k = c THEN "poll" ELSE cpc[k]
    BY <1>2, <1>3
  <2>3. Concerns(c, {})
    BY <1>1, <1>3, <2>1, <2>2 DEF Concerns, Busy, Carrying
  <2> QED BY <2>3, OthersKeep
<1>4. ASSUME NEW i \in DOMAIN queue, Runnable(queue[i]),
             \A j \in 1 .. (i - 1) : ~Runnable(queue[j]),
             queue' = SubSeq(queue, i + 1, Len(queue)),
             IF state[queue[i]] = "runnableInKernel"
             THEN /\ kernelQ' = [kernelQ EXCEPT ![kernelProcessor[queue[i]]] =
                                     Append(@, queue[i])]
                  /\ cpc' = [cpc EXCEPT ![c] = "poll"]
                  /\ UNCHANGED cproc
             ELSE /\ cproc' = [cproc EXCEPT ![c] = queue[i]]
                  /\ cpc' = [cpc EXCEPT ![c] = "prepare"]
                  /\ UNCHANGED kernelQ
      PROVE  KeptInv'
  <2> PICK h : h = queue[i]
    OBVIOUS
  <2>1. /\ h \in Procs /\ InQueue(h) /\ Runnable(h)
        /\ \A p \in Procs : InQueue(p)' => InQueue(p)
    BY <1>4, QueuePop DEF KeptInv
  <2>2. StateOf(h) /\ RegistersOf(h) /\ FiberAt(h) /\ OnePlace(h) /\ Saved(h) /\ ~InQueue(h)'
    <3>1. ~InQueue(h)'
      BY <1>4, QueuePop DEF KeptInv
    <3> QED BY <2>1, <3>1 DEF KeptInv, StateInv, RegistersInv, SchedulingInv, FiberPlace,
                              PlacesDisjoint, Saved
  <2>3. \A e \in Events : ~Asleep(e, h)
    BY <2>1, <2>2 DEF OnePlace
  <2>4. HasMemory(h)' => RestoredRegisters(h)' = Expected(h)'
    BY <1>1, <2>2 DEF RegistersOf, RestoredRegisters, Expected, HasMemory
  <2>5. fpc'[h] \in {"release", "asleep", "awake"} => ~saveContext'[h]
    BY <1>1, <2>2 DEF RegistersOf
  <2>6. CASE state[h] = "runnableInKernel"
    <3> PICK home : home = kernelProcessor[h]
      OBVIOUS
    <3>1. home \in CPUs /\ SuspendedOn(h, home)
      BY <2>1, <2>2, <2>6 DEF FiberAt, SuspendedOn
    <3>2. /\ kernelQ' = [kernelQ EXCEPT ![home] = Append(@, h)]
          /\ cpc' = [cpc EXCEPT ![c] = "poll"] /\ cproc' = cproc
      BY <1>4, <2>6
    <3>3. \A k \in CPUs : Elements(kernelQ'[k]) =
              IF k = home THEN Elements(kernelQ[k]) \cup {h} ELSE Elements(kernelQ[k])
      <4>1. \A k \in CPUs : kernelQ'[k] = IF k = home THEN Append(kernelQ[home], h) ELSE kernelQ[k]
        BY <1>2, <3>2
      <4>2. Elements(Append(kernelQ[home], h)) = Elements(kernelQ[home]) \cup {h}
        BY <1>2, <2>1, <3>1, AppendElements
      <4> QED  BY <4>1, <4>2
    <3>4. \A k \in CPUs : cpc'[k] = IF k = c THEN "poll" ELSE cpc[k]
      BY <1>2, <3>2
    <3>5. \A p \in Procs \ {h}, k \in CPUs : InKernelQ(k, p)' => InKernelQ(k, p)
      BY <3>3
    <3>6. Concerns(c, {h})
      BY <1>1, <2>1, <3>2, <3>4, <3>5 DEF Concerns, Busy, Carrying
    <3>7. Saved(h)'
      BY <3>1, <3>3 DEF Saved
    <3>8. \A k \in CPUs : InKernelQ(k, h)' => k = home
      BY <2>1, <2>2, <3>3 DEF OnePlace
    <3>9. \A k \in CPUs : /\ Interrupted(k, h)' => Interrupted(k, h)
                          /\ Requeued(k, h)' => Requeued(k, h)
      BY <1>1, <3>2, <3>4 DEF Interrupted, Requeued
    <3>10. StateOf(h)'
      BY <1>1, <2>1, <2>2, <2>3, <2>6, <3>8, <3>9 DEF StateOf, Dead
    <3>11. RegistersOf(h)'
      BY <2>1, <2>4, <2>5, <3>7, SavedNow
    <3> QED BY <3>6, <3>10, <3>11, OthersKeep
  <2>7. CASE state[h] = "runnableInUser"
    <3>1. /\ cproc' = [cproc EXCEPT ![c] = h]
          /\ cpc' = [cpc EXCEPT ![c] = "prepare"] /\ kernelQ' = kernelQ
      BY <1>4, <2>7
    <3>2. /\ \A k \in CPUs \ {c} : cproc'[k] = cproc[k] /\ cpc'[k] = cpc[k]
          /\ cproc'[c] = h /\ cpc'[c] = "prepare"
      BY <3>1, SetThread, ZenonT(40) DEF KeptInv, SchedulingInv
    <3>3. Concerns(c, {h})
      BY <1>1, <2>1, <3>1, <3>2 DEF Concerns, Busy, Carrying
    <3>4. Saved(h)'
      <4>1. \E k \in CPUs : cproc'[k] = h /\ cpc'[k] \in {"kresume", "kenter", "prepare", "uwait", "urun"}
        BY <3>2
      <4> QED BY <4>1, Zenon DEF Saved
    <3>5. \A k \in CPUs : /\ Interrupted(k, h)' => Interrupted(k, h)
                          /\ Requeued(k, h)' => Requeued(k, h)
      BY <1>1, <3>2 DEF Interrupted, Requeued
    <3>6. \A k \in CPUs : ~InKernelQ(k, h)'
      BY <2>1, <2>2, <3>1 DEF OnePlace
    <3>7. StateOf(h)'
      BY <1>1, <2>2, <2>3, <2>7, <3>5, <3>6 DEF StateOf, Dead
    <3>8. RegistersOf(h)'
      BY <2>1, <2>4, <2>5, <3>4, SavedNow
    <3> QED BY <3>3, <3>7, <3>8, OthersKeep
  <2> QED BY <2>1, <2>6, <2>7 DEF Runnable
<1> QED  BY <1>3, <1>4 DEF GetRunnableProcess

\* The loaded machine satisfies the invariant.
LEMMA InitLife == Init => KeptInv
<1> SUFFICES ASSUME Init PROVE KeptInv
  OBVIOUS
<1>1. SchedulingInv
  BY InitInv
<1>2. Elements(queue) = InitProcs
  <2>1. IsFiniteSet(InitProcs)
    BY FiniteProcs, FS_Subset
  <2> QED BY <2>1, OrderElements DEF Init
<1>3. \A c \in CPUs : kernelQ[c] = <<>> /\ cpc[c] = "poll" /\ fiberOf[c] = NoProc
  BY DEF Init
<1>4. \A p \in Procs : /\ state[p] = IF p \in InitProcs THEN "runnableInUser" ELSE "created"
                       /\ fpc[p] = "none" /\ useRegAX[p] = FALSE
                       /\ context[p] = [owner |-> p, image |-> 0, ax |-> 0]
                       /\ image[p] = 0 /\ ax[p] = 0
  BY DEF Init, Loaded, ZeroRegisters
<1>5. \A e \in Events, p \in Procs : ~Asleep(e, p)
  BY DEF Init
<1>6. \A c \in CPUs, p \in Procs : ~InKernelQ(c, p)
  BY <1>3 DEF Elements
<1>7. ASSUME NEW p \in Procs PROVE StateOf(p)
  BY <1>2, <1>3, <1>4, <1>5, <1>6 DEF StateOf, Interrupted, Requeued, Dead, Runnable
<1>8. ASSUME NEW p \in Procs PROVE RegistersOf(p)
  <2>1. RestoredRegisters(p) = Expected(p)
    BY <1>4 DEF RestoredRegisters, Expected
  <2>2. ~Execing(p) /\ \A c \in CPUs : ~InRegisters(c, p)
    BY <1>3, <1>4 DEF Execing, InRegisters, AtWork
  <2> QED BY <1>4, <2>1, <2>2 DEF RegistersOf
<1> QED BY <1>1, <1>7, <1>8 DEF KeptInv, StateInv, RegistersInv

\* Every step maintains it.
LEMMA NextLife ==
    ASSUME KeptInv, [Next]_vars
    PROVE  KeptInv'
<1>1. SchedulingInv'
  BY NextInv DEF KeptInv
<1>2. ASSUME NEW c \in CPUs, CpuStep(c) PROVE KeptInv'
  BY <1>1, <1>2, PollLife, BlockLife, GetRunnableProcessLife, KernelResumeLife,
     KernelEnterLife, PrepareLife, UserWaitLife, UserRunLife, UserThrowsLife,
     TakeClockLife, InterruptEnterLife, LeaveFiberLife
     DEF CpuStep
<1>3. ASSUME NEW c \in CPUs, FiberStep(c) PROVE KeptInv'
  BY <1>1, <1>3, FiberTopLife, EnterGuardLife, ClockHandleLife, ReleaseProcessorLife,
     ResumedLife, LeaveGuardLife, FinishLife, FiberLeaveLife, FiberThrowsLife
     DEF FiberStep
<1>4. ASSUME NEW c \in CPUs, TrapStep(c) PROVE KeptInv'
  BY <1>1, <1>4, TakeTrapLife, TrapExecLife, TrapReturnLife, TrapSleepLife,
     TrapWakeupLife, TrapExitLife, TrapForkLife, TrapKillLife
     DEF TrapStep
<1>5. ASSUME NEW e \in Events, DeviceWakeup(e) PROVE KeptInv'
  BY <1>1, <1>5, DeviceWakeupLife
<1>6. CASE UNCHANGED vars
  <2>1. \A p \in Procs : Bystander(p)
    BY <1>6 DEF vars, Bystander
  <2> QED BY <1>1, <2>1, BystanderKeeps DEF KeptInv, StateInv, RegistersInv
<1> QED  BY <1>2, <1>3, <1>4, <1>5, <1>6 DEF Next

-----------------------------------------------------------------------------
(* The registers of a process without memory that are yet to be saved.     *)

\* A step that the process p has no part in, or that leaves its state and takes its kernel
\* fiber from one handled point to another.
LEMMA UnsavedKept ==
    ASSUME NEW p \in Procs, UnsavedOf(p),
           ~HasMemory(p)' /\ saveContext'[p] => ~HasMemory(p) /\ saveContext[p],
           state'[p] = state[p], (frame[p].prev)' = frame[p].prev,
           \A k \in CPUs :
               /\ Interrupted(k, p)' => Interrupted(k, p)
               /\ AtWork(k, p, {"finish"})' => AtWork(k, p, {"finish"})
               /\ AtWork(k, p, {"handle", "done", "unguard"})' =>
                      AtWork(k, p, {"handle", "done", "unguard"})
    PROVE  UnsavedOf(p)'
BY DEF UnsavedOf

\* A step of a processor outside of the kernel fibers.
LEMMA CpuUnsaved ==
    ASSUME KeptInv, KeptInv', UnsavedInv, NEW c \in CPUs, CpuStep(c) \/ TakeTrap(c),
           NEW p \in Procs
    PROVE  UnsavedOf(p)'
<1> UnsavedOf(p) /\ RegistersOf(p) /\ TypeOK
  BY DEF UnsavedInv, KeptInv, RegistersInv, SchedulingInv
<1>1. CASE Poll(c) \/ Block(c) \/ GetRunnableProcess(c) \/ LeaveFiber(c) \/ UserWait(c)
  <2>1. UNCHANGED <<context, saveContext, state, frame, fpc, current>>
    BY <1>1 DEF Poll, Block, GetRunnableProcess, LeaveFiber, UserWait
  <2>2. \A k \in CPUs : cpc'[k] \in {"user", "ienter", "fiber"} =>
            cpc'[k] = cpc[k] /\ cproc'[k] = cproc[k]
    BY <1>1 DEF TypeOK, Poll, Block, GetRunnableProcess, LeaveFiber, UserWait
  <2> QED  BY <2>1, <2>2, UnsavedKept DEF Interrupted, AtWork, HasMemory
<1>2. CASE KernelResume(c)
  <2>1. /\ UNCHANGED <<context, state, frame, fpc, cproc>>
        /\ saveContext'[p] => saveContext[p]
    BY <1>2 DEF TypeOK, KernelResume
  <2>2. \A k \in CPUs : cpc'[k] \in {"user", "ienter", "fiber"} =>
            cpc'[k] = cpc[k] /\ current'[k] = current[k]
    BY <1>2 DEF TypeOK, KernelResume
  <2> QED  BY <2>1, <2>2, UnsavedKept DEF Interrupted, AtWork, HasMemory
<1>3. CASE KernelEnter(c)
  <2>1. /\ UNCHANGED <<context, saveContext, state, frame, fpc, current, cproc>>
        /\ \A k \in CPUs \ {c} : cpc'[k] = cpc[k]
        /\ cpc'[c] = "fiber"
    BY <1>3 DEF TypeOK, KernelEnter, EnterFiber
  <2>2. cproc[c] = p => fpc[p] \in {"release", "asleep"}
    BY <1>3 DEF KeptInv, SchedulingInv, FiberPlace, FiberAt, SuspendedOn, KernelEnter
  <2>3. \A k \in CPUs :
            /\ Interrupted(k, p)' => Interrupted(k, p)
            /\ AtWork(k, p, {"finish"})' => AtWork(k, p, {"finish"})
            /\ AtWork(k, p, {"handle", "done", "unguard"})' =>
                   AtWork(k, p, {"handle", "done", "unguard"})
    BY <2>1, <2>2 DEF Interrupted, AtWork
  <2> QED  BY <2>1, <2>3, UnsavedKept DEF HasMemory
<1>4. CASE Prepare(c)
  <2>1. /\ UNCHANGED <<context, saveContext, state, frame, cproc>>
        /\ \A k \in CPUs \ {c} : cpc'[k] = cpc[k] /\ current'[k] = current[k]
        /\ cpc'[c] = "uwait"
        /\ fpc'[p] = fpc[p] \/ fpc[p] = "none"
    BY <1>4 DEF TypeOK, Prepare
  <2>2. \A k \in CPUs : cpc[k] = "fiber" /\ cproc[k] = p => fpc[p] # "none"
    BY DEF KeptInv, SchedulingInv, FiberInv
  <2>3. \A k \in CPUs :
            /\ Interrupted(k, p)' => Interrupted(k, p)
            /\ AtWork(k, p, {"finish"})' => AtWork(k, p, {"finish"})
            /\ AtWork(k, p, {"handle", "done", "unguard"})' =>
                   AtWork(k, p, {"handle", "done", "unguard"})
    BY <2>1, <2>2 DEF Interrupted, AtWork
  <2> QED  BY <2>1, <2>3, UnsavedKept DEF HasMemory
<1>5. CASE UserRun(c)
  <2>1. CASE cproc[c] = p
    <3>1. /\ current[c] = p /\ cpc[c] = "urun"
          /\ UNCHANGED <<context, cproc, current, fpc>>
          /\ \A k \in CPUs \ {c} : cpc'[k] = cpc[k]
      BY <1>5, <2>1 DEF TypeOK, KeptInv, SchedulingInv, ThreadInv, UserRun
    <3>2. CASE ~HasMemory(p)
      <4>1. cpc'[c] = "ended"
        BY <1>5, <2>1, <3>2 DEF TypeOK, UserRun
      <4>2. \A k \in CPUs \ {c} : ~Holds(k, p)
        BY <3>1 DEF KeptInv, SchedulingInv, PlacesDisjoint, OnePlace, Holds
      <4>3. \A k \in CPUs : \A S : ~Interrupted(k, p)' /\ ~AtWork(k, p, S)'
        BY <3>1, <4>1, <4>2
           DEF KeptInv, SchedulingInv, ThreadInv, FiberInv, Holds, Interrupted, AtWork
      <4> QED  BY <4>3 DEF UnsavedOf
    <3>3. CASE HasMemory(p)
      BY <3>1, <3>3 DEF UnsavedOf, HasMemory
    <3> QED  BY <3>2, <3>3
  <2>2. CASE cproc[c] # p
    <3>1. /\ UNCHANGED <<context, frame, fpc, cproc, current>>
          /\ state'[p] = state[p] /\ saveContext'[p] = saveContext[p]
          /\ \A k \in CPUs \ {c} : cpc'[k] = cpc[k]
      BY <1>5, <2>2 DEF TypeOK, UserRun
    <3> QED  BY <2>2, <3>1, UnsavedKept DEF Interrupted, AtWork, HasMemory
  <2> QED  BY <2>1, <2>2
<1>6. CASE UserThrows(c)
  <2>1. /\ UNCHANGED <<context, saveContext, state, frame, fpc, cproc, current>>
        /\ \A k \in CPUs \ {c} : cpc'[k] = cpc[k]
        /\ cpc'[c] = "ended"
    BY <1>6 DEF TypeOK, UserThrows
  <2>3. \A k \in CPUs :
            /\ Interrupted(k, p)' => Interrupted(k, p)
            /\ AtWork(k, p, {"finish"})' => AtWork(k, p, {"finish"})
            /\ AtWork(k, p, {"handle", "done", "unguard"})' =>
                   AtWork(k, p, {"handle", "done", "unguard"})
    BY <2>1 DEF Interrupted, AtWork
  <2> QED  BY <2>1, <2>3, UnsavedKept DEF HasMemory
<1>7. CASE TakeTrap(c) \/ TakeClock(c)
  <2>1. /\ UNCHANGED <<context, state, frame, fpc, cproc, current>>
        /\ \A k \in CPUs \ {c} : cpc'[k] = cpc[k]
        /\ cpc[c] = "user" /\ cpc'[c] = "ienter"
        /\ cproc[c] # p => saveContext'[p] = saveContext[p]
    BY <1>7 DEF TypeOK, KeptInv, SchedulingInv, ThreadInv, TakeTrap, TakeClock, Interrupt
  <2>2. cproc[c] = p => saveContext[p]
    BY <2>1 DEF RegistersOf, InRegisters
  <2> QED  BY <2>1, <2>2, UnsavedKept DEF Interrupted, AtWork, HasMemory
<1>8. CASE InterruptEnter(c)
  <2>1. /\ UNCHANGED <<context, saveContext, state, frame, fpc, current, cproc>>
        /\ \A k \in CPUs \ {c} : cpc'[k] = cpc[k]
        /\ cpc[c] = "ienter"
    BY <1>8 DEF TypeOK, InterruptEnter, EnterFiber
  <2>2. cproc[c] = p => fpc[p] = "top"
    BY <2>1 DEF KeptInv, SchedulingInv, Handshake
  <2> QED  BY <2>1, <2>2, UnsavedKept DEF Interrupted, AtWork, HasMemory
<1> QED  BY <1>1, <1>2, <1>3, <1>4, <1>5, <1>6, <1>7, <1>8 DEF CpuStep

\* A step of the kernel fiber of p, by the processor c.
LEMMA FiberUnsaved ==
    ASSUME KeptInv, KeptInv', UnsavedInv, NEW c \in CPUs, FiberStep(c),
           NEW p \in Procs, p = cproc[c]
    PROVE  UnsavedOf(p)'
<1>1. /\ cpc[c] = "fiber" /\ fiberOf[c] = p /\ c # NoCpu
      /\ UnsavedOf(p) /\ RegistersOf(p) /\ StateOf(p) /\ TypeOK
      /\ fpc[p] \in {"handle", "awake", "unguard", "finish", "leave"} =>
             frame[p].processor = c /\ frame[p].main = c
      /\ fpc[p] = "top" => handler[p] # "none" /\ current[c] = p /\ processor[p] = c
      /\ fpc[p] = "guard" => current[c] = p
      /\ \A k \in CPUs \ {c} : cpc[k] # "fiber" \/ cproc[k] # p
      /\ \A k \in CPUs : cpc[k] \in {"urun", "user", "ienter"} => cproc[k] # p
  <2>1. cpc[c] = "fiber"
    BY DEF FiberStep, FiberTop, EnterGuard, ClockHandle, ReleaseProcessor, Resumed,
           LeaveGuard, Finish, FiberLeave, FiberThrows, InFiber
  <2> QED  BY <2>1, InsideFiber DEF UnsavedInv, KeptInv, RegistersInv, StateInv, SchedulingInv
<1>2. CASE FiberTop(c)
  <2>1. /\ UNCHANGED <<cpc, cproc, current, context, saveContext, state>>
        /\ fpc[p] = "top" /\ fpc'[p] = "guard"
    BY <1>1, <1>2 DEF TypeOK, FiberTop, InFiber
  <2>2. Interrupted(c, p)
    BY <1>1, <2>1 DEF Interrupted
  <2> QED  BY <1>1, <2>1, <2>2 DEF UnsavedOf, Interrupted, AtWork, HasMemory
<1>3. CASE EnterGuard(c)
  <2>1. /\ UNCHANGED <<cpc, cproc, current, context, saveContext>>
        /\ fpc[p] = "guard" /\ fpc'[p] = "handle"
        /\ state'[p] = "runningKernel" /\ frame' = [frame EXCEPT ![p].prev = state[p]]
    BY <1>1, <1>3 DEF TypeOK, EnterGuard, InFiber
  <2>2. (frame[p].prev)' = state[p]
    BY <1>1, <2>1 DEF TypeOK, Frame
  <2>3. Interrupted(c, p)
    BY <1>1, <2>1 DEF Interrupted
  <2> QED  BY <1>1, <2>1, <2>2, <2>3 DEF UnsavedOf, Interrupted, AtWork, HasMemory
<1>4. CASE ReleaseProcessor(c) \/ Resumed(c)
  <2>1. /\ UNCHANGED saveContext
        /\ fpc[p] \in {"release", "asleep"}
    BY <1>1, <1>4 DEF ReleaseProcessor, Resumed, InFiber
  <2>2. ~saveContext'[p]
    BY <1>1, <2>1 DEF RegistersOf
  <2> QED  BY <2>2 DEF UnsavedOf
<1>5. CASE LeaveGuard(c)
  <2>1. /\ UNCHANGED <<cpc, cproc, current, context, saveContext, frame>>
        /\ fpc[p] = "unguard" /\ fpc'[p] = "finish"
        /\ state'[p] = IF state[p] = "runningKernel" THEN frame[p].prev ELSE state[p]
    BY <1>1, <1>5 DEF TypeOK, LeaveGuard, InFiber
  <2>2. current[c] = p => AtWork(c, p, {"handle", "done", "unguard"})
    BY <1>1, <2>1 DEF AtWork
  <2> QED  BY <1>1, <2>1, <2>2 DEF UnsavedOf, Interrupted, AtWork, HasMemory
<1>6. CASE ClockHandle(c)
  <2>1. fpc[p] = "handle" /\ fpc'[p] = "unguard" /\ UNCHANGED <<cproc, frame>>
    BY <1>1, <1>6 DEF TypeOK, ClockHandle, InFiber
  <2>2. CASE current'[c] = NoProc
    <3>1. /\ \A k \in CPUs \ {c} : cpc'[k] \in {"user", "ienter", "fiber"} => cpc'[k] = cpc[k]
          /\ cpc'[c] = "fiber"
      BY <1>1, <1>6
         DEF TypeOK, ClockHandle, AddRunnableProcess, Notified
    <3> QED  BY <1>1, <2>1, <2>2, <3>1 DEF UnsavedOf, Interrupted, AtWork
  <2>3. CASE current'[c] # NoProc
    <3>1. UNCHANGED <<current, context, saveContext, state, cpc>>
      <4>1. ~ResetCurrentProcess(c, saveContext[current[c]], FALSE)
        BY <1>1, <2>3 DEF TypeOK, ResetCurrentProcess
      <4> QED  BY <1>1, <1>6, <2>1, <4>1 DEF ClockHandle
    <3>2. current[c] = p => AtWork(c, p, {"handle", "done", "unguard"})
      BY <1>1, <2>1 DEF AtWork
    <3> QED  BY <1>1, <2>1, <3>1, <3>2 DEF UnsavedOf, Interrupted, AtWork, HasMemory
  <2> QED  BY <2>2, <2>3
<1>7. CASE Finish(c) \/ FiberLeave(c) \/ FiberThrows(c)
  <2>1. fpc'[p] = "leave" \/ (fpc'[p] = "top" /\ cpc'[c] = "left")
    <3>1. CASE Finish(c)
      BY <1>1, <3>1 DEF TypeOK, Finish, InFiber
    <3>2. CASE FiberLeave(c) \/ FiberThrows(c)
      <4>1. /\ fpc' = [fpc EXCEPT ![p] = "top"] /\ frame[p].main = c
            /\ \/ cpc' = [(IF WorkAvailable THEN Notified ELSE cpc) EXCEPT ![c] = "left"]
               \/ cpc' = [cpc EXCEPT ![c] = "left"]
        BY <1>1, <3>2 DEF FiberLeave, FiberThrows, InFiber, SwitchToMain
      <4> QED  BY <1>1, <4>1 DEF TypeOK, Notified
    <3> QED  BY <1>7, <3>1, <3>2
  <2>2. /\ \A k \in CPUs \ {c} : cpc'[k] \in {"user", "ienter", "fiber"} => cpc'[k] = cpc[k]
        /\ fpc'[p] = "leave" => cpc'[c] = "fiber"
        /\ UNCHANGED cproc
    BY <1>1, <1>7
       DEF TypeOK, Finish, FiberLeave, FiberThrows, InFiber, SwitchToMain,
           AddRunnableProcess, Notified
  <2> QED  BY <1>1, <2>1, <2>2 DEF UnsavedOf, Interrupted, AtWork
<1> QED  BY <1>2, <1>3, <1>4, <1>5, <1>6, <1>7 DEF FiberStep

\* A process that a step leaves where it is in the fibers, that it makes a zombie, or that
\* no processor has in user mode or in its fiber.
LEMMA UnsavedElsewhere ==
    ASSUME NEW p \in Procs, UnsavedOf(p),
           \/ state'[p] = "zombie"
           \/ \A k \in CPUs : cpc'[k] \in {"user", "ienter", "fiber"} => cproc'[k] # p
           \/ /\ context'[p] = context[p] /\ state'[p] = state[p]
              /\ saveContext'[p] => saveContext[p]
              /\ frame'[p] = frame[p] /\ fpc'[p] = fpc[p]
              /\ \A k \in CPUs : cpc'[k] \in {"user", "ienter", "fiber"} /\ cproc'[k] = p =>
                     /\ cpc'[k] = cpc[k] /\ cproc[k] = p
                     /\ current'[k] = p => current[k] = p
    PROVE  UnsavedOf(p)'
<1>1. CASE state'[p] = "zombie"
  BY <1>1 DEF UnsavedOf
<1>2. CASE \A k \in CPUs : cpc'[k] \in {"user", "ienter", "fiber"} => cproc'[k] # p
  BY <1>2 DEF UnsavedOf, Interrupted, AtWork
<1>3. CASE /\ context'[p] = context[p] /\ state'[p] = state[p]
           /\ saveContext'[p] => saveContext[p]
           /\ frame'[p] = frame[p] /\ fpc'[p] = fpc[p]
           /\ \A k \in CPUs : cpc'[k] \in {"user", "ienter", "fiber"} /\ cproc'[k] = p =>
                  /\ cpc'[k] = cpc[k] /\ cproc[k] = p
                  /\ current'[k] = p => current[k] = p
  BY <1>3, UnsavedKept DEF Interrupted, AtWork, HasMemory
<1> QED  BY <1>1, <1>2, <1>3

\* The other processes, when the processor c executes the kernel fiber of p.
LEMMA FiberOthersUnsaved ==
    ASSUME KeptInv, UnsavedInv, NEW c \in CPUs, FiberStep(c),
           NEW p \in Procs, p # cproc[c]
    PROVE  UnsavedOf(p)'
<1> DEFINE q == cproc[c]
<1>1. /\ cpc[c] = "fiber" /\ fiberOf[c] = q /\ q \in Procs /\ UnsavedOf(p) /\ TypeOK
      /\ fpc[q] \in {"handle", "finish"} => frame[q].processor = c /\ current[c] \in {q, NoProc}
      /\ fpc[q] = "finish" /\ current[c] = NoProc => processor[q] = NoCpu
      /\ c # NoCpu
  <2>1. cpc[c] = "fiber"
    BY DEF FiberStep, FiberTop, EnterGuard, ClockHandle, ReleaseProcessor, Resumed,
           LeaveGuard, Finish, FiberLeave, FiberThrows, InFiber
  <2> QED  BY <2>1, InsideFiber DEF UnsavedInv, KeptInv, SchedulingInv, ThreadInv
<1>2. /\ context'[p] = context[p] /\ state'[p] = state[p] /\ saveContext'[p] = saveContext[p]
      /\ frame'[p] = frame[p] /\ fpc'[p] = fpc[p]
  <2>1. CASE ClockHandle(c) \/ Finish(c)
    <3>1. /\ frame' = frame
          /\ \E pc \in FiberPc : fpc' = [fpc EXCEPT ![q] = pc]
          /\ \/ UNCHANGED <<context, saveContext, state>>
             \/ /\ \E save : ResetCurrentProcess(c, save, FALSE)
                /\ current[c] = q
                /\ AddRunnableProcess(q, "runnableInUser", c, "fiber")
      <4>1. CASE ClockHandle(c)
        BY <1>1, <4>1 DEF FiberPc, ClockHandle, InFiber
      <4>2. CASE Finish(c)
        <5>1. ResetCurrentProcess(c, MustSave(q), FALSE) => current[c] # NoProc
          BY DEF ResetCurrentProcess
        <5> QED  BY <1>1, <4>2, <5>1 DEF FiberPc, Finish, InFiber
      <4> QED  BY <2>1, <4>1, <4>2
    <3> QED  BY <1>1, <3>1 DEF TypeOK, ResetCurrentProcess, AddRunnableProcess
  <2>2. CASE FiberTop(c) \/ EnterGuard(c) \/ ReleaseProcessor(c) \/ Resumed(c) \/ LeaveGuard(c)
    BY <1>1, <2>2
       DEF TypeOK, FiberTop, EnterGuard, ReleaseProcessor, Resumed, LeaveGuard, InFiber
  <2>3. CASE FiberLeave(c) \/ FiberThrows(c)
    BY <1>1, <2>3 DEF TypeOK, FiberLeave, FiberThrows, InFiber
  <2> QED  BY <2>1, <2>2, <2>3 DEF FiberStep
<1>3. /\ \A k \in CPUs \ {c} :
             cpc'[k] \in {"user", "ienter", "fiber"} => cpc'[k] = cpc[k]
      /\ UNCHANGED cproc
      /\ \A k \in CPUs \ {c} : current'[k] = current[k]
  <2>1. CASE ClockHandle(c) \/ Finish(c)
    <3>1. /\ cproc' = cproc
          /\ \/ UNCHANGED <<current, cpc>>
             \/ /\ \E save : ResetCurrentProcess(c, save, FALSE)
                /\ \E x : AddRunnableProcess(x, "runnableInUser", c, "fiber")
      <4>1. CASE ClockHandle(c)
        BY <1>1, <4>1 DEF ClockHandle, InFiber
      <4>2. CASE Finish(c)
        BY <1>1, <4>2 DEF Finish, InFiber
      <4> QED  BY <2>1, <4>1, <4>2
    <3>2. ASSUME NEW x, AddRunnableProcess(x, "runnableInUser", c, "fiber"), NEW k \in CPUs \ {c},
                 cpc'[k] \in {"user", "ienter", "fiber"}
          PROVE  cpc'[k] = cpc[k]
      BY <1>1, <3>2 DEF TypeOK, AddRunnableProcess, Notified
    <3>3. ASSUME NEW save, ResetCurrentProcess(c, save, FALSE), NEW k \in CPUs \ {c}
          PROVE  current'[k] = current[k]
      BY <1>1, <3>3 DEF TypeOK, ResetCurrentProcess
    <3> QED  BY <3>1, <3>2, <3>3
  <2>2. CASE FiberTop(c) \/ EnterGuard(c) \/ ReleaseProcessor(c) \/ Resumed(c) \/ LeaveGuard(c)
    BY <1>1, <2>2
       DEF TypeOK, FiberTop, EnterGuard, ReleaseProcessor, Resumed, LeaveGuard, SwitchToMain
  <2>3. CASE FiberLeave(c) \/ FiberThrows(c)
    BY <1>1, <2>3 DEF TypeOK, FiberLeave, FiberThrows, SwitchToMain, Notified
  <2> QED  BY <2>1, <2>2, <2>3 DEF FiberStep
<1> QED  BY <1>1, <1>2, <1>3, UnsavedElsewhere

\* A wakeup, after a step that leaves the processes as they are or makes some zombies.
LEMMA WakeupUnsaved ==
    ASSUME KeptInv, UnsavedInv, NEW e \in Events, NEW s \in [Procs -> ProcessState],
           Wakeup(e, s), NEW p \in Procs,
           \/ s[p] = "zombie"
           \/ s[p] = state[p] /\ context'[p] = context[p],
           \/ fpc'[p] = fpc[p]
           \/ fpc[p] = "handle" /\ fpc'[p] = "done",
           UNCHANGED <<cproc, current, saveContext, frame>>
    PROVE  UnsavedOf(p)'
<1> UnsavedOf(p) /\ TypeOK /\ OnePlace(p)
  BY DEF UnsavedInv, KeptInv, SchedulingInv, PlacesDisjoint
<1>1. PICK W : W = Woken(e, s)
  OBVIOUS
<1>2. /\ \A k \in CPUs :
             cpc'[k] = cpc[k] \/ (cpc[k] = "blocked" /\ cpc'[k] = "sched")
      /\ state' = [x \in Procs |-> IF x \in W THEN "runnableInKernel" ELSE s[x]]
  BY <1>1, QueueWoken
<1>3. CASE p \in W
  <2>1. Asleep(e, p)
    BY <1>1, <1>3 DEF Woken
  <2>2. \A k \in CPUs : ~Holds(k, p)
    BY <2>1 DEF OnePlace
  <2>3. fpc[p] \in {"release", "asleep"} /\ fpc'[p] = fpc[p]
    BY <2>1 DEF KeptInv, SchedulingInv, FiberPlace, FiberAt, SuspendedOn
  <2>4. \A k \in CPUs : \A S : ~Interrupted(k, p)' /\ ~AtWork(k, p, S)'
    BY <1>2, <2>2, <2>3 DEF Interrupted, AtWork, Holds, KeptInv, SchedulingInv, ThreadInv
  <2> QED  BY <2>4 DEF UnsavedOf
<1>4. CASE p \notin W /\ s[p] = "zombie"
  BY <1>2, <1>4 DEF UnsavedOf
<1>5. CASE p \notin W /\ s[p] = state[p] /\ context'[p] = context[p]
  <2>1. state'[p] = state[p]
    BY <1>2, <1>5
  <2> QED  BY <1>2, <1>5, <2>1, UnsavedKept DEF Interrupted, AtWork, HasMemory
<1> QED  BY <1>3, <1>4, <1>5

\* A trap of the process of the processor c.
LEMMA TrapUnsaved ==
    ASSUME KeptInv, KeptInv', UnsavedInv, NEW c \in CPUs, TrapStep(c), NEW p \in Procs
    PROVE  UnsavedOf(p)'
<1> DEFINE q == cproc[c]
<1>1. CASE TakeTrap(c)
  BY <1>1, CpuUnsaved
<1>2. TypeOK /\ UnsavedOf(p) /\ RegistersOf(p)
  BY DEF UnsavedInv, KeptInv, RegistersInv, SchedulingInv
<1>3. ASSUME cpc[c] = "fiber", fpc[fiberOf[c]] \in {"handle", "awake", "done"}
      PROVE  /\ fiberOf[c] = q /\ q \in Procs /\ state[q] # "created"
             /\ current[c] = q /\ processor[q] = c /\ c # NoCpu
             /\ frame[q].processor = c
  BY <1>3, InsideFiber DEF KeptInv, SchedulingInv, ThreadInv
<1>4. CASE TrapReturn(c)
  <2>1. /\ cpc[c] = "fiber" /\ fiberOf[c] = q /\ q \in Procs /\ current[c] = q
        /\ fpc[q] \in {"handle", "awake", "done"}
        /\ fpc' = [fpc EXCEPT ![q] = "unguard"]
        /\ UNCHANGED <<cpc, cproc, current, state, saveContext, context, frame>>
    BY <1>3, <1>4 DEF TrapReturn
  <2>2. CASE p = q /\ fpc[p] = "awake"
    BY <1>2, <2>1, <2>2 DEF RegistersOf, UnsavedOf
  <2>3. CASE p = q /\ fpc[p] # "awake"
    <3>1. fpc[p] \in {"handle", "done"} /\ fpc'[p] = "unguard"
      BY <1>2, <2>1, <2>3 DEF TypeOK
    <3> QED  BY <1>2, <2>1, <3>1, UnsavedKept DEF Interrupted, AtWork, HasMemory
  <2>4. CASE p # q
    BY <1>2, <2>1, <2>4, UnsavedElsewhere DEF TypeOK
  <2> QED  BY <2>2, <2>3, <2>4
<1>5. CASE TrapExec(c)
  <2>1. /\ cpc[c] = "fiber" /\ fiberOf[c] = q /\ q \in Procs
        /\ fpc' = [fpc EXCEPT ![q] = "done"]
        /\ \A x \in Procs \ {q} : state'[x] = state[x] /\ context'[x] = context[x]
        /\ context'[q].owner = q
        /\ UNCHANGED <<cpc, cproc, current, saveContext, frame>>
    BY <1>2, <1>3, <1>5 DEF TypeOK, TrapExec, InTrap
  <2>2. CASE p = q
    <3>1. HasMemory(p)'
      BY <2>1, <2>2, ProcsAssumption DEF HasMemory
    <3> QED  BY <3>1 DEF UnsavedOf
  <2>3. CASE p # q
    BY <1>2, <2>1, <2>3, UnsavedElsewhere DEF TypeOK
  <2> QED  BY <2>2, <2>3
<1>6. ASSUME NEW e \in Events, TrapSleep(c, e) PROVE UnsavedOf(p)'
  <2>1. /\ cpc[c] = "fiber" /\ fiberOf[c] = q /\ q \in Procs
        /\ ResetCurrentProcess(c, saveContext[q], TRUE) /\ current[c] = q
        /\ fpc' = [fpc EXCEPT ![q] = "release"]
        /\ state' = [state EXCEPT ![q] = "asleep"]
        /\ cpc' = IF WorkAvailable THEN Notified ELSE cpc
        /\ UNCHANGED <<cproc, frame>>
    BY <1>3, <1>6 DEF TrapSleep, InTrap
  <2>2. CASE p = q
    <3>1. fpc'[p] = "release"
      BY <1>2, <2>1, <2>2 DEF TypeOK
    <3>2. ~saveContext'[p]
      BY <3>1 DEF KeptInv, RegistersInv, RegistersOf
    <3> QED  BY <3>2 DEF UnsavedOf
  <2>3. CASE p # q
    <3>1. /\ context'[p] = context[p] /\ state'[p] = state[p]
          /\ saveContext'[p] = saveContext[p] /\ fpc'[p] = fpc[p]
      BY <1>2, <2>1, <2>3 DEF TypeOK, ResetCurrentProcess
    <3>2. \A k \in CPUs : /\ cpc'[k] \in {"user", "ienter", "fiber"} => cpc'[k] = cpc[k]
                          /\ k # c => current'[k] = current[k]
      BY <1>2, <2>1 DEF TypeOK, Notified, ResetCurrentProcess
    <3> QED  BY <1>2, <2>1, <2>3, <3>1, <3>2, UnsavedElsewhere
  <2> QED  BY <2>2, <2>3
<1>7. ASSUME NEW e \in Events, TrapWakeup(c, e) PROVE UnsavedOf(p)'
  <2>1. state \in [Procs -> ProcessState] /\ fpc' = fpc
    BY <1>2, <1>7 DEF TypeOK, TrapWakeup
  <2> QED  BY <1>7, <2>1, WakeupUnsaved DEF TrapWakeup
<1>8. ASSUME NEW x \in Procs, NEW e \in Events, Exit(x, e),
             cpc[c] = "fiber", fpc[fiberOf[c]] = "handle",
             fpc' = [fpc EXCEPT ![fiberOf[c]] = "done"]
      PROVE  UnsavedOf(p)'
  <2> DEFINE s == [state EXCEPT ![x] = "zombie"]
  <2>1. s \in [Procs -> ProcessState]
    BY <1>2 DEF TypeOK, ProcessState
  <2>2. s[p] = "zombie" \/ (s[p] = state[p] /\ context'[p] = context[p])
    BY <1>2, <1>8 DEF TypeOK, Exit
  <2>3. fpc'[p] = fpc[p] \/ (fpc[p] = "handle" /\ fpc'[p] = "done")
    BY <1>2, <1>3, <1>8 DEF TypeOK
  <2>4. Wakeup(e, s) /\ UNCHANGED <<cproc, current, saveContext, frame>>
    BY <1>8 DEF Exit
  <2> HIDE DEF s
  <2> QED  BY <2>1, <2>2, <2>3, <2>4, WakeupUnsaved
<1>9. ASSUME NEW x \in Procs, TrapFork(c, x) PROVE UnsavedOf(p)'
  <2>1. /\ cpc[c] = "fiber" /\ fiberOf[c] = q /\ q \in Procs /\ current[c] = q
        /\ fpc[q] = "handle" /\ fpc' = [fpc EXCEPT ![q] = "done"]
        /\ HasMemory(q) /\ state[x] = "created" /\ x # q
        /\ context' = [context EXCEPT ![x] = ChildRegisters(x, c)]
        /\ AddRunnableProcess(x, "runnableInUser", c, "fiber")
        /\ UNCHANGED <<cproc, current, saveContext, frame>>
    BY <1>3, <1>9 DEF TrapFork, InTrap
  <2>2. /\ state' = [state EXCEPT ![x] = "runnableInUser"]
        /\ \A k \in CPUs : cpc'[k] \in {"user", "ienter", "fiber"} => cpc'[k] = cpc[k]
    BY <1>2, <2>1 DEF TypeOK, AddRunnableProcess, Notified
  <2>3. CASE p = x
    <3>1. \A k \in CPUs : cpc[k] \in {"user", "ienter", "fiber"} => cproc[k] # p
      BY <2>1, <2>3 DEF KeptInv, SchedulingInv, CreatedNowhere, Unused, Carrying
    <3> QED  BY <1>2, <2>1, <2>2, <3>1, UnsavedElsewhere
  <2>4. CASE p = q
    <3>1. context'[p] = context[p]
      BY <1>2, <2>1, <2>4 DEF TypeOK
    <3> QED  BY <2>1, <2>4, <3>1 DEF UnsavedOf, HasMemory
  <2>5. CASE p # x /\ p # q
    <3>1. context'[p] = context[p] /\ state'[p] = state[p] /\ fpc'[p] = fpc[p]
      BY <1>2, <2>1, <2>2, <2>5 DEF TypeOK
    <3> QED  BY <1>2, <2>1, <2>2, <3>1, UnsavedElsewhere
  <2> QED  BY <2>3, <2>4, <2>5
<1>10. ASSUME NEW e \in Events, TrapExit(c, e) PROVE UnsavedOf(p)'
  <2>1. cpc[c] = "fiber" /\ fpc[fiberOf[c]] = "handle"
    BY <1>10 DEF TrapExit, InTrap
  <2> QED  BY <1>3, <1>8, <1>10, <2>1 DEF TrapExit
<1>11. ASSUME NEW x \in Procs, NEW e \in Events, TrapKill(c, x, e) PROVE UnsavedOf(p)'
  BY <1>8, <1>11 DEF TrapKill, InTrap
<1> QED  BY <1>1, <1>4, <1>5, <1>6, <1>7, <1>9, <1>10, <1>11 DEF TrapStep

LEMMA NextUnsaved ==
    ASSUME LifeInv, KeptInv', [Next]_vars
    PROVE  UnsavedInv'
<1> SUFFICES ASSUME NEW p \in Procs PROVE UnsavedOf(p)'
  BY DEF UnsavedInv
<1>1. KeptInv /\ UnsavedInv /\ UnsavedOf(p) /\ TypeOK
  BY DEF LifeInv, UnsavedInv, KeptInv, SchedulingInv
<1>2. ASSUME NEW c \in CPUs, CpuStep(c) PROVE UnsavedOf(p)'
  BY <1>1, <1>2, CpuUnsaved
<1>3. ASSUME NEW c \in CPUs, FiberStep(c) PROVE UnsavedOf(p)'
  BY <1>1, <1>3, FiberUnsaved, FiberOthersUnsaved
<1>4. ASSUME NEW c \in CPUs, TrapStep(c) PROVE UnsavedOf(p)'
  BY <1>1, <1>4, TrapUnsaved
<1>5. ASSUME NEW e \in Events, DeviceWakeup(e) PROVE UnsavedOf(p)'
  <2>1. state \in [Procs -> ProcessState] /\ fpc' = fpc
    BY <1>1, <1>5 DEF TypeOK, DeviceWakeup
  <2> QED  BY <1>1, <1>5, <2>1, WakeupUnsaved DEF DeviceWakeup
<1>6. CASE UNCHANGED vars
  BY <1>1, <1>6 DEF vars, cpuVars, procVars, fiberVars, UnsavedOf, HasMemory, Interrupted,
                    AtWork
<1> QED  BY <1>2, <1>3, <1>4, <1>5, <1>6 DEF Next

\* The states of the processes and their registers: the invariant with which the next
\* two theorems are proved holds in every reachable state.
THEOREM LifeInvariance == Spec => []LifeInv
<1>1. Init => LifeInv
  BY InitLife DEF LifeInv, UnsavedInv, UnsavedOf, Init
<1>2. LifeInv /\ [Next]_vars => LifeInv'
  <2> SUFFICES ASSUME LifeInv, [Next]_vars PROVE LifeInv'
    OBVIOUS
  <2>1. KeptInv'
    BY NextLife DEF LifeInv
  <2> QED  BY <2>1, NextUnsaved DEF LifeInv
<1> QED  BY <1>1, <1>2, PTL DEF Spec

\* A process that has not exited is asleep exactly when it is on the list of an event,
\* runnable when it is on the run queue, and runnable in the kernel, on its own
\* processor, when it is on a queue of Processor: what GetRunnableProcess relies on
\* when it drops a process or hands it over.
THEOREM StateTellsThePlace == Spec => []StateTellsPlace
<1>1. LifeInv => StateTellsPlace
  <2> SUFFICES ASSUME KeptInv, NEW p \in Procs, ~Dead(p)
               PROVE  /\ (state[p] = "asleep") = (\E e \in Events : p \in sleeping[e])
                      /\ p \in Elements(queue) => Runnable(p)
                      /\ \A c \in CPUs : p \in Elements(kernelQ[c]) =>
                             state[p] = "runnableInKernel" /\ kernelProcessor[p] = c
    BY DEF LifeInv, StateTellsPlace
  <2>1. StateOf(p)
    BY DEF KeptInv, StateInv
  <2> QED BY <2>1 DEF StateOf
<1> QED  BY LifeInvariance, <1>1, PTL

\* In user mode a processor has the registers of the process that it runs, as they were
\* when that process was interrupted last, with the result of its last trap: whatever
\* happened in between, on whichever processors.
THEOREM RegistersAreItsOwn == Spec => []ContextIntegrity
<1>1. LifeInv => ContextIntegrity
  <2> SUFFICES ASSUME KeptInv, NEW c \in CPUs, cpc[c] = "user", NEW p, p = cproc[c]
               PROVE  /\ current[c] = p
                      /\ regs[c] = [owner |-> p, image |-> image[p], ax |-> ax[p]]
    BY DEF LifeInv, ContextIntegrity
  <2>1. p \in Procs /\ current[c] = p /\ InRegisters(c, p)
    BY DEF KeptInv, SchedulingInv, ThreadInv, Carrying, InRegisters
  <2>2. RegistersOf(p)
    BY <2>1 DEF KeptInv, RegistersInv
  <2> QED BY <2>1, <2>2 DEF RegistersOf, Expected
<1> QED  BY LifeInvariance, <1>1, PTL
=============================================================================
