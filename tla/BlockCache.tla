----------------------------- MODULE BlockCache -----------------------------
(***************************************************************************)
(* The block cache of the System X kernel (system-x/kernel/block_manager): *)
(* a fixed number of buffers, a hash table from block keys to buffers, a   *)
(* free list in least recently used order, and the processes that wait     *)
(* for a buffer. The file system writes through (system-x/kernel/fs.cpp):  *)
(* a holder that changes a block writes it to the host file before it puts *)
(* the block, and reads a block that is not valid. The blocks are those of *)
(* the root file system, the only one whose buffers are ever valid.        *)
(*                                                                         *)
(* GetBlock and PutBlock run under the machine lock, which Sleep releases, *)
(* so a turn of the loop of GetBlock is one action. A transfer takes a     *)
(* sleep; it may fail, and the exception then puts the blocks of the       *)
(* process as it unwinds the stack.                                        *)
(***************************************************************************)
EXTENDS Naturals, Sequences, FiniteSets, SequencesExt

CONSTANTS
    Blocks,     \* the buffers, numCachedBlocks of them
    Keys,       \* block numbers, ranked in the order in which callers nest them
    Procs,
    MaxHeld,    \* how many blocks a process holds at once
    Chains,     \* numberOfHashQueues
    NoKey, NoBlock

ASSUME CacheAssumption ==
    /\ Blocks # {} /\ IsFiniteSet(Blocks) /\ NoBlock \notin Blocks
    /\ Keys \subseteq Nat /\ IsFiniteSet(Keys) /\ NoKey \notin Keys
    /\ Procs # {}
    /\ MaxHeld \in Nat \ {0}
    /\ Chains \in Nat \ {0}

VARIABLES
    key, locked, valid, data,  \* of each buffer
    chain,      \* hashQueues: the buffers with an entry in each chain
    position,   \* the free list position that the entry of a buffer remembers
    freeList,
    keyEvents,  \* the keys in blockKeyMapEventMap
    pc, want,   \* of each process: what it does, and the key of its call under way
    held,       \* the buffers whose BlockPtr a process has
    disk,       \* the contents of the host file
    failed      \* the keys whose last write to the host file failed

bufferVars == <<key, locked, valid, data>>
cacheVars == <<chain, position, freeList, keyEvents>>
hostVars == <<disk, failed>>
vars == <<bufferVars, cacheVars, pc, want, held, hostVars>>

Version == {0, 1}

TypeOK ==
    /\ key \in [Blocks -> Keys \cup {NoKey}]
    /\ locked \in [Blocks -> BOOLEAN]
    /\ valid \in [Blocks -> BOOLEAN]
    /\ data \in [Blocks -> Version]
    /\ chain \in [0 .. Chains - 1 -> SUBSET Blocks]
    /\ position \in [Blocks -> Blocks \cup {NoBlock}]
    /\ freeList \in Seq(Blocks)
    /\ keyEvents \subseteq Keys
    /\ pc \in [Procs -> {"idle", "get", "waitKey", "waitAny", "use", "read", "write", "unwind"}]
    /\ want \in [Procs -> Keys \cup {NoKey}]
    /\ held \in [Procs -> SUBSET Blocks]
    /\ disk \in [Keys -> Version]
    /\ failed \subseteq Keys

Init ==
    /\ key = [b \in Blocks |-> NoKey]
    /\ locked = [b \in Blocks |-> FALSE]
    /\ valid = [b \in Blocks |-> FALSE]
    /\ data = [b \in Blocks |-> 0]
    /\ chain = [q \in 0 .. Chains - 1 |-> {}]
    /\ position = [b \in Blocks |-> NoBlock]
    /\ freeList \in SetToSeqs(Blocks)
    /\ keyEvents = {}
    /\ pc = [p \in Procs |-> "idle"]
    /\ want = [p \in Procs |-> NoKey]
    /\ held = [p \in Procs |-> {}]
    /\ disk = [k \in Keys |-> 0]
    /\ failed = {}

HashQueue(k) == k % Chains
Entries(k) == {b \in chain[HashQueue(k)] : key[b] = k}

-----------------------------------------------------------------------------
\* A process calls GetBlock, holding only blocks that nest outside.
Call(p) ==
    /\ pc[p] \in {"idle", "use"}
    /\ Cardinality(held[p]) < MaxHeld
    /\ \E k \in Keys :
        /\ \A b \in held[p] : key[b] < k
        /\ want' = [want EXCEPT ![p] = k]
    /\ pc' = [pc EXCEPT ![p] = "get"]
    /\ UNCHANGED <<bufferVars, cacheVars, held, hostVars>>

Sleeps(p, reason) == pc' = [pc EXCEPT ![p] = reason]

\* MakeBlockKeyEvent, for the block that the process waits for.
MadeKeyEvents_ForProcess(p) == keyEvents \cup {p}
MadeKeyEvents(p) == keyEvents \cup {want[p]}

\* GetBlock: the block is cached and locked. The process waits for its key.
WaitForKey(p) ==
    /\ pc[p] = "get"
    /\ \E b \in Entries(want[p]) : locked[b]
    /\ keyEvents' = MadeKeyEvents(p)
    /\ Sleeps(p, "waitKey")
    /\ UNCHANGED <<bufferVars, chain, position, freeList, want, held, hostVars>>

\* RemoveFromFreeList erases the position that the entry of b remembers.
RemoveFromFreeList(b) ==
    /\ freeList' = IF position[b] = NoBlock THEN freeList
                   ELSE RemoveFirst(freeList, position[b])
    /\ position' = [position EXCEPT ![b] = NoBlock]

EndsCall(p) == want' = [want EXCEPT ![p] = NoKey]
Gets(p, b) ==
    /\ EndsCall(p)
    /\ held' = [held EXCEPT ![p] = @ \cup {b}]
    /\ pc' = [pc EXCEPT ![p] = "use"]

\* GetBlock: the block is cached and not locked.
Hit_TakesLocked(p) ==
    /\ pc[p] = "get"
    /\ \E b \in Entries(want[p]) :
        /\ locked' = [locked EXCEPT ![b] = TRUE]
        /\ RemoveFromFreeList(b)
        /\ Gets(p, b)
    /\ UNCHANGED <<key, valid, data, chain, keyEvents, hostVars>>
Hit(p) ==
    /\ pc[p] = "get"
    /\ \E b \in Entries(want[p]) :
        /\ ~locked[b]
        /\ locked' = [locked EXCEPT ![b] = TRUE]
        /\ RemoveFromFreeList(b)
        /\ Gets(p, b)
    /\ UNCHANGED <<key, valid, data, chain, keyEvents, hostVars>>

\* GetBlock: the block is not cached and no buffer is free.
WaitForAny(p) ==
    /\ pc[p] = "get"
    /\ Entries(want[p]) = {}
    /\ freeList = <<>>
    /\ Sleeps(p, "waitAny")
    /\ UNCHANGED <<bufferVars, cacheVars, want, held, hostVars>>

\* GetBlock: the least recently used buffer is taken for the block; what it held
\* is dropped.
ReusedValid_Kept(b) == valid[b]
ReusedValid(b) == FALSE

\* RemoveFromHashQueue and InsertIntoHashQueue.
Rehashed_EntryKept(b, k) == [chain EXCEPT ![HashQueue(k)] = @ \cup {b}]
Rehashed(b, k) ==
    [q \in DOMAIN chain |->
        IF q = HashQueue(k) THEN chain[q] \cup {b}
        ELSE IF key[b] # NoKey /\ q = HashQueue(key[b]) THEN chain[q] \ {b}
        ELSE chain[q]]

Victim == Head(freeList)

Miss(p) ==
    /\ pc[p] = "get"
    /\ Entries(want[p]) = {}
    /\ freeList # <<>>
    /\ freeList' = Tail(freeList)
    /\ chain' = Rehashed(Victim, want[p])
    /\ position' = [position EXCEPT ![Victim] = NoBlock]
    /\ key' = [key EXCEPT ![Victim] = want[p]]
    /\ valid' = [valid EXCEPT ![Victim] = ReusedValid(Victim)]
    /\ data' = [data EXCEPT ![Victim] = 0]
    /\ locked' = [locked EXCEPT ![Victim] = TRUE]
    /\ Gets(p, Victim)
    /\ UNCHANGED <<keyEvents, hostVars>>

\* A holder reads the block from the host file if the buffer is not valid.
StartRead(p, b) ==
    /\ pc[p] = "use" /\ b \in held[p]
    /\ ~valid[b]
    /\ want' = [want EXCEPT ![p] = key[b]]
    /\ Sleeps(p, "read")
    /\ UNCHANGED <<bufferVars, cacheVars, held, hostVars>>

EndRead(p, b) ==
    /\ pc[p] = "read" /\ b \in held[p] /\ key[b] = want[p]
    /\ data' = [data EXCEPT ![b] = disk[key[b]]]
    /\ valid' = [valid EXCEPT ![b] = TRUE]
    /\ pc' = [pc EXCEPT ![p] = "use"]
    /\ EndsCall(p)
    /\ UNCHANGED <<key, locked, cacheVars, held, hostVars>>

\* A holder changes the block and writes it to the host file. WriteSuperBlock sets
\* the valid flag after the transfer, BlockFile::Write before it.
StartWrite(p, b) ==
    /\ pc[p] = "use" /\ b \in held[p]
    /\ data' = [data EXCEPT ![b] = 1 - @]
    /\ \E before \in BOOLEAN : valid' = [valid EXCEPT ![b] = @ \/ before]
    /\ want' = [want EXCEPT ![p] = key[b]]
    /\ Sleeps(p, "write")
    /\ UNCHANGED <<key, locked, cacheVars, held, hostVars>>

EndWrite(p, b) ==
    /\ pc[p] = "write" /\ b \in held[p] /\ key[b] = want[p]
    /\ disk' = [disk EXCEPT ![key[b]] = data[b]]
    /\ failed' = failed \ {key[b]}
    /\ valid' = [valid EXCEPT ![b] = TRUE]
    /\ pc' = [pc EXCEPT ![p] = "use"]
    /\ EndsCall(p)
    /\ UNCHANGED <<key, locked, data, cacheVars, held>>

\* The request failed: the exception leaves the flags as they are.
TransferFails(p) ==
    /\ pc[p] \in {"read", "write"}
    /\ failed' = IF pc[p] = "write" THEN failed \cup {want[p]} ELSE failed
    /\ pc' = [pc EXCEPT ![p] = "unwind"]
    /\ EndsCall(p)
    /\ UNCHANGED <<bufferVars, cacheVars, held, disk>>

\* PutBlock: wakes the processes that wait for any buffer and for this key.
Woken_AnyOnly(k, q) == pc[q] = "waitAny"
Woken_KeyOnly(k, q) == pc[q] = "waitKey" /\ k \in keyEvents /\ want[q] = k
Woken(k, q) ==
    \/ pc[q] = "waitAny"
    \/ pc[q] = "waitKey" /\ k \in keyEvents /\ want[q] = k

PutBlock(p, b) ==
    /\ pc[p] \in {"use", "unwind"} /\ b \in held[p]
    /\ held' = [held EXCEPT ![p] = @ \ {b}]
    /\ pc' = [q \in Procs |->
                 IF q = p THEN IF held[p] = {b} THEN "idle" ELSE pc[p]
                 ELSE IF Woken(key[b], q) THEN "get" ELSE pc[q]]
    /\ keyEvents' = keyEvents \ {key[b]}
    /\ freeList' = Append(freeList, b)
    /\ position' = [position EXCEPT ![b] = b]
    /\ locked' = [locked EXCEPT ![b] = FALSE]
    /\ UNCHANGED <<key, valid, data, chain, want, hostVars>>

-----------------------------------------------------------------------------
Next ==
    \E p \in Procs :
        \/ Call(p)
        \/ WaitForKey(p) \/ Hit(p) \/ WaitForAny(p) \/ Miss(p)
        \/ TransferFails(p)
        \/ \E b \in Blocks :
            \/ StartRead(p, b) \/ EndRead(p, b)
            \/ StartWrite(p, b) \/ EndWrite(p, b)
            \/ PutBlock(p, b)

Spec == Init /\ [][Next]_vars

\* A process in GetBlock goes on, a transfer ends, and a holder puts its blocks.
FairSpec ==
    /\ Spec
    /\ \A p \in Procs :
        /\ WF_vars(WaitForKey(p) \/ Hit(p) \/ WaitForAny(p) \/ Miss(p))
        /\ WF_vars(TransferFails(p) \/ \E b \in Blocks : EndRead(p, b) \/ EndWrite(p, b))
        /\ \A b \in Blocks : SF_vars(PutBlock(p, b))

-----------------------------------------------------------------------------
(* Properties.                                                             *)

\* A block is in at most one buffer, however many processes miss it at once, and
\* the hash table finds that buffer: a buffer has one entry, in the chain of its key.
OneBufferPerBlock ==
    \A b \in Blocks :
        /\ key[b] # NoKey => \A c \in Blocks : key[c] = key[b] => c = b
        /\ \A q \in DOMAIN chain : b \in chain[q] <=> key[b] # NoKey /\ q = HashQueue(key[b])

\* A buffer has at most one holder; it is on the free list, once, exactly when
\* it has none; and the position that RemoveFromFreeList will erase is its own.
LockedMeansHeld ==
    /\ \A b \in Blocks :
        /\ Cardinality({p \in Procs : b \in held[p]}) = IF locked[b] THEN 1 ELSE 0
        /\ Cardinality({i \in DOMAIN freeList : freeList[i] = b}) =
               IF locked[b] THEN 0 ELSE 1
        /\ key[b] # NoKey /\ ~locked[b] => position[b] = b

\* No lost wakeup: a process that waits for a key waits for a locked buffer, with
\* an event that PutBlock will find; one that waits for any buffer, for none free.
SleepersHaveReason ==
    \A p \in Procs :
        /\ pc[p] = "waitKey" =>
               /\ want[p] \in keyEvents
               /\ \E b \in Entries(want[p]) : locked[b]
        /\ pc[p] = "waitAny" => freeList = <<>>

\* Processes that hold blocks while they wait for others, taken in the order of
\* the keys, do not all wait for each other: if nobody goes on, the buffers are
\* exhausted, and someone who holds one waits for any.
NotAllAsleep ==
    (\A p \in Procs : pc[p] \in {"waitKey", "waitAny"}) =>
        \E p \in Procs : pc[p] = "waitAny" /\ held[p] # {}

\* What is cached and not being written is what the host file has, so dropping a
\* buffer loses nothing, unless the write of the block failed.
CacheCoherent ==
    \A b \in Blocks : key[b] # NoKey /\ valid[b] /\ data[b] # disk[key[b]] =>
        \/ key[b] \in failed
        \/ \E p \in Procs : b \in held[p] /\ pc[p] = "write" /\ want[p] = key[b]

\* A process that waits for a block is eventually woken up.
WaiterWakes ==
    \A p \in Procs :
        (pc[p] \in {"waitKey", "waitAny"}) ~> (pc[p] \notin {"waitKey", "waitAny"})
=============================================================================
