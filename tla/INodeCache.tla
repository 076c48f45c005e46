----------------------------- MODULE INodeCache -----------------------------
(***************************************************************************)
(* The inode cache of the System X kernel (system-x/kernel/inode_manager)  *)
(* and the operations of the file system that read, create, write and free *)
(* inodes through it (system-x/kernel/fs.cpp, root_fs.cpp).                *)
(*                                                                         *)
(* An inode stays locked by the process that got it until that process has *)
(* put it as often as it got it. GetINode and PutINode run under the       *)
(* machine lock. Inodes are stored in an inode block, which a process      *)
(* holds while it reads or changes them; BlockCache shows that a block has *)
(* one holder, and here the block is its holder, inb. The inodes are those *)
(* of one inode block.                                                     *)
(***************************************************************************)
EXTENDS Naturals, Sequences, FiniteSets, SequencesExt

CONSTANTS
    INodes,     \* inode numbers, the indices in the inode block
    Procs,
    MaxCached,  \* numCachedINodes
    MaxHeld,    \* how many INodePtrs a process has at once
    Blank,      \* an inode of the cache that was never used
    NoProc, NoINode

ASSUME INodeCacheAssumption ==
    /\ INodes \subseteq Nat /\ INodes # {} /\ IsFiniteSet(INodes)
    /\ Blank \notin INodes /\ NoINode \notin INodes
    /\ NoProc \notin Procs
    /\ MaxCached \in Nat \ {0} /\ MaxHeld \in Nat \ {0}

VARIABLES
    cached,     \* the inodes that have an entry in the hash queues
    locked, lockCount, locker, valid, type,  \* of each cached inode
    freeList,
    events,     \* the keys in inodeKeyMapEventMap
    inb,        \* who holds the inode block
    stored,     \* the type that the inode block has for each inode
    pc, goal, want,  \* of each process: where it is, what for, and the inode of its call
    held        \* how many INodePtrs a process has of each inode

inodeVars == <<cached, locked, lockCount, locker, valid, type>>
cacheVars == <<inodeVars, freeList, events>>
vars == <<cacheVars, inb, stored, pc, goal, want, held>>

Type == {"free", "used"}
Goals == {"none", "read", "allocate", "create", "write", "free"}
Places == {"use", "get", "asleep", "new", "getBlock", "haveBlock", "writing", "unwind"}

TypeOK ==
    /\ cached \subseteq INodes
    /\ locked \in [INodes -> BOOLEAN]
    /\ lockCount \in [INodes -> Nat]
    /\ locker \in [INodes -> Procs \cup {NoProc}]
    /\ valid \in [INodes -> BOOLEAN]
    /\ type \in [INodes -> Type]
    /\ freeList \in Seq(INodes \cup {Blank})
    /\ events \subseteq INodes
    /\ inb \in Procs \cup {NoProc}
    /\ stored \in [INodes -> Type]
    /\ pc \in [Procs -> Places]
    /\ goal \in [Procs -> Goals]
    /\ want \in [Procs -> INodes \cup {NoINode}]
    /\ held \in [Procs -> [INodes -> Nat]]

Init ==
    /\ cached = {}
    /\ locked = [i \in INodes |-> FALSE]
    /\ lockCount = [i \in INodes |-> 0]
    /\ locker = [i \in INodes |-> NoProc]
    /\ valid = [i \in INodes |-> FALSE]
    /\ type = [i \in INodes |-> "free"]
    /\ freeList = [n \in 1 .. MaxCached |-> Blank]
    /\ events = {}
    /\ inb = NoProc
    /\ stored \in [INodes -> Type]
    /\ pc = [p \in Procs |-> "use"]
    /\ goal = [p \in Procs |-> "none"]
    /\ want = [p \in Procs |-> NoINode]
    /\ held = [p \in Procs |-> [i \in INodes |-> 0]]

NumHeld(p) == FoldFunction(+, 0, held[p])

Becomes(p, place, for, i) ==
    /\ pc' = [pc EXCEPT ![p] = place]
    /\ goal' = [goal EXCEPT ![p] = for]
    /\ want' = [want EXCEPT ![p] = i]

Goes(p, place) == Becomes(p, place, goal[p], want[p])
Done(p) == Becomes(p, "use", "none", NoINode)

-----------------------------------------------------------------------------
(* The calls of the file system.                                           *)

\* ReadINode of an inode that a directory or an open file refers to.
ReadINode(p) ==
    /\ pc[p] = "use" /\ NumHeld(p) < MaxHeld
    /\ \E i \in INodes : stored[i] = "used" /\ Becomes(p, "get", "read", i)
    /\ UNCHANGED <<cacheVars, inb, stored, held>>

\* AllocateINode, for a new file or directory.
AllocateINode(p) ==
    /\ pc[p] = "use" /\ NumHeld(p) < MaxHeld
    /\ Becomes(p, "getBlock", "allocate", NoINode)
    /\ UNCHANGED <<cacheVars, inb, stored, held>>

\* WriteINode of an inode that was read.
WriteINode(p, i) ==
    /\ pc[p] = "use" /\ held[p][i] > 0 /\ valid[i]
    /\ Becomes(p, "getBlock", "write", i)
    /\ UNCHANGED <<cacheVars, inb, stored, held>>

\* FreeINode, for a file without links.
FreeINode(p, i) ==
    /\ pc[p] = "use" /\ held[p][i] > 0 /\ type[i] = "used"
    /\ type' = [type EXCEPT ![i] = "free"]
    /\ Becomes(p, "getBlock", "free", i)
    /\ UNCHANGED <<cached, locked, lockCount, locker, valid, freeList, events, inb, stored, held>>

-----------------------------------------------------------------------------
(* GetINode and PutINode.                                                  *)

\* INode::Lock, and the INodePtr that the process gets.
Locks(p, i, countBefore) ==
    /\ locked' = [locked EXCEPT ![i] = TRUE]
    /\ locker' = [locker EXCEPT ![i] = p]
    /\ lockCount' = [lockCount EXCEPT ![i] = countBefore + 1]
    /\ held' = [held EXCEPT ![p][i] = @ + 1]
    /\ IF goal[p] = "allocate" THEN Goes(p, "new")
       ELSE IF i \in cached /\ valid[i] THEN Done(p)
       ELSE Goes(p, "getBlock")

\* The inode is cached and somebody else has locked it.
SleepForINode(p) ==
    LET i == want[p] IN
    /\ pc[p] = "get"
    /\ i \in cached /\ locked[i] /\ locker[i] # p
    /\ events' = events \cup {i}
    /\ Goes(p, "asleep")
    /\ UNCHANGED <<inodeVars, freeList, inb, stored, held>>

\* The inode is cached, and not locked or locked by the process itself.
Hit_LeftInList(p) ==
    LET i == want[p] IN
    /\ pc[p] = "get"
    /\ i \in cached /\ (locked[i] => locker[i] = p)
    /\ Locks(p, i, lockCount[i])
    /\ UNCHANGED <<cached, valid, type, freeList, events, inb, stored>>
Hit_AnyLocker(p) ==
    LET i == want[p] IN
    /\ pc[p] = "get"
    /\ i \in cached
    /\ Locks(p, i, lockCount[i])
    /\ freeList' = RemoveFirst(freeList, i)
    /\ UNCHANGED <<cached, valid, type, events, inb, stored>>
Hit(p) ==
    LET i == want[p] IN
    /\ pc[p] = "get"
    /\ i \in cached /\ (locked[i] => locker[i] = p)
    /\ Locks(p, i, lockCount[i])
    /\ freeList' = RemoveFirst(freeList, i)
    /\ UNCHANGED <<cached, valid, type, events, inb, stored>>

\* The inode is not cached: the first inode of the free list is taken for it.
Miss(p) ==
    LET i == want[p]
        victim == Head(freeList)
    IN
    /\ pc[p] = "get"
    /\ i \notin cached /\ freeList # <<>>
    /\ freeList' = Tail(freeList)
    /\ cached' = (cached \ {victim}) \cup {i}
    /\ valid' = [j \in INodes |-> valid[j] /\ j \notin {i, victim}]
    /\ type' = [j \in INodes |-> IF j \in {i, victim} THEN "free" ELSE type[j]]
    /\ Locks(p, i, 0)
    /\ UNCHANGED <<events, inb, stored>>

\* PutINode wakes those who sleep for the inode when the last lock is gone.
Woken_Nobody(i) == {}
Woken(i) == {p \in Procs : pc[p] = "asleep" /\ want[p] = i /\ i \in events}

PutINode(p, i) ==
    /\ pc[p] \in {"use", "unwind"} /\ held[p][i] > 0
    /\ held' = [held EXCEPT ![p][i] = @ - 1]
    /\ lockCount' = [lockCount EXCEPT ![i] = @ - 1]
    /\ IF lockCount[i] = 1
       THEN /\ locked' = [locked EXCEPT ![i] = FALSE]
            /\ locker' = [locker EXCEPT ![i] = NoProc]
            /\ pc' = [q \in Procs |-> IF q \in Woken(i) THEN "get" ELSE pc[q]]
            /\ events' = events \ {i}
            /\ freeList' = Append(freeList, i)
       ELSE UNCHANGED <<locked, locker, pc, events, freeList>>
    /\ UNCHANGED <<cached, valid, type, inb, stored, goal, want>>

-----------------------------------------------------------------------------
(* The inode block.                                                        *)

\* ReadINodeBlock gets the block.
GetINodeBlock(p) ==
    /\ pc[p] = "getBlock" /\ inb = NoProc
    /\ inb' = p
    /\ Goes(p, "haveBlock")
    /\ UNCHANGED <<cacheVars, stored, held>>

\* ReadINode copies the inode from the block. SetINode keeps the count and the
\* locker; the flags, also the one that says that the inode is locked, are those
\* of the copy, which has none.
SetINode_NewCount(i) ==
    /\ locked' = [locked EXCEPT ![i] = FALSE]
    /\ lockCount' = [lockCount EXCEPT ![i] = 0]
    /\ UNCHANGED locker
SetINode(i) ==
    /\ locked' = [locked EXCEPT ![i] = FALSE]
    /\ UNCHANGED <<lockCount, locker>>

EndRead(p) ==
    LET i == want[p] IN
    /\ pc[p] = "haveBlock" /\ goal[p] = "read"
    /\ SetINode(i)
    /\ type' = [type EXCEPT ![i] = stored[i]]
    /\ valid' = [valid EXCEPT ![i] = TRUE]
    /\ inb' = NoProc
    /\ Done(p)
    /\ UNCHANGED <<cached, freeList, events, stored, held>>

Free == {i \in INodes : stored[i] = "free"}

\* AllocateINode finds the first free inode, and gets it with the block in hand.
FindFree(p) ==
    /\ pc[p] = "haveBlock" /\ goal[p] = "allocate"
    /\ Free # {}
    /\ Becomes(p, "get", "allocate", Min(Free))
    /\ UNCHANGED <<cacheVars, inb, stored, held>>

\* AllocateINode returns; the caller sets the type and goes on to WriteINode.
Allocated(p) ==
    /\ pc[p] = "new"
    /\ inb' = NoProc
    /\ type' = [type EXCEPT ![want[p]] = "used"]
    /\ Becomes(p, "getBlock", "create", want[p])
    /\ UNCHANGED <<cached, locked, lockCount, locker, valid, freeList, events, stored, held>>

\* WriteINode marks the inode valid; FreeINode does not. The transfer begins.
StartWrite(p) ==
    /\ pc[p] = "haveBlock" /\ goal[p] \in {"create", "write", "free"}
    /\ valid' = [valid EXCEPT ![want[p]] = @ \/ goal[p] # "free"]
    /\ Goes(p, "writing")
    /\ UNCHANGED <<cached, locked, lockCount, locker, type, freeList, events, inb, stored, held>>

EndWrite(p) ==
    /\ pc[p] = "writing"
    /\ stored' = [stored EXCEPT ![want[p]] = type[want[p]]]
    /\ inb' = NoProc
    /\ Done(p)
    /\ UNCHANGED <<cacheVars, held>>

-----------------------------------------------------------------------------
\* An exception: a transfer fails, the free list or the inodes run out, or the
\* creator may not access what it creates. The stack is unwound. A write that fails may
\* have changed the buffer of the inode block, for as long as it is cached.
MayFail(p) ==
    \/ pc[p] \in {"getBlock", "haveBlock", "writing"}
    \/ pc[p] = "get" /\ want[p] \notin cached /\ freeList = <<>>

Fails(p) ==
    /\ MayFail(p)
    /\ inb' = IF inb = p THEN NoProc ELSE inb
    /\ \/ UNCHANGED stored
       \/ pc[p] = "writing" /\ stored' = [stored EXCEPT ![want[p]] = type[want[p]]]
    /\ Becomes(p, "unwind", "none", NoINode)
    /\ UNCHANGED <<cacheVars, held>>

Unwound(p) ==
    /\ pc[p] = "unwind" /\ NumHeld(p) = 0
    /\ Done(p)
    /\ UNCHANGED <<cacheVars, inb, stored, held>>

Next ==
    \E p \in Procs :
        \/ ReadINode(p) \/ AllocateINode(p)
        \/ SleepForINode(p) \/ Hit(p) \/ Miss(p)
        \/ GetINodeBlock(p) \/ EndRead(p) \/ FindFree(p) \/ Allocated(p)
        \/ StartWrite(p) \/ EndWrite(p)
        \/ Fails(p) \/ Unwound(p)
        \/ \E i \in INodes : WriteINode(p, i) \/ FreeINode(p, i) \/ PutINode(p, i)

Spec == Init /\ [][Next]_vars

-----------------------------------------------------------------------------
(* Properties.                                                             *)

Times(x) == Cardinality({n \in DOMAIN freeList : freeList[n] = x})

\* The INodePtrs that processes have of an inode, those of each process numbered.
Ptrs(i) == UNION {{p} \X (1 .. held[p][i]) : p \in Procs}

\* The lock count of an inode is the number of INodePtrs that processes have of it,
\* although reading an inode loses its locked flag and several processes can then
\* have it; and it is on the free list, once, exactly when there are none.
CountsAgree ==
    /\ \A i \in INodes :
        LET holds == Cardinality(Ptrs(i)) IN
        /\ holds = IF i \in cached THEN lockCount[i] ELSE 0
        /\ Times(i) = IF i \in cached /\ holds = 0 THEN 1 ELSE 0
    /\ Cardinality(cached) + Times(Blank) = MaxCached

\* No lost wakeup: whoever sleeps for an inode sleeps for one that is cached and
\* that somebody has, with an event that PutINode will find.
SleepersHaveReason ==
    \A p \in Procs : pc[p] = "asleep" =>
        want[p] \in cached /\ lockCount[want[p]] > 0 /\ want[p] \in events

Creating(p) == pc[p] = "new" \/ goal[p] = "create"

\* Two processes that create files at once never create the same inode, although
\* neither marks it as used before it has written it.
CreatedOnce ==
    \A p, q \in Procs : Creating(p) /\ Creating(q) /\ want[p] = want[q] => p = q
=============================================================================
