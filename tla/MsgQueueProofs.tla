--------------------------- MODULE MsgQueueProofs ---------------------------
(***************************************************************************)
(* Proofs about MsgQueue, for any finite set of processes, any names, and  *)
(* any bounds.                                                             *)
(***************************************************************************)
EXTENDS MsgQueue, FiniteSetTheorems, TLAPS

-----------------------------------------------------------------------------
(* The inductive invariant.                                                *)

\* Descriptors are given out in order: the next one has never had a queue, is in
\* nobody's list, and nobody has closed it.
Fresh ==
    \A md \in Descriptors : md >= created =>
        /\ ~IsOpen(md) /\ foreign[md] = 0
        /\ \A p \in Procs : mds[p][md] = 0

\* A message that Tick is about to put has a place.
Bounded ==
    \A md \in Descriptors :
        length[md] + alarms[md] + (IF putting = md THEN 1 ELSE 0) <= MaxMsgs

\* A call that sleeps or waits for the lock is about a descriptor.
CallsHaveTarget ==
    \A p \in Procs : pc[p] \in {"asleep", "woken", "deleting"} => target[p] \in Descriptors

QueueInv ==
    /\ TypeOK
    /\ Fresh
    /\ Bounded
    /\ CallsHaveTarget
    /\ NamesAgree
    /\ OpenMeansHeld
    /\ SleepersHaveReason

LEMMA DescriptorFacts ==
    /\ Descriptors \subseteq Nat
    /\ NoQueue \notin Descriptors
    /\ \A n \in 0 .. MaxQueues : n < MaxQueues => n \in Descriptors
    /\ MaxMsgs \in Nat /\ MaxOpens \in Nat \ {0}
BY QueueAssumption DEF Descriptors, NoQueue

-----------------------------------------------------------------------------
(* The entries of the lists of the processes, and how many they are.       *)

LEMMA EntriesFinite ==
    ASSUME NEW E \in SUBSET (Procs \X (1 .. MaxOpens))
    PROVE  IsFiniteSet(E) /\ Cardinality(E) \in Nat
<1>1. IsFiniteSet(1 .. MaxOpens)
  BY QueueAssumption, FS_Interval
<1>2. IsFiniteSet(Procs \X (1 .. MaxOpens))
  BY <1>1, QueueAssumption, FS_Product
<1> QED BY <1>2, FS_Subset, FS_CardinalityType

LEMMA OpenedFinite ==
    ASSUME NEW md
    PROVE  IsFiniteSet(Opened(md)) /\ Cardinality(Opened(md)) \in Nat
<1>1. Opened(md) \in SUBSET (Procs \X (1 .. MaxOpens))
  BY DEF Opened
<1> QED BY <1>1, EntriesFinite

\* The lists that did not change have the entries that they had.
LEMMA OpenedSame ==
    ASSUME NEW md, \A q \in Procs : mds'[q][md] = mds[q][md]
    PROVE  Opened(md)' = Opened(md)
BY DEF Opened

\* One entry goes: the count falls by one.
LEMMA OpenedLosesOne ==
    ASSUME NEW md \in Descriptors, TypeOK, TypeOK', NEW p \in Procs, mds[p][md] > 0,
           \A q \in Procs : mds'[q][md] = IF q = p THEN mds[q][md] - 1 ELSE mds[q][md]
    PROVE  Cardinality(Opened(md)') = Cardinality(Opened(md)) - 1
<1> DEFINE e == <<p, mds[p][md]>>
<1>1. mds[p][md] \in 1 .. MaxOpens /\ \A q \in Procs : mds[q][md] \in Nat
  BY QueueAssumption DEF TypeOK
<1>2. e \in Opened(md)
  BY <1>1 DEF Opened
<1>3. ASSUME NEW o \in Procs \X (1 .. MaxOpens)
      PROVE  o \in Opened(md)' <=> o \in Opened(md) /\ o # e
  <2>1. /\ o[1] \in Procs /\ o[2] \in Nat
        /\ o # e <=> (o[1] = p => o[2] # mds[p][md])
    BY QueueAssumption
  <2>2. o \in Opened(md)' <=> o[2] <= mds'[o[1]][md]
    BY DEF Opened
  <2>3. o \in Opened(md) <=> o[2] <= mds[o[1]][md]
    BY DEF Opened
  <2>4. CASE o[1] = p BY <1>1, <2>1, <2>2, <2>3, <2>4
  <2>5. CASE o[1] # p BY <1>1, <2>1, <2>2, <2>3, <2>5
  <2> QED BY <2>4, <2>5
<1>4. Opened(md)' = Opened(md) \ {e}
  BY <1>3 DEF Opened
<1> HIDE DEF e
<1>5. Cardinality(Opened(md) \ {e}) = Cardinality(Opened(md)) - 1
  BY <1>2, OpenedFinite, FS_RemoveElement
<1> QED BY <1>4, <1>5

LEMMA ColumnCount ==
    ASSUME NEW p, NEW n \in Nat
    PROVE  Cardinality({p} \X (1 .. n)) = n
<1>1. IsFiniteSet({p}) /\ Cardinality({p}) = 1
  BY FS_Singleton
<1>2. IsFiniteSet(1 .. n) /\ Cardinality(1 .. n) = IF 1 > n THEN 0 ELSE n - 1 + 1
  BY FS_Interval
<1>3. Cardinality({p} \X (1 .. n)) = Cardinality({p}) * Cardinality(1 .. n)
  BY <1>1, <1>2, FS_Product
<1> QED BY <1>1, <1>2, <1>3

\* A list is emptied: the count falls by its entries.
LEMMA OpenedLosesAll ==
    ASSUME NEW md \in Descriptors, TypeOK, TypeOK', NEW p \in Procs,
           \A q \in Procs : q # p => mds'[q][md] = mds[q][md],
           mds'[p][md] = 0
    PROVE  Cardinality(Opened(md)') = Cardinality(Opened(md)) - mds[p][md]
<1> DEFINE E == {p} \X (1 .. mds[p][md])
<1>1. mds[p][md] \in 0 .. MaxOpens /\ \A q \in Procs : mds[q][md] \in Nat
  BY QueueAssumption DEF TypeOK
<1>2. E \subseteq Opened(md)
  BY <1>1, QueueAssumption DEF Opened
<1>3. ASSUME NEW o \in Procs \X (1 .. MaxOpens)
      PROVE  o \in Opened(md)' <=> o \in Opened(md) /\ o \notin E
  <2>1. o[1] \in Procs /\ o[2] \in Nat /\ o[2] >= 1
    BY QueueAssumption
  <2>2. o \in Opened(md)' <=> o[2] <= mds'[o[1]][md]
    BY DEF Opened
  <2>3. o \in Opened(md) <=> o[2] <= mds[o[1]][md]
    BY DEF Opened
  <2>4. o \in E <=> o[1] = p /\ o[2] <= mds[p][md]
    BY <1>1, <2>1
  <2>5. CASE o[1] = p BY <1>1, <2>1, <2>2, <2>3, <2>4, <2>5
  <2>6. CASE o[1] # p BY <1>1, <2>1, <2>2, <2>3, <2>4, <2>6
  <2> QED BY <2>5, <2>6
<1>4. Opened(md)' = Opened(md) \ E
  BY <1>3 DEF Opened
<1>5. Cardinality(E) = mds[p][md]
  BY <1>1, ColumnCount
<1>6. Opened(md) \cap E = E
  BY <1>2
<1> HIDE DEF E
<1>7. Cardinality(Opened(md) \ E) = Cardinality(Opened(md)) - Cardinality(Opened(md) \cap E)
  BY OpenedFinite, FS_Difference
<1> QED BY <1>4, <1>5, <1>6, <1>7

-----------------------------------------------------------------------------
(* Every action keeps the invariant.                                       *)

LEMMA InitInv == Init => QueueInv
<1> SUFFICES ASSUME Init PROVE QueueInv
  OBVIOUS
<1> USE DescriptorFacts DEF Init
<1>1. TypeOK
  <2>1. 0 \in 0 .. MaxMsgs /\ 0 \in 0 .. MaxOpens /\ 0 \in 0 .. MaxQueues
    BY QueueAssumption
  <2>2. mds \in [Procs -> [Descriptors -> 0 .. MaxOpens]]
    BY <2>1
  <2>3. length \in [Descriptors -> 0 .. MaxMsgs] /\ alarms \in [Descriptors -> 0 .. MaxMsgs]
    BY <2>1
  <2> QED BY <2>1, <2>2, <2>3 DEF TypeOK
<1>2. Fresh /\ OpenMeansHeld /\ NamesAgree
  BY <1>1, QueueAssumption DEF Fresh, OpenMeansHeld, NamesAgree, IsOpen
<1>3. Bounded
  <2> SUFFICES ASSUME NEW md \in Descriptors
               PROVE  length[md] + alarms[md] + (IF putting = md THEN 1 ELSE 0) <= MaxMsgs
    BY DEF Bounded
  <2>1. length[md] = 0 /\ alarms[md] = 0 /\ putting # md
    OBVIOUS
  <2> QED BY <2>1
<1>4. CallsHaveTarget /\ SleepersHaveReason
  BY DEF CallsHaveTarget, SleepersHaveReason
<1> QED BY <1>1, <1>2, <1>3, <1>4 DEF QueueInv

\* The queues that stay open keep their counts, and the lists are as they were.
LEMMA HeldKept ==
    ASSUME QueueInv,
           \A md \in Descriptors : IsOpen(md)' =>
               IsOpen(md) /\ referenceCount'[md] = referenceCount[md],
           UNCHANGED <<mds, foreign>>
    PROVE  OpenMeansHeld'
<1>1. \A md \in Descriptors : Opened(md)' = Opened(md)
  BY OpenedSame
<1> QED BY <1>1 DEF QueueInv, OpenMeansHeld

\* The names and the tables are as they were, and the lists grow only by open queues.
NamesKept ==
    /\ UNCHANGED <<queueMap, created, name, foreign>>
    /\ \A p \in Procs, md \in Descriptors :
           ~IsOpen(md) /\ mds[p][md] = 0 => mds'[p][md] = 0

LEMMA NamesKeptStep ==
    ASSUME QueueInv, NamesKept
    PROVE  Fresh' /\ NamesAgree'
BY DEF QueueInv, NamesKept, Fresh, NamesAgree, IsOpen

LEMMA OpenExistingStep ==
    ASSUME QueueInv, NEW p \in Procs, NEW n \in Names, OpenExisting(p, n)
    PROVE  QueueInv'
<1> DEFINE md == queueMap[n]
<1> USE DescriptorFacts DEF QueueInv
<1>1. /\ Runs(p) /\ md \in Descriptors /\ mds[p][md] < MaxOpens
      /\ referenceCount' = [referenceCount EXCEPT ![md] = @ + 1]
      /\ mds' = [mds EXCEPT ![p][md] = @ + 1]
      /\ UNCHANGED <<queueMap, created, name, foreign, length, pc, target, result, clockVars>>
  BY DEF OpenExisting, Opens, TypeOK
<1> HIDE DEF md
<1>2. TypeOK'
  <2>1. mds' \in [Procs -> [Descriptors -> 0 .. MaxOpens]]
    BY <1>1 DEF TypeOK
  <2> QED BY <1>1, <2>1 DEF TypeOK, clockVars
<1>3. Fresh' /\ NamesAgree'
  <2>1. IsOpen(md)
    BY <1>1, QueueAssumption DEF NamesAgree, IsOpen, md
  <2>2. \A q \in Procs, d \in Descriptors : d # md => mds'[q][d] = mds[q][d]
    BY <1>1 DEF TypeOK
  <2> QED BY <1>1, <2>1, <2>2, NamesKeptStep DEF NamesKept
<1>4. Bounded'
  BY <1>1 DEF Bounded, clockVars
<1>5. CallsHaveTarget'
  BY <1>1 DEF CallsHaveTarget
<1>6. SleepersHaveReason'
  BY <1>1 DEF SleepersHaveReason, IsOpen
<1>7. OpenMeansHeld'
  <2> SUFFICES ASSUME NEW d \in Descriptors, IsOpen(d)'
               PROVE  /\ referenceCount'[d] > 0
                      /\ referenceCount'[d] + foreign'[d] = Cardinality(Opened(d)')
    BY DEF OpenMeansHeld
  <2>1. /\ referenceCount[d] \in Nat /\ referenceCount[d] > 0 /\ foreign[d] \in Nat
        /\ referenceCount[d] + foreign[d] = Cardinality(Opened(d))
        /\ foreign'[d] = foreign[d]
    BY <1>1 DEF OpenMeansHeld, IsOpen, TypeOK
  <2>2. CASE d # md
    <3>1. referenceCount'[d] = referenceCount[d] /\ \A q \in Procs : mds'[q][d] = mds[q][d]
      BY <1>1, <2>2 DEF TypeOK
    <3>2. Opened(d)' = Opened(d)
      BY <3>1, OpenedSame
    <3> QED BY <2>1, <3>1, <3>2
  <2>3. CASE d = md
    <3> DEFINE e == <<p, mds[p][md] + 1>>
    <3>1. referenceCount'[d] = referenceCount[d] + 1
      BY <1>1, <2>3 DEF TypeOK
    <3>2. /\ \A q \in Procs : mds[q][md] \in Nat
          /\ \A q \in Procs : mds'[q][md] = IF q = p THEN mds[q][md] + 1 ELSE mds[q][md]
      BY <1>1 DEF TypeOK
    <3>3. e \notin Opened(md)
      BY <3>2 DEF Opened
    <3>4. ASSUME NEW o \in Procs \X (1 .. MaxOpens)
          PROVE  o \in Opened(md)' <=> o \in Opened(md) \/ o = e
      <4>1. /\ o[1] \in Procs /\ o[2] \in Nat
            /\ o = e <=> o[1] = p /\ o[2] = mds[p][md] + 1
        OBVIOUS
      <4>2. o \in Opened(md)' <=> o[2] <= mds'[o[1]][md]
        BY <1>1 DEF Opened, md
      <4>3. o \in Opened(md) <=> o[2] <= mds[o[1]][md]
        BY DEF Opened
      <4>4. CASE o[1] = p BY <3>2, <4>1, <4>2, <4>3, <4>4
      <4>5. CASE o[1] # p BY <3>2, <4>1, <4>2, <4>3, <4>5
      <4> QED BY <4>4, <4>5
    <3>5. e \in Procs \X (1 .. MaxOpens)
      BY <1>1, <3>2
    <3>6. Opened(md)' = Opened(md) \cup {e}
      BY <3>4, <3>5 DEF Opened
    <3> HIDE DEF e
    <3>7. Cardinality(Opened(md) \cup {e}) = Cardinality(Opened(md)) + 1
      BY <3>3, OpenedFinite, FS_AddElement
    <3>8. Opened(d)' = Opened(md) \cup {e} /\ Opened(d) = Opened(md)
      BY <1>1, <2>3, <3>6 DEF md
    <3> QED BY <2>1, <3>1, <3>7, <3>8, OpenedFinite
  <2> QED BY <2>2, <2>3
<1> QED BY <1>2, <1>3, <1>4, <1>5, <1>6, <1>7

\* The next descriptor has had no queue, and the name has none: the tables agree.
LEMMA CreateStep ==
    ASSUME QueueInv, NEW p \in Procs, NEW n \in Names, Create(p, n)
    PROVE  QueueInv'
<1> DEFINE md == created
<1> USE DescriptorFacts DEF QueueInv
<1>1. /\ Runs(p) /\ queueMap[n] = NoQueue /\ md < MaxQueues
      /\ created' = md + 1
      /\ queueMap' = [queueMap EXCEPT ![n] = md]
      /\ name' = [name EXCEPT ![md] = n]
      /\ referenceCount' = [referenceCount EXCEPT ![md] = 1]
      /\ UNCHANGED <<foreign, length, pc, target, result, clockVars>>
  BY DEF Create
<1>2. md \in Descriptors /\ md \in Nat /\ ~IsOpen(md) /\ foreign[md] = 0 /\ n # NoName
  BY <1>1, QueueAssumption DEF TypeOK, Fresh
<1>3. /\ mds[p][md] \in 0 .. MaxOpens
      /\ mds' = [mds EXCEPT ![p][md] = @ + 1]
  BY <1>2 DEF TypeOK, Create, Opens
<1> HIDE DEF md
<1>4. mds[p][md] = 0 /\ \A q \in Procs, d \in Descriptors : mds'[q][d] = IF q = p /\ d = md THEN 1 ELSE mds[q][d]
  BY <1>1, <1>2, <1>3 DEF TypeOK, Fresh, md
<1>5. TypeOK'
  <2>1. mds' \in [Procs -> [Descriptors -> 0 .. MaxOpens]]
    BY <1>2, <1>3, <1>4 DEF TypeOK
  <2>2. created' \in 0 .. MaxQueues
    BY <1>1, <1>2, QueueAssumption
  <2> QED BY <1>1, <1>2, <2>1, <2>2 DEF TypeOK, clockVars
<1>6. \A d \in Descriptors : d # md => name'[d] = name[d] /\ referenceCount'[d] = referenceCount[d]
  BY <1>1 DEF TypeOK
<1>7. Fresh'
  <2> SUFFICES ASSUME NEW d \in Descriptors, d >= created'
               PROVE  ~IsOpen(d)' /\ foreign'[d] = 0 /\ \A q \in Procs : mds'[q][d] = 0
    BY DEF Fresh
  <2>1. d # md /\ d >= created
    BY <1>1, <1>2 DEF md
  <2> QED BY <1>1, <1>4, <1>6, <2>1 DEF Fresh, IsOpen
<1>8. NamesAgree'
  <2>1. \A m \in Names : queueMap[m] # md /\ name[md] # m
    BY <1>2, QueueAssumption DEF NamesAgree, IsOpen
  <2>2. \A d \in Descriptors : name[d] # n
    BY <1>1 DEF NamesAgree
  <2>3. /\ \A m \in Names : queueMap'[m] = IF m = n THEN md ELSE queueMap[m]
        /\ name'[md] = n
    BY <1>1, <1>2 DEF TypeOK
  <2> QED BY <1>6, <2>1, <2>2, <2>3 DEF NamesAgree
<1>9. Bounded' /\ CallsHaveTarget'
  BY <1>1 DEF Bounded, CallsHaveTarget, clockVars
<1>10. SleepersHaveReason'
  <2> SUFFICES ASSUME NEW q \in Procs, pc[q] = "asleep"
               PROVE  IsOpen(target[q])' /\ length[target[q]] = 0
    BY <1>1 DEF SleepersHaveReason
  <2>1. IsOpen(target[q]) /\ length[target[q]] = 0 /\ target[q] \in Descriptors
    BY <1>1 DEF SleepersHaveReason, Runs, CallsHaveTarget
  <2> QED BY <1>1, <1>2, <1>6, <2>1 DEF IsOpen
<1>11. OpenMeansHeld'
  <2> SUFFICES ASSUME NEW d \in Descriptors, IsOpen(d)'
               PROVE  /\ referenceCount'[d] > 0
                      /\ referenceCount'[d] + foreign'[d] = Cardinality(Opened(d)')
    BY DEF OpenMeansHeld
  <2>1. CASE d # md
    <3>1. IsOpen(d) /\ referenceCount'[d] = referenceCount[d]
      BY <1>6, <2>1 DEF IsOpen
    <3>2. Opened(d)' = Opened(d)
      BY <1>4, <2>1, OpenedSame
    <3> QED BY <1>1, <3>1, <3>2 DEF OpenMeansHeld
  <2>2. CASE d = md
    <3>1. referenceCount'[d] = 1
      BY <1>1, <1>2, <2>2 DEF TypeOK
    <3>2. \A q \in Procs : mds'[q][d] = IF q = p THEN 1 ELSE 0
      BY <1>2, <1>4, <2>2 DEF Fresh, md
    <3>3. ASSUME NEW o \in Procs \X (1 .. MaxOpens)
          PROVE  o \in Opened(d)' <=> o = <<p, 1>>
      <4>1. /\ o[1] \in Procs /\ o[2] \in Nat /\ o[2] >= 1
            /\ o = <<p, 1>> <=> o[1] = p /\ o[2] = 1
        OBVIOUS
      <4>2. o \in Opened(d)' <=> o[2] <= mds'[o[1]][d]
        BY DEF Opened
      <4> QED BY <3>2, <4>1, <4>2
    <3>4. <<p, 1>> \in Procs \X (1 .. MaxOpens)
      OBVIOUS
    <3>5. Opened(d)' = {<<p, 1>>}
      BY <3>3, <3>4 DEF Opened
    <3>6. Cardinality({<<p, 1>>}) = 1
      BY FS_Singleton
    <3> QED BY <1>1, <1>2, <2>2, <3>1, <3>5, <3>6
  <2> QED BY <2>1, <2>2
<1> QED BY <1>5, <1>7, <1>8, <1>9, <1>10, <1>11

\* One entry of one list and one off the count; the last close deletes the queue,
\* and is the reason of those who sleep on it until it wakes them up.
LEMMA CloseMsgQStep ==
    ASSUME QueueInv, NEW p \in Procs, NEW md \in Descriptors, CloseMsgQ(p, md)
    PROVE  QueueInv'
<1> USE DescriptorFacts DEF QueueInv
<1>1. /\ Runs(p) /\ IsOpen(md)
      /\ foreign' = [foreign EXCEPT ![md] = IF mds[p][md] = 0 THEN @ + 1 ELSE @]
      /\ mds' = [mds EXCEPT ![p][md] = IF @ = 0 THEN 0 ELSE @ - 1]
      /\ referenceCount' = [referenceCount EXCEPT ![md] = @ - 1]
      /\ UNCHANGED <<created, result, clockVars>>
  BY DEF CloseMsgQ
<1>2. referenceCount[md] \in Nat /\ referenceCount[md] > 0
  BY <1>1 DEF TypeOK, OpenMeansHeld
<1>3. /\ \A q \in Procs, d \in Descriptors : mds[q][d] \in 0 .. MaxOpens /\ mds[q][d] \in Nat
      /\ \A q \in Procs, d \in Descriptors :
            mds'[q][d] = IF q = p /\ d = md /\ mds[q][d] # 0 THEN mds[q][d] - 1 ELSE mds[q][d]
  BY <1>1 DEF TypeOK
<1>4. /\ mds' \in [Procs -> [Descriptors -> 0 .. MaxOpens]]
      /\ referenceCount' \in [Descriptors -> Nat]
      /\ foreign' \in [Descriptors -> Nat]
  <2>1. (IF mds[p][md] = 0 THEN 0 ELSE mds[p][md] - 1) \in 0 .. MaxOpens
    BY <1>3
  <2> QED BY <1>1, <1>2, <2>1 DEF TypeOK
<1>5. \A d \in Descriptors : d # md => foreign'[d] = foreign[d]
  BY <1>1 DEF TypeOK
<1>6. CASE referenceCount[md] = 1
  <2>1. /\ queueMap' = [n \in Names |-> IF queueMap[n] \in {md} THEN NoQueue ELSE queueMap[n]]
        /\ name' = [d \in Descriptors |-> IF d \in {md} THEN NoName ELSE name[d]]
        /\ length' = [d \in Descriptors |-> IF d \in {md} THEN 0 ELSE length[d]]
        /\ pc' = [pc EXCEPT ![p] = "deleting"]
        /\ target' = [target EXCEPT ![p] = md]
    BY <1>6 DEF CloseMsgQ, Delete
  <2>2. TypeOK'
    BY <1>1, <1>4, <2>1 DEF TypeOK, clockVars
  <2>3. Fresh'
    BY <1>1, <1>3, <1>5, <2>1 DEF Fresh, IsOpen
  <2>4. NamesAgree'
    BY <2>1, QueueAssumption DEF NamesAgree
  <2>5. Bounded'
    BY <1>1, <2>1 DEF Bounded, TypeOK, clockVars
  <2>6. CallsHaveTarget'
    BY <1>1, <2>1 DEF CallsHaveTarget, TypeOK
  <2>7. SleepersHaveReason'
    <3> SUFFICES ASSUME NEW q \in Procs, pc'[q] = "asleep"
                 PROVE  \/ IsOpen(target[q])' /\ length'[target'[q]] = 0
                        \/ \E r \in Procs : pc'[r] = "deleting" /\ target'[r] = target'[q]
      BY <2>1 DEF SleepersHaveReason, TypeOK, IsOpen
    <3>1. /\ q # p /\ pc[q] = "asleep" /\ target'[q] = target[q] /\ target[q] \in Descriptors
          /\ IsOpen(target[q]) /\ length[target[q]] = 0
      BY <1>1, <2>1 DEF SleepersHaveReason, TypeOK, Runs, CallsHaveTarget
    <3>2. pc'[p] = "deleting" /\ target'[p] = md
      BY <2>1 DEF TypeOK
    <3> QED BY <2>1, <3>1, <3>2 DEF IsOpen
  <2>8. OpenMeansHeld'
    <3> SUFFICES ASSUME NEW d \in Descriptors, IsOpen(d)'
                 PROVE  /\ referenceCount'[d] > 0
                        /\ referenceCount'[d] + foreign'[d] = Cardinality(Opened(d)')
      BY DEF OpenMeansHeld
    <3>1. d # md /\ IsOpen(d) /\ referenceCount'[d] = referenceCount[d]
      BY <1>1, <2>1 DEF IsOpen, TypeOK
    <3>2. Opened(d)' = Opened(d)
      BY <1>3, <3>1, OpenedSame
    <3> QED BY <1>5, <3>1, <3>2 DEF OpenMeansHeld
  <2> QED BY <2>2, <2>3, <2>4, <2>5, <2>6, <2>7, <2>8
<1>7. CASE referenceCount[md] # 1
  <2>1. UNCHANGED <<queueMap, name, length, pc, target>>
    BY <1>7 DEF CloseMsgQ
  <2>2. TypeOK'
    BY <1>1, <1>4, <2>1 DEF TypeOK, clockVars
  <2>3. Fresh' /\ NamesAgree'
    BY <1>1, <1>3, <1>5, <2>1 DEF Fresh, NamesAgree, IsOpen
  <2>4. Bounded' /\ CallsHaveTarget'
    BY <1>1, <2>1 DEF Bounded, CallsHaveTarget, clockVars
  <2>5. SleepersHaveReason'
    BY <2>1 DEF SleepersHaveReason, IsOpen
  <2>6. OpenMeansHeld'
    <3> SUFFICES ASSUME NEW d \in Descriptors, IsOpen(d)'
                 PROVE  /\ referenceCount'[d] > 0
                        /\ referenceCount'[d] + foreign'[d] = Cardinality(Opened(d)')
      BY DEF OpenMeansHeld
    <3>1. /\ IsOpen(d) /\ referenceCount[d] \in Nat /\ referenceCount[d] > 0
          /\ foreign[d] \in Nat /\ Cardinality(Opened(d)) \in Nat
          /\ referenceCount[d] + foreign[d] = Cardinality(Opened(d))
      BY <2>1, OpenedFinite DEF IsOpen, TypeOK, OpenMeansHeld
    <3>2. /\ referenceCount'[d] = IF d = md THEN referenceCount[d] - 1 ELSE referenceCount[d]
          /\ foreign'[d] = IF d = md /\ mds[p][md] = 0 THEN foreign[d] + 1 ELSE foreign[d]
      BY <1>1 DEF TypeOK
    <3>3. CASE d = md /\ mds[p][md] # 0
      <4>1. Cardinality(Opened(md)') = Cardinality(Opened(md)) - 1
        BY <1>3, <2>2, <3>3, OpenedLosesOne
      <4> QED BY <1>7, <3>1, <3>2, <3>3, <4>1
    <3>4. CASE ~ (d = md /\ mds[p][md] # 0)
      <4>1. Opened(d)' = Opened(d)
        BY <1>3, <3>4, OpenedSame
      <4> QED BY <1>7, <3>1, <3>2, <3>4, <4>1
    <3> QED BY <3>3, <3>4
  <2> QED BY <2>2, <2>3, <2>4, <2>5, <2>6
<1> QED BY <1>6, <1>7

\* The deleter wakes those who slept on the queue that it deleted.
LEMMA DeleteWakesStep ==
    ASSUME QueueInv, NEW p \in Procs, DeleteWakes(p)
    PROVE  QueueInv'
<1> USE DescriptorFacts DEF QueueInv
<1>1. /\ pc[p] = "deleting"
      /\ pc' = [q \in Procs |-> IF q = p THEN "run"
                                ELSE IF pc[q] = "asleep" /\ target[q] = target[p]
                                THEN "woken" ELSE pc[q]]
      /\ target' = [target EXCEPT ![p] = NoQueue]
      /\ UNCHANGED <<queueVars, mds, result, clockVars>>
  BY DEF DeleteWakes, Woken
<1>2. TypeOK'
  BY <1>1 DEF TypeOK, queueVars, clockVars
<1>3. Fresh' /\ NamesAgree'
  BY <1>1, NamesKeptStep DEF NamesKept, queueVars
<1>4. Bounded'
  BY <1>1 DEF Bounded, queueVars, clockVars
<1>5. CallsHaveTarget'
  BY <1>1 DEF CallsHaveTarget, TypeOK
<1>6. SleepersHaveReason'
  <2> SUFFICES ASSUME NEW q \in Procs, pc'[q] = "asleep"
               PROVE  \/ IsOpen(target[q])' /\ length'[target'[q]] = 0
                      \/ \E r \in Procs : pc'[r] = "deleting" /\ target'[r] = target'[q]
    BY DEF SleepersHaveReason, IsOpen
  <2>1. q # p /\ pc[q] = "asleep" /\ target'[q] = target[q] /\ target[q] # target[p]
    BY <1>1 DEF TypeOK
  <2>2. ASSUME NEW r \in Procs, pc[r] = "deleting", target[r] = target[q]
        PROVE  pc'[r] = "deleting" /\ target'[r] = target'[q]
    BY <1>1, <2>1, <2>2 DEF TypeOK
  <2> QED BY <1>1, <2>1, <2>2 DEF SleepersHaveReason, IsOpen, queueVars
<1>7. OpenMeansHeld'
  BY <1>1, HeldKept DEF IsOpen, queueVars
<1> QED BY <1>2, <1>3, <1>4, <1>5, <1>6, <1>7

LEMMA WaitReturnsStep ==
    ASSUME QueueInv, NEW p \in Procs, NEW md \in Descriptors, WaitReturns(p, md)
    PROVE  QueueInv'
<1> USE DescriptorFacts DEF QueueInv
<1>1. /\ \E value \in {0, -1} : result' = [result EXCEPT ![p] = value]
      /\ UNCHANGED <<queueVars, mds, pc, target, clockVars>>
  BY DEF WaitReturns, Returns
<1>2. TypeOK'
  BY <1>1 DEF TypeOK, queueVars, clockVars
<1>3. Fresh' /\ NamesAgree'
  BY <1>1, NamesKeptStep DEF NamesKept, queueVars
<1>4. Bounded' /\ CallsHaveTarget'
  BY <1>1 DEF Bounded, CallsHaveTarget, queueVars, clockVars
<1>5. SleepersHaveReason'
  BY <1>1 DEF SleepersHaveReason, IsOpen, queueVars
<1>6. OpenMeansHeld'
  BY <1>1, HeldKept DEF IsOpen, queueVars
<1> QED BY <1>2, <1>3, <1>4, <1>5, <1>6

LEMMA WaitSleepsStep ==
    ASSUME QueueInv, NEW p \in Procs, NEW md \in Descriptors, WaitSleeps(p, md)
    PROVE  QueueInv'
<1> USE DescriptorFacts DEF QueueInv
<1>1. /\ pc[p] = "run" /\ IsOpen(md) /\ length[md] = 0
      /\ pc' = [pc EXCEPT ![p] = "asleep"]
      /\ target' = [target EXCEPT ![p] = md]
      /\ UNCHANGED <<queueVars, mds, result, clockVars>>
  BY DEF WaitSleeps, Runs
<1>2. TypeOK'
  BY <1>1 DEF TypeOK, queueVars, clockVars
<1>3. Fresh' /\ NamesAgree'
  BY <1>1, NamesKeptStep DEF NamesKept, queueVars
<1>4. Bounded'
  BY <1>1 DEF Bounded, queueVars, clockVars
<1>5. CallsHaveTarget'
  BY <1>1 DEF CallsHaveTarget, TypeOK
<1>6. SleepersHaveReason'
  <2> SUFFICES ASSUME NEW q \in Procs, pc'[q] = "asleep"
               PROVE  \/ IsOpen(target[q])' /\ length'[target'[q]] = 0
                      \/ \E r \in Procs : pc'[r] = "deleting" /\ target'[r] = target'[q]
    BY DEF SleepersHaveReason, IsOpen
  <2>1. CASE q = p
    BY <1>1, <2>1 DEF TypeOK, IsOpen, queueVars
  <2>2. CASE q # p
    BY <1>1, <2>2 DEF TypeOK, SleepersHaveReason, IsOpen, queueVars
  <2> QED BY <2>1, <2>2
<1>7. OpenMeansHeld'
  BY <1>1, HeldKept DEF IsOpen, queueVars
<1> QED BY <1>2, <1>3, <1>4, <1>5, <1>6, <1>7

LEMMA WaitResumesStep ==
    ASSUME QueueInv, NEW p \in Procs, WaitResumes(p)
    PROVE  QueueInv'
<1> USE DescriptorFacts DEF QueueInv
<1>1. /\ pc[p] = "woken"
      /\ \E value \in {0, -1} : result' = [result EXCEPT ![p] = value]
      /\ pc' = [pc EXCEPT ![p] = "run"]
      /\ target' = [target EXCEPT ![p] = NoQueue]
      /\ UNCHANGED <<queueVars, mds, clockVars>>
  BY DEF WaitResumes, Returns
<1>2. TypeOK'
  BY <1>1 DEF TypeOK, queueVars, clockVars
<1>3. Fresh' /\ NamesAgree'
  BY <1>1, NamesKeptStep DEF NamesKept, queueVars
<1>4. Bounded'
  BY <1>1 DEF Bounded, queueVars, clockVars
<1>5. CallsHaveTarget'
  BY <1>1 DEF CallsHaveTarget, TypeOK
<1>6. SleepersHaveReason'
  BY <1>1 DEF TypeOK, SleepersHaveReason, IsOpen, queueVars
<1>7. OpenMeansHeld'
  BY <1>1, HeldKept DEF IsOpen, queueVars
<1> QED BY <1>2, <1>3, <1>4, <1>5, <1>6, <1>7

\* A message that is put, by a process or by the clock thread, wakes all who wait
\* for one: only the length of a queue and who sleeps change.
LEMMA PutStep ==
    ASSUME QueueInv, NEW md \in Descriptors, Put(md), length[md] < MaxMsgs,
           UNCHANGED <<queueMap, created, name, referenceCount, foreign, mds, target, result>>
    PROVE  /\ length' \in [Descriptors -> 0 .. MaxMsgs]
           /\ \A d \in Descriptors : length'[d] = IF d = md THEN length[d] + 1 ELSE length[d]
           /\ pc' \in [Procs -> {"run", "asleep", "woken", "deleting", "dead"}]
           /\ Fresh' /\ NamesAgree' /\ CallsHaveTarget' /\ SleepersHaveReason'
<1> USE DescriptorFacts DEF QueueInv
<1>1. /\ length' = [length EXCEPT ![md] = @ + 1]
      /\ pc' = [q \in Procs |-> IF pc[q] = "asleep" /\ target[q] = md THEN "woken" ELSE pc[q]]
  BY DEF Put, Woken
<1>2. /\ length' \in [Descriptors -> 0 .. MaxMsgs]
      /\ \A d \in Descriptors : length'[d] = IF d = md THEN length[d] + 1 ELSE length[d]
  BY <1>1 DEF TypeOK
<1>3. pc' \in [Procs -> {"run", "asleep", "woken", "deleting", "dead"}]
  BY <1>1 DEF TypeOK
<1>4. Fresh' /\ NamesAgree'
  BY NamesKeptStep DEF NamesKept
<1>5. CallsHaveTarget'
  BY <1>1 DEF CallsHaveTarget
<1>6. SleepersHaveReason'
  <2> SUFFICES ASSUME NEW q \in Procs, pc'[q] = "asleep"
               PROVE  \/ IsOpen(target[q])' /\ length'[target'[q]] = 0
                      \/ \E r \in Procs : pc'[r] = "deleting" /\ target'[r] = target'[q]
    BY DEF SleepersHaveReason, IsOpen
  <2>1. pc[q] = "asleep" /\ target[q] # md /\ target[q] \in Descriptors
    BY <1>1 DEF CallsHaveTarget
  <2>2. \A r \in Procs : pc[r] = "deleting" => pc'[r] = "deleting"
    BY <1>1
  <2> QED BY <1>2, <2>1, <2>2 DEF SleepersHaveReason, IsOpen
<1> QED BY <1>2, <1>3, <1>4, <1>5, <1>6

LEMMA PutMsgStep ==
    ASSUME QueueInv, NEW p \in Procs, NEW md \in Descriptors, PutMsg(p, md)
    PROVE  QueueInv'
<1> USE DescriptorFacts DEF QueueInv
<1>1. /\ Room(md) /\ Put(md) /\ putting = NoQueue
      /\ UNCHANGED <<queueMap, created, name, referenceCount, foreign, mds, target, result, clockVars>>
  BY DEF PutMsg, LockFree
<1>2. \A d \in Descriptors : length[d] \in Nat /\ alarms[d] \in Nat
  BY DEF TypeOK
<1>3. length[md] + alarms[md] < MaxMsgs
  BY <1>1, <1>2 DEF Room
<1>4. /\ length' \in [Descriptors -> 0 .. MaxMsgs]
      /\ \A d \in Descriptors : length'[d] = IF d = md THEN length[d] + 1 ELSE length[d]
      /\ pc' \in [Procs -> {"run", "asleep", "woken", "deleting", "dead"}]
      /\ Fresh' /\ NamesAgree' /\ CallsHaveTarget' /\ SleepersHaveReason'
  BY <1>1, <1>2, <1>3, PutStep
<1>5. TypeOK'
  BY <1>1, <1>4 DEF TypeOK, clockVars
<1>6. Bounded'
  BY <1>1, <1>2, <1>3, <1>4 DEF Bounded, clockVars
<1>7. OpenMeansHeld'
  BY <1>1, HeldKept DEF IsOpen
<1> QED BY <1>4, <1>5, <1>6, <1>7

\* Who takes a message runs, so nobody is deleting, and no one sleeps on a queue
\* that has messages.
LEMMA GetMsgStep ==
    ASSUME QueueInv, NEW p \in Procs, NEW md \in Descriptors, GetMsg(p, md)
    PROVE  QueueInv'
<1> USE DescriptorFacts DEF QueueInv
<1>1. /\ Runs(p) /\ length[md] > 0 /\ length' = [length EXCEPT ![md] = @ - 1]
      /\ UNCHANGED <<queueMap, created, name, referenceCount, foreign, procVars, clockVars>>
  BY DEF GetMsg
<1>2. /\ \A d \in Descriptors : length[d] \in Nat /\ alarms[d] \in Nat /\ length[d] <= MaxMsgs
      /\ \A d \in Descriptors : length'[d] = IF d = md THEN length[d] - 1 ELSE length[d]
      /\ length' \in [Descriptors -> 0 .. MaxMsgs]
  BY <1>1 DEF TypeOK
<1>3. TypeOK'
  BY <1>1, <1>2 DEF TypeOK, procVars, clockVars
<1>4. Fresh' /\ NamesAgree'
  BY <1>1, NamesKeptStep DEF NamesKept, procVars
<1>5. Bounded'
  BY <1>1, <1>2 DEF Bounded, clockVars
<1>6. CallsHaveTarget'
  BY <1>1 DEF CallsHaveTarget, procVars
<1>7. SleepersHaveReason'
  <2> SUFFICES ASSUME NEW q \in Procs, pc[q] = "asleep"
               PROVE  IsOpen(target[q]) /\ length'[target[q]] = 0
    BY <1>1 DEF SleepersHaveReason, IsOpen, procVars
  <2>1. IsOpen(target[q]) /\ length[target[q]] = 0 /\ target[q] \in Descriptors
    BY <1>1 DEF SleepersHaveReason, Runs, CallsHaveTarget
  <2> QED BY <1>1, <1>2, <2>1
<1>8. OpenMeansHeld'
  BY <1>1, HeldKept DEF IsOpen, procVars
<1> QED BY <1>3, <1>4, <1>5, <1>6, <1>7, <1>8

\* Only the clock's part changes.
LEMMA ClockStep ==
    ASSUME QueueInv, UNCHANGED <<queueVars, procVars>>
    PROVE  Fresh' /\ NamesAgree' /\ CallsHaveTarget' /\ SleepersHaveReason' /\ OpenMeansHeld'
<1> USE DEF queueVars, procVars
<1>1. Fresh' /\ NamesAgree'
  BY NamesKeptStep DEF NamesKept
<1>2. CallsHaveTarget' /\ SleepersHaveReason'
  BY DEF QueueInv, CallsHaveTarget, SleepersHaveReason, IsOpen
<1>3. OpenMeansHeld'
  BY HeldKept DEF IsOpen
<1> QED BY <1>1, <1>2, <1>3

LEMMA ScheduleMsgStep ==
    ASSUME QueueInv, NEW p \in Procs, NEW md \in Descriptors, ScheduleMsg(p, md)
    PROVE  QueueInv'
<1> USE DescriptorFacts DEF QueueInv
<1>1. /\ Room(md) /\ putting = NoQueue
      /\ alarms' = [alarms EXCEPT ![md] = @ + 1]
      /\ UNCHANGED <<queueVars, procVars, putting, terminated>>
  BY DEF ScheduleMsg, LockFree
<1>2. /\ \A d \in Descriptors : length[d] \in Nat /\ alarms[d] \in Nat
      /\ length[md] + alarms[md] < MaxMsgs
  BY <1>1 DEF TypeOK, Room
<1>3. TypeOK'
  BY <1>1, <1>2 DEF TypeOK, queueVars, procVars
<1>4. Bounded'
  <2>1. \A d \in Descriptors : alarms'[d] = IF d = md THEN alarms[d] + 1 ELSE alarms[d]
    BY <1>1 DEF TypeOK
  <2> QED BY <1>1, <1>2, <2>1 DEF Bounded, queueVars
<1> QED BY <1>1, <1>3, <1>4, ClockStep

LEMMA TickTakesStep ==
    ASSUME QueueInv, NEW md \in Descriptors, TickTakes(md)
    PROVE  QueueInv'
<1> USE DescriptorFacts DEF QueueInv
<1>1. /\ putting = NoQueue /\ alarms[md] > 0
      /\ alarms' = [alarms EXCEPT ![md] = @ - 1]
      /\ putting' \in {md, NoQueue}
      /\ UNCHANGED <<queueVars, procVars, terminated>>
  BY DEF TickTakes, LockFree
<1>2. /\ \A d \in Descriptors : length[d] \in Nat /\ alarms[d] \in Nat /\ alarms[d] <= MaxMsgs
      /\ \A d \in Descriptors : alarms'[d] = IF d = md THEN alarms[d] - 1 ELSE alarms[d]
      /\ alarms' \in [Descriptors -> 0 .. MaxMsgs]
  BY <1>1 DEF TypeOK
<1>3. TypeOK'
  BY <1>1, <1>2 DEF TypeOK, queueVars, procVars
<1>4. Bounded'
  BY <1>1, <1>2 DEF Bounded, queueVars
<1> QED BY <1>1, <1>3, <1>4, ClockStep

LEMMA TickPutsStep ==
    ASSUME QueueInv, TickPuts
    PROVE  QueueInv'
<1> DEFINE md == putting
<1> USE DescriptorFacts DEF QueueInv
<1>1. /\ md \in Descriptors /\ putting' = NoQueue
      /\ UNCHANGED <<queueMap, created, name, referenceCount, foreign, mds, target, result, alarms>>
  BY DEF TickPuts, TypeOK
<1>2. /\ \A d \in Descriptors : length[d] \in Nat /\ alarms[d] \in Nat
      /\ \A d \in Descriptors : length[d] + alarms[d] + (IF md = d THEN 1 ELSE 0) <= MaxMsgs
  BY DEF TypeOK, Bounded
<1>3. CASE IsOpen(md)
  <2>1. Put(md) /\ UNCHANGED terminated
    BY <1>3 DEF TickPuts
  <2>2. length[md] < MaxMsgs
    BY <1>1, <1>2
  <2> HIDE DEF md
  <2>3. /\ length' \in [Descriptors -> 0 .. MaxMsgs]
        /\ \A d \in Descriptors : length'[d] = IF d = md THEN length[d] + 1 ELSE length[d]
        /\ pc' \in [Procs -> {"run", "asleep", "woken", "deleting", "dead"}]
          /\ Fresh' /\ NamesAgree' /\ CallsHaveTarget' /\ SleepersHaveReason'
    BY <1>1, <2>1, <2>2, PutStep
  <2>4. TypeOK'
    BY <1>1, <2>1, <2>3 DEF TypeOK
  <2>5. Bounded'
    BY <1>1, <1>2, <2>3 DEF Bounded
  <2>6. OpenMeansHeld'
    BY <1>1, HeldKept DEF IsOpen
  <2> QED BY <2>3, <2>4, <2>5, <2>6
<1>4. CASE ~IsOpen(md)
  <2>1. terminated' = TRUE /\ UNCHANGED <<length, pc>>
    BY <1>4 DEF TickPuts
  <2>2. TypeOK'
    BY <1>1, <2>1 DEF TypeOK
  <2>3. Bounded'
    BY <1>1, <1>2, <2>1 DEF Bounded
  <2> QED BY <1>1, <2>1, <2>2, <2>3, ClockStep DEF queueVars, procVars
<1> QED BY <1>3, <1>4

\* Exit closes what is on the list of the process, and wakes the sleepers of the
\* queues that it closes for the last time.
LEMMA ExitStep ==
    ASSUME QueueInv, NEW p \in Procs, Exit(p)
    PROVE  QueueInv'
<1> DEFINE last == {md \in Descriptors : IsOpen(md) /\ Remaining(p, md) = 0}
<1> USE DescriptorFacts DEF QueueInv
<1>1. /\ Runs(p)
      /\ referenceCount' = [md \in Descriptors |-> Remaining(p, md)]
      /\ queueMap' = [n \in Names |-> IF queueMap[n] \in last THEN NoQueue ELSE queueMap[n]]
      /\ name' = [md \in Descriptors |-> IF md \in last THEN NoName ELSE name[md]]
      /\ length' = [md \in Descriptors |-> IF md \in last THEN 0 ELSE length[md]]
      /\ mds' = [mds EXCEPT ![p] = [md \in Descriptors |-> 0]]
      /\ UNCHANGED <<created, foreign, target, result, clockVars>>
  BY DEF Exit, Delete
<1>2. pc' = [q \in Procs |-> IF q = p THEN "dead"
                             ELSE IF pc[q] = "asleep" /\ target[q] \in last
                             THEN "woken" ELSE pc[q]]
  BY DEF Exit, Woken
<1>3. ASSUME NEW md \in Descriptors
      PROVE  /\ mds[p][md] \in Nat /\ referenceCount[md] \in Nat
             /\ Remaining(p, md) \in Nat
             /\ Remaining(p, md) > 0 => Remaining(p, md) = referenceCount[md] - mds[p][md]
             /\ md \in last <=> IsOpen(md) /\ Remaining(p, md) = 0
  <2>1. mds[p][md] \in Nat /\ referenceCount[md] \in Nat
    BY DEF TypeOK
  <2> QED BY <2>1 DEF Remaining
<1> HIDE DEF last
<1>4. TypeOK'
  <2>1. mds' \in [Procs -> [Descriptors -> 0 .. MaxOpens]]
    <3>1. [md \in Descriptors |-> 0] \in [Descriptors -> 0 .. MaxOpens]
      OBVIOUS
    <3> QED BY <1>1, <3>1 DEF TypeOK
  <2>2. length' \in [Descriptors -> 0 .. MaxMsgs]
    BY <1>1 DEF TypeOK
  <2>3. referenceCount' \in [Descriptors -> Nat]
    BY <1>1, <1>3
  <2>4. pc' \in [Procs -> {"run", "asleep", "woken", "deleting", "dead"}]
    BY <1>2 DEF TypeOK
  <2> QED BY <1>1, <2>1, <2>2, <2>3, <2>4 DEF TypeOK, clockVars
<1>5. Fresh'
  <2>1. \A q \in Procs, md \in Descriptors : mds[q][md] = 0 => mds'[q][md] = 0
    BY <1>1 DEF TypeOK
  <2> QED BY <1>1, <2>1 DEF Fresh, IsOpen
<1>6. NamesAgree'
  BY <1>1, QueueAssumption DEF NamesAgree
<1>7. Bounded'
  BY <1>1 DEF Bounded, TypeOK, clockVars
<1>8. CallsHaveTarget'
  BY <1>1, <1>2 DEF CallsHaveTarget
<1>9. SleepersHaveReason'
  <2> SUFFICES ASSUME NEW q \in Procs, pc'[q] = "asleep"
               PROVE  IsOpen(target[q])' /\ length'[target'[q]] = 0
    BY DEF SleepersHaveReason, IsOpen
  <2>1. q # p /\ pc[q] = "asleep" /\ target[q] \notin last /\ target[q] \in Descriptors
    BY <1>2 DEF CallsHaveTarget
  <2>2. IsOpen(target[q]) /\ length[target[q]] = 0
    BY <1>1, <2>1 DEF SleepersHaveReason, Runs
  <2> QED BY <1>1, <2>1, <2>2 DEF IsOpen
<1>10. OpenMeansHeld'
  <2> SUFFICES ASSUME NEW md \in Descriptors, IsOpen(md)'
               PROVE  /\ referenceCount'[md] > 0
                      /\ referenceCount'[md] + foreign'[md] = Cardinality(Opened(md)')
    BY DEF OpenMeansHeld
  <2>1. IsOpen(md) /\ md \notin last
    BY <1>1 DEF IsOpen
  <2>2. /\ referenceCount'[md] = referenceCount[md] - mds[p][md]
        /\ referenceCount'[md] > 0
    BY <1>1, <1>3, <2>1
  <2>3. mds'[p][md] = 0 /\ \A q \in Procs : q # p => mds'[q][md] = mds[q][md]
    BY <1>1 DEF TypeOK
  <2>4. Cardinality(Opened(md)') = Cardinality(Opened(md)) - mds[p][md]
    BY <1>4, <2>3, OpenedLosesAll
  <2>5. referenceCount[md] + foreign[md] = Cardinality(Opened(md)) /\ foreign[md] \in Nat
    BY <2>1 DEF OpenMeansHeld, TypeOK
  <2> QED BY <1>1, <1>3, <2>2, <2>4, <2>5, OpenedFinite
<1> QED BY <1>4, <1>5, <1>6, <1>7, <1>8, <1>9, <1>10

LEMMA StartStep ==
    ASSUME QueueInv, NEW p \in Procs, Start(p)
    PROVE  QueueInv'
<1> USE DescriptorFacts DEF QueueInv
<1>1. /\ pc[p] = "dead" /\ pc' = [pc EXCEPT ![p] = "run"]
      /\ UNCHANGED <<queueVars, mds, target, result, clockVars>>
  BY DEF Start
<1>2. TypeOK'
  BY <1>1 DEF TypeOK, queueVars, clockVars
<1>3. Fresh' /\ NamesAgree'
  BY <1>1, NamesKeptStep DEF NamesKept, queueVars
<1>4. Bounded'
  BY <1>1 DEF Bounded, queueVars, clockVars
<1>5. CallsHaveTarget'
  BY <1>1 DEF CallsHaveTarget, TypeOK
<1>6. SleepersHaveReason'
  BY <1>1 DEF SleepersHaveReason, TypeOK, IsOpen, queueVars
<1>7. OpenMeansHeld'
  BY <1>1, HeldKept DEF IsOpen, queueVars
<1> QED BY <1>2, <1>3, <1>4, <1>5, <1>6, <1>7

LEMMA NextStep == QueueInv /\ [Next]_vars => QueueInv'
<1> SUFFICES ASSUME QueueInv, [Next]_vars PROVE QueueInv'
  OBVIOUS
<1>1. CASE UNCHANGED vars
  <2>1. TypeOK'
    BY <1>1 DEF QueueInv, TypeOK, vars, queueVars, procVars, clockVars
  <2>2. Bounded'
    BY <1>1 DEF QueueInv, Bounded, vars, queueVars, clockVars
  <2> QED BY <1>1, <2>1, <2>2, ClockStep DEF QueueInv, vars
<1>2. ASSUME NEW p \in Procs, NEW n \in Names, OpenExisting(p, n) \/ Create(p, n)
      PROVE  QueueInv'
  BY <1>2, OpenExistingStep, CreateStep
<1>3. ASSUME NEW p \in Procs, NEW md \in Descriptors,
             \/ CloseMsgQ(p, md) \/ WaitReturns(p, md) \/ WaitSleeps(p, md)
             \/ PutMsg(p, md) \/ GetMsg(p, md) \/ ScheduleMsg(p, md)
      PROVE  QueueInv'
  BY <1>3, CloseMsgQStep, WaitReturnsStep, WaitSleepsStep, PutMsgStep, GetMsgStep,
     ScheduleMsgStep
<1>4. ASSUME NEW p \in Procs, DeleteWakes(p) \/ WaitResumes(p) \/ Exit(p) \/ Start(p)
      PROVE  QueueInv'
  BY <1>4, DeleteWakesStep, WaitResumesStep, ExitStep, StartStep
<1>5. ASSUME NEW md \in Descriptors, TickTakes(md) PROVE QueueInv'
  BY <1>5, TickTakesStep
<1>6. ASSUME TickPuts PROVE QueueInv'
  BY <1>6, TickPutsStep
<1> QED BY <1>1, <1>2, <1>3, <1>4, <1>5, <1>6 DEF Next

\* The inductive invariant holds in every state that the queues reach.
THEOREM Invariance == Spec => []QueueInv
BY InitInv, NextStep, PTL DEF Spec

\* The variables of the queues and of the clock keep their types: no reference
\* count falls below zero, and no list outgrows its bound.
THEOREM TypeCorrect == Spec => []TypeOK
BY Invariance, PTL DEF QueueInv

\* The table of the names and the vector of the queues agree.
THEOREM TablesAgree == Spec => []NamesAgree
BY Invariance, PTL DEF QueueInv

\* The count of an open queue is exactly the number of times that processes still have
\* it open, less the closes by processes that did not have it open.
THEOREM NothingLeaks == Spec => []OpenMeansHeld
BY Invariance, PTL DEF QueueInv

\* No wakeup is lost, with the clock thread in the middle of Tick and a deletion
\* that has not yet woken anybody up.
THEOREM NoLostWakeup == Spec => []SleepersHaveReason
BY Invariance, PTL DEF QueueInv
=============================================================================
