-------------------------- MODULE BlockCacheProofs --------------------------
(***************************************************************************)
(* Proofs about BlockCache, for any finite set of buffers and of block     *)
(* keys, any processes, and any number of hash chains.                     *)
(***************************************************************************)
EXTENDS BlockCache, FiniteSetTheorems, SequenceTheorems, WellFoundedInduction, TLAPS

-----------------------------------------------------------------------------
(* Sequences without repetition: what the operations on the free list do.  *)

LEMMA RangeIs ==
    ASSUME NEW S, NEW s \in Seq(S)
    PROVE  /\ \A x : x \in Range(s) <=> \E i \in 1 .. Len(s) : s[i] = x
           /\ IsInjective(s) <=> \A i, j \in 1 .. Len(s) : s[i] = s[j] => i = j
           /\ Range(s) \subseteq S
BY LenProperties, ElementOfSeq DEF Range, IsInjective

LEMMA AppendRange ==
    ASSUME NEW S, NEW s \in Seq(S), NEW e \in S
    PROVE  /\ Append(s, e) \in Seq(S)
           /\ Range(Append(s, e)) = Range(s) \cup {e}
           /\ IsInjective(s) /\ e \notin Range(s) => IsInjective(Append(s, e))
<1> DEFINE t == Append(s, e)
<1>1. /\ t \in Seq(S) /\ Len(t) = Len(s) + 1 /\ Len(s) \in Nat
      /\ \A i \in 1 .. Len(s) : t[i] = s[i]
      /\ t[Len(s) + 1] = e
  BY AppendProperties, LenProperties
<1> HIDE DEF t
<1>2. Range(t) = Range(s) \cup {e}
  <2>1. ASSUME NEW x \in Range(t) PROVE x \in Range(s) \cup {e}
    BY <1>1, RangeIs
  <2>2. ASSUME NEW x \in Range(s) PROVE x \in Range(t)
    <3>1. PICK i \in 1 .. Len(s) : s[i] = x BY RangeIs
    <3>2. i \in 1 .. Len(t) /\ t[i] = x BY <1>1, <3>1
    <3> QED BY <1>1, <3>2, RangeIs
  <2>3. e \in Range(t)
    <3>1. Len(s) + 1 \in 1 .. Len(t) BY <1>1
    <3> QED BY <1>1, <3>1, RangeIs
  <2> QED BY <2>1, <2>2, <2>3
<1>3. ASSUME IsInjective(s), e \notin Range(s) PROVE IsInjective(t)
  <2>1. \A i \in 1 .. Len(s) : s[i] # e
    BY <1>3, RangeIs
  <2>2. \A i, j \in 1 .. Len(s) : s[i] = s[j] => i = j
    BY <1>3, RangeIs
  <2>3. \A i, j \in 1 .. Len(t) : t[i] = t[j] => i = j
    BY <1>1, <2>1, <2>2
  <2> QED BY <1>1, <2>3, RangeIs
<1> QED BY <1>1, <1>2, <1>3 DEF t

LEMMA TailRange ==
    ASSUME NEW S, NEW s \in Seq(S), s # <<>>, IsInjective(s)
    PROVE  /\ Head(s) \in Range(s)
           /\ Tail(s) \in Seq(S)
           /\ Range(Tail(s)) = Range(s) \ {Head(s)}
           /\ IsInjective(Tail(s))
<1> DEFINE t == Tail(s)
<1>1. /\ t \in Seq(S) /\ Len(t) = Len(s) - 1 /\ Len(s) \in Nat \ {0}
      /\ \A i \in 1 .. Len(t) : t[i] = s[i + 1]
      /\ Head(s) = s[1]
  BY HeadTailProperties, EmptySeq
<1> HIDE DEF t
<1>2. \A i, j \in 1 .. Len(s) : s[i] = s[j] => i = j
  BY RangeIs
<1>3. Head(s) \in Range(s)
  BY <1>1, RangeIs
<1>4. Range(t) = Range(s) \ {Head(s)}
  <2>1. ASSUME NEW x \in Range(t) PROVE x \in Range(s) \ {Head(s)}
    <3>1. PICK i \in 1 .. Len(t) : t[i] = x BY <1>1, RangeIs
    <3>2. i + 1 \in 1 .. Len(s) /\ 1 \in 1 .. Len(s) /\ i + 1 # 1 /\ s[i + 1] = x
      BY <1>1, <3>1
    <3> QED BY <1>1, <1>2, <3>2, RangeIs
  <2>2. ASSUME NEW x \in Range(s), x # Head(s) PROVE x \in Range(t)
    <3>1. PICK i \in 1 .. Len(s) : s[i] = x BY RangeIs
    <3>2. i - 1 \in 1 .. Len(t) /\ t[i - 1] = s[i] BY <1>1, <2>2, <3>1
    <3> QED BY <1>1, <3>1, <3>2, RangeIs
  <2> QED BY <2>1, <2>2
<1>5. IsInjective(t)
  <2>1. ASSUME NEW i \in 1 .. Len(t), NEW j \in 1 .. Len(t), t[i] = t[j] PROVE i = j
    <3>1. i + 1 \in 1 .. Len(s) /\ j + 1 \in 1 .. Len(s) BY <1>1
    <3>2. i + 1 = j + 1 BY <1>1, <1>2, <2>1, <3>1
    <3> QED BY <3>2
  <2> QED BY <1>1, <2>1, RangeIs
<1> QED BY <1>1, <1>3, <1>4, <1>5 DEF t

LEMMA RemoveRange ==
    ASSUME NEW S, NEW s \in Seq(S), IsInjective(s), NEW e \in Range(s)
    PROVE  /\ RemoveFirst(s, e) \in Seq(S)
           /\ Range(RemoveFirst(s, e)) = Range(s) \ {e}
           /\ IsInjective(RemoveFirst(s, e))
<1>1. PICK n \in 1 .. Len(s) : s[n] = e
  BY RangeIs
<1>2. Len(s) \in Nat /\ \A i \in 1 .. Len(s) : s[i] \in S
  BY LenProperties, ElementOfSeq
<1>3. \A i, j \in 1 .. Len(s) : s[i] = s[j] => i = j
  BY RangeIs
<1>4. RemoveFirst(s, e) = RemoveAt(s, n)
  <2>1. {i \in 1 .. Len(s) : s[i] = e} = {n}
    BY <1>1, <1>3
  <2>2. n = Min({n})
    BY <1>2 DEF Min
  <2>3. SelectInSeq(s, LAMBDA v : v = e) = n
    BY <2>1, <2>2 DEF SelectInSeq
  <2> QED BY <1>1, <2>3 DEF RemoveFirst
<1> DEFINE before == SubSeq(s, 1, n - 1)
           after == SubSeq(s, n + 1, Len(s))
           t == before \o after
<1>5. /\ before \in Seq(S) /\ Len(before) = n - 1
      /\ \A i \in 1 .. n - 1 : before[i] = s[i]
  <2>1. \A i \in 1 .. n - 1 : s[i] \in S BY <1>2
  <2>2. 1 \in Int /\ n - 1 \in Int BY <1>2
  <2>3. \A i \in 1 .. (n - 1) - 1 + 1 : before[i] = s[1 + i - 1]
    BY <2>1, <2>2, SubSeqProperties
  <2>4. before \in Seq(S) /\ Len(before) = IF 1 <= n - 1 THEN (n - 1) - 1 + 1 ELSE 0
    BY <2>1, <2>2, SubSeqProperties
  <2> QED BY <1>2, <2>3, <2>4
<1>6. /\ after \in Seq(S) /\ Len(after) = Len(s) - n
      /\ \A i \in 1 .. Len(s) - n : after[i] = s[n + i]
  <2>1. \A i \in n + 1 .. Len(s) : s[i] \in S BY <1>2
  <2>2. n + 1 \in Int /\ Len(s) \in Int BY <1>2
  <2>3. \A i \in 1 .. Len(s) - (n + 1) + 1 : after[i] = s[(n + 1) + i - 1]
    BY <2>1, <2>2, SubSeqProperties
  <2>4. after \in Seq(S) /\ Len(after) = IF n + 1 <= Len(s) THEN Len(s) - (n + 1) + 1 ELSE 0
    BY <2>1, <2>2, SubSeqProperties
  <2> QED BY <1>2, <2>3, <2>4
<1> HIDE DEF before, after
<1>7. /\ t \in Seq(S) /\ Len(t) = Len(s) - 1
      /\ \A i \in 1 .. Len(t) : t[i] = IF i < n THEN s[i] ELSE s[i + 1]
  <2>1. /\ t \in Seq(S) /\ Len(t) = Len(before) + Len(after)
        /\ \A i \in 1 .. Len(before) + Len(after) :
               t[i] = IF i <= Len(before) THEN before[i] ELSE after[i - Len(before)]
    BY <1>5, <1>6, ConcatProperties
  <2>2. Len(t) = Len(s) - 1
    BY <1>2, <1>5, <1>6, <2>1
  <2>3. ASSUME NEW i \in 1 .. Len(t) PROVE t[i] = IF i < n THEN s[i] ELSE s[i + 1]
    <3>1. CASE i < n BY <1>2, <1>5, <2>1, <2>2, <3>1
    <3>2. CASE i >= n
      <4>1. i - (n - 1) \in 1 .. Len(s) - n /\ n + (i - (n - 1)) = i + 1
        BY <1>2, <2>2, <3>2
      <4>2. t[i] = after[i - (n - 1)]
        BY <1>2, <1>5, <2>1, <3>2
      <4> QED BY <1>2, <1>6, <3>2, <4>1, <4>2
    <3> QED BY <1>2, <2>2, <3>1, <3>2
  <2> QED BY <2>1, <2>2, <2>3
<1> HIDE DEF t
<1>8. ASSUME NEW i \in 1 .. Len(s), i # n
      PROVE \E j \in 1 .. Len(t) : t[j] = s[i]
  <2>1. CASE i < n BY <1>2, <1>7, <2>1
  <2>2. CASE i > n
    <3>1. i - 1 \in 1 .. Len(t) /\ t[i - 1] = s[i] BY <1>2, <1>7, <2>2
    <3> QED BY <3>1
  <2> QED BY <1>2, <1>8, <2>1, <2>2
<1>9. Range(t) = Range(s) \ {e}
  <2>1. ASSUME NEW x \in Range(t) PROVE x \in Range(s) \ {e}
    <3>1. PICK i \in 1 .. Len(t) : t[i] = x BY <1>7, RangeIs
    <3>2. PICK j \in 1 .. Len(s) : s[j] = x /\ j # n BY <1>2, <1>7, <3>1
    <3> QED BY <1>1, <1>3, <3>2, RangeIs
  <2>2. ASSUME NEW x \in Range(s), x # e PROVE x \in Range(t)
    <3>1. PICK i \in 1 .. Len(s) : s[i] = x BY RangeIs
    <3>2. \E j \in 1 .. Len(t) : t[j] = x BY <1>1, <1>8, <2>2, <3>1
    <3> QED BY <1>7, <3>2, RangeIs
  <2> QED BY <2>1, <2>2
<1>10. IsInjective(t)
  <2>1. ASSUME NEW i \in 1 .. Len(t), NEW j \in 1 .. Len(t), t[i] = t[j] PROVE i = j
    BY <1>2, <1>3, <1>7, <2>1
  <2> QED BY <1>7, <2>1, RangeIs
<1> QED BY <1>4, <1>7, <1>9, <1>10 DEF t, before, after, RemoveAt
-----------------------------------------------------------------------------
(* The inductive invariant.                                                *)

\* A buffer is locked exactly when a process holds it, and one process does.
Holders ==
    \A b \in Blocks :
        /\ locked[b] <=> \E p \in Procs : b \in held[p]
        /\ \A p, q \in Procs : b \in held[p] /\ b \in held[q] => p = q
        /\ locked[b] => key[b] # NoKey

\* The free list has the buffers that are not locked, each once, and the entry
\* of a cached one remembers its own place.
FreeListExact ==
    /\ IsInjective(freeList)
    /\ Range(freeList) = {b \in Blocks : ~locked[b]}
    /\ \A b \in Blocks : key[b] # NoKey /\ ~locked[b] => position[b] = b

\* A call or a transfer under way is about a key, and a call is made in the
\* order of the keys.
CallsNest ==
    \A p \in Procs :
        /\ pc[p] \in {"get", "waitKey", "waitAny", "read", "write"} => want[p] \in Keys
        /\ pc[p] \in {"get", "waitKey", "waitAny"} => \A b \in held[p] : key[b] < want[p]

CacheInv ==
    /\ TypeOK
    /\ OneBufferPerBlock
    /\ Holders
    /\ FreeListExact
    /\ CallsNest
    /\ SleepersHaveReason
    /\ CacheCoherent

LEMMA HashQueueType == \A k \in Keys : HashQueue(k) \in 0 .. Chains - 1
BY CacheAssumption DEF HashQueue

\* The hash table finds exactly the buffers that have the key.
LEMMA EntriesAre ==
    ASSUME TypeOK, OneBufferPerBlock, NEW k \in Keys
    PROVE  Entries(k) = {b \in Blocks : key[b] = k}
<1>1. HashQueue(k) \in DOMAIN chain /\ chain[HashQueue(k)] \subseteq Blocks
  BY HashQueueType DEF TypeOK
<1>2. k # NoKey
  BY CacheAssumption
<1> QED BY <1>1, <1>2 DEF Entries, OneBufferPerBlock

LEMMA InitInv == Init => CacheInv
<1> SUFFICES ASSUME Init PROVE CacheInv
  OBVIOUS
<1>1. /\ freeList \in Seq(Blocks) /\ IsInjective(freeList) /\ Range(freeList) = Blocks
  <2> DEFINE n == Cardinality(Blocks)
  <2>1. n \in Nat
    BY CacheAssumption, FS_CardinalityType
  <2>2. freeList \in [1 .. n -> Blocks] /\ \A i, j \in 1 .. n : i # j => freeList[i] # freeList[j]
    BY DEF Init, SetToSeqs
  <2>3. freeList \in Injection(1 .. n, Blocks)
    BY <2>2 DEF Injection, IsInjective
  <2>4. Cardinality(1 .. n) = n
    BY <2>1, FS_Interval
  <2>5. freeList \in Surjection(1 .. n, Blocks)
    BY <2>3, <2>4, CacheAssumption, FS_Injection
  <2> QED BY <2>1, <2>2, <2>3, <2>5 DEF Injection, Surjection, IsInjective, Range
<1>2. TypeOK
  BY <1>1 DEF Init, TypeOK, Version
<1>3. OneBufferPerBlock
  BY DEF Init, OneBufferPerBlock
<1>4. Holders /\ FreeListExact
  BY <1>1 DEF Init, Holders, FreeListExact
<1>5. CallsNest /\ SleepersHaveReason /\ CacheCoherent
  BY DEF Init, CallsNest, SleepersHaveReason, CacheCoherent
<1> QED BY <1>2, <1>3, <1>4, <1>5 DEF CacheInv

-----------------------------------------------------------------------------
(* Every action keeps the invariant.                                       *)

LEMMA CallStep == ASSUME CacheInv, NEW p \in Procs, Call(p) PROVE CacheInv'
<1> USE DEF CacheInv
<1>1. /\ pc[p] \in {"idle", "use"} /\ pc' = [pc EXCEPT ![p] = "get"]
      /\ UNCHANGED <<bufferVars, cacheVars, held, hostVars>>
  BY DEF Call
<1>2. PICK k \in Keys : /\ \A b \in held[p] : key[b] < k
                        /\ want' = [want EXCEPT ![p] = k]
  BY DEF Call
<1>3. TypeOK'
  BY <1>1, <1>2 DEF TypeOK, bufferVars, cacheVars, hostVars
<1>4. OneBufferPerBlock' /\ Holders' /\ FreeListExact'
  BY <1>1 DEF OneBufferPerBlock, Holders, FreeListExact, bufferVars, cacheVars, hostVars
<1>5. CallsNest'
  BY <1>1, <1>2 DEF TypeOK, CallsNest, bufferVars
<1>6. SleepersHaveReason'
  BY <1>1, <1>2 DEF TypeOK, SleepersHaveReason, Entries, bufferVars, cacheVars
<1>7. CacheCoherent'
  BY <1>1, <1>2 DEF TypeOK, CacheCoherent, bufferVars, hostVars
<1> QED BY <1>3, <1>4, <1>5, <1>6, <1>7

LEMMA WaitForKeyStep == ASSUME CacheInv, NEW p \in Procs, WaitForKey(p) PROVE CacheInv'
<1> USE DEF CacheInv
<1>1. /\ pc[p] = "get" /\ pc' = [pc EXCEPT ![p] = "waitKey"]
      /\ \E b \in Entries(want[p]) : locked[b]
      /\ keyEvents' = keyEvents \cup {want[p]}
      /\ UNCHANGED <<bufferVars, chain, position, freeList, want, held, hostVars>>
  BY DEF WaitForKey, Sleeps, MadeKeyEvents
<1>2. want[p] \in Keys
  BY <1>1 DEF CallsNest
<1>3. TypeOK'
  BY <1>1, <1>2 DEF TypeOK, bufferVars, hostVars
<1>4. OneBufferPerBlock' /\ Holders' /\ FreeListExact'
  BY <1>1 DEF OneBufferPerBlock, Holders, FreeListExact, bufferVars, hostVars
<1>5. CallsNest'
  BY <1>1 DEF TypeOK, CallsNest, bufferVars
<1>6. SleepersHaveReason'
  BY <1>1 DEF TypeOK, SleepersHaveReason, Entries, bufferVars
<1>7. CacheCoherent'
  BY <1>1 DEF TypeOK, CacheCoherent, bufferVars, hostVars
<1> QED BY <1>3, <1>4, <1>5, <1>6, <1>7

LEMMA WaitForAnyStep == ASSUME CacheInv, NEW p \in Procs, WaitForAny(p) PROVE CacheInv'
<1> USE DEF CacheInv
<1>1. /\ pc[p] = "get" /\ pc' = [pc EXCEPT ![p] = "waitAny"]
      /\ freeList = <<>>
      /\ UNCHANGED <<bufferVars, cacheVars, want, held, hostVars>>
  BY DEF WaitForAny, Sleeps
<1>2. TypeOK'
  BY <1>1 DEF TypeOK, bufferVars, cacheVars, hostVars
<1>3. OneBufferPerBlock' /\ Holders' /\ FreeListExact'
  BY <1>1 DEF OneBufferPerBlock, Holders, FreeListExact, bufferVars, cacheVars, hostVars
<1>4. CallsNest'
  BY <1>1 DEF TypeOK, CallsNest, bufferVars
<1>5. SleepersHaveReason'
  BY <1>1 DEF TypeOK, SleepersHaveReason, Entries, bufferVars, cacheVars
<1>6. CacheCoherent'
  BY <1>1 DEF TypeOK, CacheCoherent, bufferVars, hostVars
<1> QED BY <1>2, <1>3, <1>4, <1>5, <1>6

\* A hit finds the buffer of its key, which is free and at its own position.
LEMMA HitStep == ASSUME CacheInv, NEW p \in Procs, Hit(p) PROVE CacheInv'
<1> USE DEF CacheInv
<1>1. pc[p] = "get" /\ want[p] \in Keys /\ UNCHANGED <<key, valid, data, chain, keyEvents, hostVars>>
  BY DEF Hit, CallsNest
<1>2. PICK b \in Entries(want[p]) :
        /\ ~locked[b]
        /\ locked' = [locked EXCEPT ![b] = TRUE]
        /\ RemoveFromFreeList(b)
        /\ Gets(p, b)
  BY DEF Hit
<1>3. b \in Blocks /\ key[b] = want[p] /\ key[b] # NoKey
  BY <1>1, EntriesAre, CacheAssumption
<1>4. position[b] = b /\ b \in Range(freeList) /\ IsInjective(freeList) /\ freeList \in Seq(Blocks)
  BY <1>2, <1>3 DEF FreeListExact, TypeOK
<1>5. freeList' = RemoveFirst(freeList, b) /\ position' = [position EXCEPT ![b] = NoBlock]
  BY <1>2, <1>3, <1>4, CacheAssumption DEF RemoveFromFreeList
<1>6. /\ want' = [want EXCEPT ![p] = NoKey]
      /\ held' = [held EXCEPT ![p] = @ \cup {b}]
      /\ pc' = [pc EXCEPT ![p] = "use"]
  BY <1>2 DEF Gets, EndsCall
<1>7. /\ freeList' \in Seq(Blocks) /\ IsInjective(freeList')
      /\ Range(freeList') = Range(freeList) \ {b}
  BY <1>4, <1>5, RemoveRange
<1>8. TypeOK'
  BY <1>1, <1>2, <1>3, <1>5, <1>6, <1>7 DEF TypeOK, hostVars
<1>9. OneBufferPerBlock'
  BY <1>1 DEF OneBufferPerBlock, HashQueue
<1>10. Holders'
  BY <1>1, <1>2, <1>3, <1>6 DEF TypeOK, Holders
<1>11. FreeListExact'
  BY <1>1, <1>2, <1>3, <1>5, <1>7 DEF TypeOK, FreeListExact
<1>12. CallsNest'
  BY <1>1, <1>6 DEF TypeOK, CallsNest
<1>13. SleepersHaveReason'
  <2>1. freeList # <<>>
    BY <1>4 DEF Range
  <2>2. ASSUME NEW q \in Procs, pc'[q] = "waitKey" 
        PROVE  want'[q] \in keyEvents' /\ \E c \in Entries(want[q])' : locked'[c]
    <3>1. q # p /\ pc[q] = "waitKey" /\ want'[q] = want[q]
      BY <1>6, <2>2 DEF TypeOK
    <3>2. Entries(want[q])' = Entries(want[q])
      BY <1>1, <1>6, <3>1 DEF Entries
    <3> QED BY <1>1, <1>2, <3>1, <3>2 DEF SleepersHaveReason, TypeOK, Entries
  <2>3. ASSUME NEW q \in Procs PROVE pc'[q] # "waitAny"
    BY <1>6, <2>1 DEF SleepersHaveReason, TypeOK
  <2> QED BY <2>2, <2>3 DEF SleepersHaveReason
<1>14. CacheCoherent'
  BY <1>1, <1>3, <1>6 DEF TypeOK, CacheCoherent, hostVars
<1> QED BY <1>8, <1>9, <1>10, <1>11, <1>12, <1>13, <1>14

\* A miss takes the oldest free buffer; no buffer has the key yet.
LEMMA MissStep == ASSUME CacheInv, NEW p \in Procs, Miss(p) PROVE CacheInv'
<1> USE DEF CacheInv
<1> DEFINE v == Victim
           k == want[p]
<1>1. /\ pc[p] = "get" /\ k \in Keys /\ k # NoKey /\ freeList # <<>>
      /\ \A b \in Blocks : key[b] # k
      /\ UNCHANGED <<keyEvents, hostVars>>
  BY EntriesAre, CacheAssumption DEF Miss, CallsNest
<1>2. /\ freeList' = Tail(freeList)
      /\ position' = [position EXCEPT ![v] = NoBlock]
      /\ key' = [key EXCEPT ![v] = k]
      /\ valid' = [valid EXCEPT ![v] = FALSE]
      /\ data' = [data EXCEPT ![v] = 0]
      /\ locked' = [locked EXCEPT ![v] = TRUE]
      /\ want' = [want EXCEPT ![p] = NoKey]
      /\ held' = [held EXCEPT ![p] = @ \cup {v}]
      /\ pc' = [pc EXCEPT ![p] = "use"]
  BY DEF Miss, ReusedValid, Gets, EndsCall
<1>3. /\ v \in Range(freeList) /\ freeList' \in Seq(Blocks) /\ IsInjective(freeList')
      /\ Range(freeList') = Range(freeList) \ {v}
  BY <1>1, <1>2, TailRange DEF Victim, TypeOK, FreeListExact
<1>4. v \in Blocks /\ ~locked[v] /\ \A q \in Procs : v \notin held[q]
  BY <1>3 DEF FreeListExact, Holders
<1>5. chain' = [q \in DOMAIN chain |->
                   IF q = HashQueue(k) THEN chain[q] \cup {v}
                   ELSE IF key[v] # NoKey /\ q = HashQueue(key[v]) THEN chain[q] \ {v}
                   ELSE chain[q]]
  BY DEF Miss, Rehashed
<1> HIDE DEF v, k
<1>6. TypeOK'
  <2>1. chain' \in [0 .. Chains - 1 -> SUBSET Blocks]
    BY <1>4, <1>5 DEF TypeOK
  <2> QED BY <1>1, <1>2, <1>3, <1>4, <2>1 DEF TypeOK, hostVars, Version
<1>7. OneBufferPerBlock'
  <2>1. \A b, c \in Blocks : key'[b] # NoKey /\ key'[c] = key'[b] => c = b
    BY <1>1, <1>2, <1>4 DEF TypeOK, OneBufferPerBlock
  <2>2. ASSUME NEW q \in DOMAIN chain, NEW b \in Blocks, b # v
        PROVE  b \in chain'[q] <=> key'[b] # NoKey /\ q = HashQueue(key'[b])
    BY <1>2, <1>4, <1>5, <2>2 DEF TypeOK, OneBufferPerBlock
  <2>3. ASSUME NEW q \in DOMAIN chain
        PROVE  v \in chain'[q] <=> key'[v] # NoKey /\ q = HashQueue(key'[v])
    BY <1>1, <1>2, <1>4, <1>5 DEF TypeOK, OneBufferPerBlock
  <2>4. DOMAIN chain' = DOMAIN chain
    BY <1>5
  <2> QED BY <2>1, <2>2, <2>3, <2>4 DEF OneBufferPerBlock, HashQueue
<1>8. Holders'
  BY <1>1, <1>2, <1>4 DEF TypeOK, Holders
<1>9. FreeListExact'
  BY <1>1, <1>2, <1>3, <1>4 DEF TypeOK, FreeListExact
<1>10. CallsNest'
  BY <1>1, <1>2, <1>4 DEF TypeOK, CallsNest
<1>11. SleepersHaveReason'
  <2>1. ASSUME NEW q \in Procs, pc'[q] = "waitKey"
        PROVE  want'[q] \in keyEvents' /\ \E c \in Entries(want[q])' : locked'[c]
    <3>1. q # p /\ pc[q] = "waitKey" /\ want'[q] = want[q] /\ want[q] \in Keys
      BY <1>2, <2>1 DEF TypeOK, CallsNest
    <3>2. PICK c \in Blocks : c \in Entries(want[q]) /\ locked[c] /\ key[c] = want[q]
      BY <3>1, EntriesAre DEF SleepersHaveReason
    <3>3. c # v /\ key'[c] = want[q] /\ locked'[c]
      BY <1>2, <1>4, <3>2 DEF TypeOK
    <3>4. c \in chain'[HashQueue(want[q])]
      BY <1>4, <1>5, <3>2, <3>3, HashQueueType, <3>1 DEF Entries, TypeOK
    <3> QED BY <1>1, <3>1, <3>3, <3>4 DEF Entries, SleepersHaveReason, HashQueue
  <2>2. ASSUME NEW q \in Procs PROVE pc'[q] # "waitAny"
    BY <1>1, <1>2 DEF TypeOK, SleepersHaveReason
  <2>3. ASSUME NEW q \in Procs, pc'[q] = "waitKey" PROVE want'[q] = want[q]
    BY <1>2, <2>3 DEF TypeOK
  <2> QED BY <2>1, <2>2, <2>3 DEF SleepersHaveReason, Entries, HashQueue
<1>12. CacheCoherent'
  BY <1>1, <1>2, <1>4 DEF TypeOK, CacheCoherent, hostVars
<1> QED BY <1>6, <1>7, <1>8, <1>9, <1>10, <1>11, <1>12

\* What a transfer leaves alone: the cache itself, and who holds what.
TransferKeeps == UNCHANGED <<key, locked, cacheVars, held>>

LEMMA TransferStep ==
    ASSUME CacheInv, TransferKeeps, NEW p \in Procs, pc[p] \in {"use", "read", "write"},
           NEW after \in {"use", "read", "write", "unwind"}, pc' = [pc EXCEPT ![p] = after],
           NEW k \in Keys \cup {NoKey}, want' = [want EXCEPT ![p] = k],
           after \in {"read", "write"} => k \in Keys
    PROVE  OneBufferPerBlock' /\ Holders' /\ FreeListExact' /\ CallsNest' /\ SleepersHaveReason'
<1> USE DEF CacheInv, TransferKeeps, cacheVars
<1>1. OneBufferPerBlock'
  BY DEF OneBufferPerBlock, HashQueue
<1>2. Holders' /\ FreeListExact'
  BY DEF Holders, FreeListExact
<1>3. CallsNest'
  BY DEF TypeOK, CallsNest
<1>4. SleepersHaveReason'
  BY DEF TypeOK, SleepersHaveReason, Entries, HashQueue
<1> QED BY <1>1, <1>2, <1>3, <1>4

LEMMA StartReadStep ==
    ASSUME CacheInv, NEW p \in Procs, NEW b \in Blocks, StartRead(p, b) PROVE CacheInv'
<1> USE DEF CacheInv
<1>1. /\ pc[p] = "use" /\ b \in held[p]
      /\ want' = [want EXCEPT ![p] = key[b]] /\ pc' = [pc EXCEPT ![p] = "read"]
      /\ UNCHANGED <<bufferVars, cacheVars, held, hostVars>>
  BY DEF StartRead, Sleeps
<1>2. key[b] \in Keys
  BY <1>1 DEF Holders, TypeOK
<1>3. TypeOK'
  BY <1>1, <1>2 DEF TypeOK, bufferVars, cacheVars, hostVars
<1>4. OneBufferPerBlock' /\ Holders' /\ FreeListExact' /\ CallsNest' /\ SleepersHaveReason'
  BY <1>1, <1>2, TransferStep DEF TransferKeeps, bufferVars
<1>5. CacheCoherent'
  BY <1>1 DEF TypeOK, CacheCoherent, bufferVars, hostVars
<1> QED BY <1>3, <1>4, <1>5

LEMMA EndReadStep ==
    ASSUME CacheInv, NEW p \in Procs, NEW b \in Blocks, EndRead(p, b) PROVE CacheInv'
<1> USE DEF CacheInv
<1>1. /\ pc[p] = "read" /\ b \in held[p] /\ key[b] = want[p]
      /\ data' = [data EXCEPT ![b] = disk[key[b]]]
      /\ valid' = [valid EXCEPT ![b] = TRUE]
      /\ want' = [want EXCEPT ![p] = NoKey] /\ pc' = [pc EXCEPT ![p] = "use"]
      /\ UNCHANGED <<key, locked, cacheVars, held, hostVars>>
  BY DEF EndRead, EndsCall
<1>2. key[b] \in Keys
  BY <1>1 DEF Holders, TypeOK
<1>3. TypeOK'
  BY <1>1, <1>2 DEF TypeOK, cacheVars, hostVars
<1>4. OneBufferPerBlock' /\ Holders' /\ FreeListExact' /\ CallsNest' /\ SleepersHaveReason'
  BY <1>1, TransferStep DEF TransferKeeps
<1>5. CacheCoherent'
  BY <1>1, <1>2 DEF TypeOK, CacheCoherent, hostVars
<1> QED BY <1>3, <1>4, <1>5

LEMMA StartWriteStep ==
    ASSUME CacheInv, NEW p \in Procs, NEW b \in Blocks, StartWrite(p, b) PROVE CacheInv'
<1> USE DEF CacheInv
<1>1. /\ pc[p] = "use" /\ b \in held[p]
      /\ data' = [data EXCEPT ![b] = 1 - @]
      /\ want' = [want EXCEPT ![p] = key[b]] /\ pc' = [pc EXCEPT ![p] = "write"]
      /\ UNCHANGED <<key, locked, cacheVars, held, hostVars>>
  BY DEF StartWrite, Sleeps
<1>2. PICK before \in BOOLEAN : valid' = [valid EXCEPT ![b] = @ \/ before]
  BY DEF StartWrite
<1>3. key[b] \in Keys
  BY <1>1 DEF Holders, TypeOK
<1>4. TypeOK'
  <2>1. valid' \in [Blocks -> BOOLEAN]
    BY <1>2, Zenon DEF TypeOK
  <2>2. data' \in [Blocks -> Version]
    BY <1>1 DEF TypeOK, Version
  <2> QED BY <1>1, <1>3, <2>1, <2>2 DEF TypeOK, cacheVars, hostVars
<1>5. OneBufferPerBlock' /\ Holders' /\ FreeListExact' /\ CallsNest' /\ SleepersHaveReason'
  BY <1>1, <1>3, TransferStep DEF TransferKeeps
<1>6. CacheCoherent'
  <2>1. \A c \in Blocks : c # b => data'[c] = data[c] /\ valid'[c] = valid[c]
    BY <1>1, <1>2 DEF TypeOK
  <2>2. b \in held'[p] /\ pc'[p] = "write" /\ want'[p] = key'[b]
    BY <1>1 DEF TypeOK
  <2>3. \A q \in Procs : q # p => pc'[q] = pc[q] /\ want'[q] = want[q]
    BY <1>1 DEF TypeOK
  <2> QED BY <1>1, <2>1, <2>2, <2>3 DEF CacheCoherent, hostVars
<1> QED BY <1>4, <1>5, <1>6

\* The write of one block is no write of another: no other buffer has its key.
LEMMA EndWriteStep ==
    ASSUME CacheInv, NEW p \in Procs, NEW b \in Blocks, EndWrite(p, b) PROVE CacheInv'
<1> USE DEF CacheInv
<1>1. /\ pc[p] = "write" /\ b \in held[p] /\ key[b] = want[p]
      /\ disk' = [disk EXCEPT ![key[b]] = data[b]]
      /\ failed' = failed \ {key[b]}
      /\ valid' = [valid EXCEPT ![b] = TRUE]
      /\ want' = [want EXCEPT ![p] = NoKey] /\ pc' = [pc EXCEPT ![p] = "use"]
      /\ UNCHANGED <<key, locked, data, cacheVars, held>>
  BY DEF EndWrite, EndsCall
<1>2. key[b] \in Keys /\ \A c \in Blocks : c # b => key[c] # key[b]
  BY <1>1 DEF Holders, TypeOK, OneBufferPerBlock
<1>3. TypeOK'
  BY <1>1, <1>2 DEF TypeOK, cacheVars
<1>4. OneBufferPerBlock' /\ Holders' /\ FreeListExact' /\ CallsNest' /\ SleepersHaveReason'
  BY <1>1, TransferStep DEF TransferKeeps
<1>5. CacheCoherent'
  BY <1>1, <1>2 DEF TypeOK, CacheCoherent
<1> QED BY <1>3, <1>4, <1>5

LEMMA TransferFailsStep == ASSUME CacheInv, NEW p \in Procs, TransferFails(p) PROVE CacheInv'
<1> USE DEF CacheInv
<1>1. /\ pc[p] \in {"read", "write"} /\ pc' = [pc EXCEPT ![p] = "unwind"]
      /\ failed' = IF pc[p] = "write" THEN failed \cup {want[p]} ELSE failed
      /\ want' = [want EXCEPT ![p] = NoKey]
      /\ UNCHANGED <<bufferVars, cacheVars, held, disk>>
  BY DEF TransferFails, EndsCall
<1>2. want[p] \in Keys
  BY <1>1 DEF CallsNest
<1>3. TypeOK'
  BY <1>1, <1>2 DEF TypeOK, bufferVars, cacheVars
<1>4. OneBufferPerBlock' /\ Holders' /\ FreeListExact' /\ CallsNest' /\ SleepersHaveReason'
  BY <1>1, TransferStep DEF TransferKeeps, bufferVars
<1>5. CacheCoherent'
  BY <1>1 DEF TypeOK, CacheCoherent, bufferVars
<1> QED BY <1>3, <1>4, <1>5

\* The buffer goes to the end of the free list; whoever waits for it is woken up.
LEMMA PutBlockStep ==
    ASSUME CacheInv, NEW p \in Procs, NEW b \in Blocks, PutBlock(p, b) PROVE CacheInv'
<1> USE DEF CacheInv
<1>1. /\ pc[p] \in {"use", "unwind"} /\ b \in held[p]
      /\ held' = [held EXCEPT ![p] = @ \ {b}]
      /\ pc' = [q \in Procs |->
                   IF q = p THEN IF held[p] = {b} THEN "idle" ELSE pc[p]
                   ELSE IF Woken(key[b], q) THEN "get" ELSE pc[q]]
      /\ keyEvents' = keyEvents \ {key[b]}
      /\ freeList' = Append(freeList, b)
      /\ position' = [position EXCEPT ![b] = b]
      /\ locked' = [locked EXCEPT ![b] = FALSE]
      /\ UNCHANGED <<key, valid, data, chain, want, hostVars>>
  BY DEF PutBlock
<1>2. /\ locked[b] /\ \A q \in Procs : q # p => b \notin held[q]
  BY <1>1 DEF Holders
<1>3. /\ freeList' \in Seq(Blocks) /\ IsInjective(freeList')
      /\ Range(freeList') = Range(freeList) \cup {b}
  BY <1>1, <1>2, AppendRange DEF TypeOK, FreeListExact
<1>4. ASSUME NEW q \in Procs, pc'[q] # pc[q]
      PROVE  \/ q = p /\ pc'[q] = "idle"
             \/ q # p /\ pc[q] \in {"waitKey", "waitAny"} /\ pc'[q] = "get"
  BY <1>1, <1>4 DEF Woken
<1>5. ASSUME NEW q \in Procs PROVE pc'[q] # "waitAny"
  BY <1>1 DEF Woken
<1>6. TypeOK'
  <2>1. pc' \in [Procs -> {"idle", "get", "waitKey", "waitAny", "use", "read", "write", "unwind"}]
    BY <1>1 DEF TypeOK
  <2> QED BY <1>1, <1>3, <2>1 DEF TypeOK, hostVars
<1>7. OneBufferPerBlock'
  BY <1>1 DEF OneBufferPerBlock, HashQueue
<1>8. Holders'
  BY <1>1, <1>2 DEF TypeOK, Holders
<1>9. FreeListExact'
  BY <1>1, <1>2, <1>3 DEF TypeOK, FreeListExact
<1>10. CallsNest'
  <2>1. \A q \in Procs : held'[q] \subseteq held[q] /\ want'[q] = want[q] /\ key' = key
    BY <1>1 DEF TypeOK
  <2> QED BY <1>4, <2>1 DEF CallsNest
<1>11. SleepersHaveReason'
  <2>1. ASSUME NEW q \in Procs, pc'[q] = "waitKey"
        PROVE  want'[q] \in keyEvents' /\ \E c \in Entries(want[q])' : locked'[c]
    <3>1. /\ q # p /\ pc[q] = "waitKey" /\ want'[q] = want[q] /\ want[q] \in Keys
          /\ ~ Woken(key[b], q)
      BY <1>1, <1>4, <2>1 DEF CallsNest
    <3>2. /\ want[q] \in keyEvents
          /\ \E c \in Entries(want[q]) : locked[c]
      BY <3>1 DEF SleepersHaveReason
    <3>3. want[q] # key[b]
      BY <3>1, <3>2 DEF Woken
    <3>4. PICK c \in Entries(want[q]) : locked[c] /\ c \in Blocks /\ key[c] = want[q]
      BY <3>1, <3>2, EntriesAre
    <3>5. locked'[c] /\ c \in Entries(want[q])'
      BY <1>1, <3>1, <3>3, <3>4 DEF Entries, HashQueue, TypeOK
    <3> QED BY <1>1, <3>1, <3>2, <3>3, <3>5
  <2>2. \A q \in Procs : want'[q] = want[q]
    BY <1>1
  <2> QED BY <1>5, <2>1, <2>2 DEF SleepersHaveReason, Entries, HashQueue
<1>12. CacheCoherent'
  <2>1. ASSUME NEW q \in Procs, pc[q] = "write" PROVE held'[q] = held[q] /\ pc'[q] = "write"
    BY <1>1, <2>1 DEF TypeOK, Woken
  <2> QED BY <1>1, <2>1 DEF CacheCoherent, hostVars
<1> QED BY <1>6, <1>7, <1>8, <1>9, <1>10, <1>11, <1>12

LEMMA StutterStep == CacheInv /\ UNCHANGED vars => CacheInv'
<1> SUFFICES ASSUME CacheInv, UNCHANGED vars PROVE CacheInv'
  OBVIOUS
<1> USE DEF CacheInv, vars, bufferVars, cacheVars, hostVars
<1>1. TypeOK' BY DEF TypeOK
<1>2. OneBufferPerBlock' BY DEF OneBufferPerBlock, HashQueue
<1>3. Holders' /\ FreeListExact' /\ CallsNest' BY DEF Holders, FreeListExact, CallsNest
<1>4. SleepersHaveReason' BY DEF SleepersHaveReason, Entries, HashQueue
<1>5. CacheCoherent' BY DEF CacheCoherent
<1> QED BY <1>1, <1>2, <1>3, <1>4, <1>5

LEMMA NextStep == CacheInv /\ [Next]_vars => CacheInv'
<1> SUFFICES ASSUME CacheInv, [Next]_vars PROVE CacheInv'
  OBVIOUS
<1>1. CASE UNCHANGED vars
  BY <1>1, StutterStep
<1>2. ASSUME NEW p \in Procs, \/ Call(p) \/ WaitForKey(p) \/ Hit(p)
                              \/ WaitForAny(p) \/ Miss(p) \/ TransferFails(p)
      PROVE  CacheInv'
  BY <1>2, CallStep, WaitForKeyStep, HitStep, WaitForAnyStep, MissStep, TransferFailsStep
<1>3. ASSUME NEW p \in Procs, NEW b \in Blocks,
             \/ StartRead(p, b) \/ EndRead(p, b)
             \/ StartWrite(p, b) \/ EndWrite(p, b) \/ PutBlock(p, b)
      PROVE  CacheInv'
  BY <1>3, StartReadStep, EndReadStep, StartWriteStep, EndWriteStep, PutBlockStep
<1> QED BY <1>1, <1>2, <1>3 DEF Next

\* The inductive invariant holds in every state that the block cache reaches.
THEOREM Invariance == Spec => []CacheInv
BY InitInv, NextStep, PTL DEF Spec

-----------------------------------------------------------------------------
(* What follows from it.                                                   *)

LEMMA OneOf ==
    ASSUME NEW S, NEW x, S = {x}
    PROVE  Cardinality(S) = 1
BY FS_Singleton

\* The counts of LockedMeansHeld are those of an empty set or of a singleton.
LEMMA CountsFollow == CacheInv => LockedMeansHeld
<1> SUFFICES ASSUME CacheInv, NEW b \in Blocks
             PROVE  /\ Cardinality({p \in Procs : b \in held[p]}) = IF locked[b] THEN 1 ELSE 0
                    /\ Cardinality({i \in DOMAIN freeList : freeList[i] = b}) =
                           IF locked[b] THEN 0 ELSE 1
                    /\ key[b] # NoKey /\ ~locked[b] => position[b] = b
  BY DEF LockedMeansHeld
<1> DEFINE H == {p \in Procs : b \in held[p]}
           F == {i \in DOMAIN freeList : freeList[i] = b}
<1>1. CASE locked[b]
  <2>1. PICK p \in Procs : b \in held[p]
    BY <1>1 DEF CacheInv, Holders
  <2>2. H = {p}
    BY <2>1 DEF CacheInv, Holders
  <2>3. F = {}
    BY <1>1 DEF CacheInv, FreeListExact, Range
  <2> HIDE DEF H, F
  <2>4. Cardinality(H) = 1 /\ Cardinality(F) = 0
    BY <2>2, <2>3, OneOf, FS_EmptySet
  <2> QED BY <1>1, <2>4 DEF H, F
<1>2. CASE ~locked[b]
  <2>1. PICK i \in DOMAIN freeList : freeList[i] = b
    BY <1>2 DEF CacheInv, FreeListExact, Range
  <2>2. F = {i}
    BY <2>1 DEF CacheInv, FreeListExact, IsInjective
  <2>3. H = {}
    BY <1>2 DEF CacheInv, Holders
  <2> HIDE DEF H, F
  <2>4. Cardinality(F) = 1 /\ Cardinality(H) = 0
    BY <2>2, <2>3, OneOf, FS_EmptySet
  <2> QED BY <1>2, <2>4 DEF H, F, CacheInv, FreeListExact
<1> QED BY <1>1, <1>2

\* A finite set of natural numbers that is not empty has a greatest element: take
\* one with as few elements above it as any.
LEMMA Greatest ==
    ASSUME NEW T \in SUBSET Nat, IsFiniteSet(T), T # {}
    PROVE  \E k \in T : \A j \in T : j <= k
<1> DEFINE Above(k) == {j \in T : j > k}
           A == {Above(k) : k \in T}
           R == StrictSubsetOrdering(T)
<1>1. IsWellFoundedOn(R, FiniteSubsetsOf(T)) /\ FiniteSubsetsOf(T) = SUBSET T
  BY FS_StrictSubsetOrderingWellFounded, FS_FiniteSubsetsOfFinite
<1>2. A \subseteq SUBSET T /\ A # {}
  OBVIOUS
<1> HIDE DEF A, R
<1>3. PICK U \in A : \A V \in A : ~ (<<V, U>> \in R)
  <2>1. IsWellFoundedOn(R, SUBSET T)
    BY <1>1
  <2> QED BY ONLY <1>2, <2>1, WFMin
<1>4. PICK k \in T : U = Above(k)
  BY <1>3 DEF A
<1>5. ASSUME NEW j \in T, j > k PROVE FALSE
  <2>1. Above(j) \in A
    BY DEF A
  <2>2. Above(j) \subseteq Above(k) /\ j \in Above(k) /\ j \notin Above(j)
    <3>1. \A i \in T : i \in Nat
      OBVIOUS
    <3>2. \A i \in T : i > j => i > k
      BY <1>5, <3>1
    <3>3. ~ (j > j)
      BY <3>1
    <3> QED BY <1>5, <3>2, <3>3
  <2>3. <<Above(j), Above(k)>> \in R
    <3>1. Above(j) \in SUBSET T /\ Above(k) \in SUBSET T /\ Above(j) # Above(k)
      BY <2>2
    <3> HIDE DEF Above
    <3> QED BY <2>2, <3>1 DEF R, StrictSubsetOrdering
  <2> QED BY <1>3, <1>4, <2>1, <2>3
<1> QED BY <1>5

\* If all wait for keys, the one with the greatest key waits for a buffer that
\* another holds, who therefore waits for a greater key: so one waits for any,
\* and all the buffers are held by sleepers.
LEMMA SomeoneGoesOn == CacheInv => NotAllAsleep
<1> SUFFICES ASSUME CacheInv, \A p \in Procs : pc[p] \in {"waitKey", "waitAny"}
             PROVE  \E p \in Procs : pc[p] = "waitAny" /\ held[p] # {}
  BY DEF NotAllAsleep
<1> USE DEF CacheInv
<1>1. ASSUME NEW p \in Procs, pc[p] = "waitKey"
      PROVE  \E q \in Procs : \E b \in held[q] : key[b] = want[p] /\ want[p] \in Keys
  <2>1. want[p] \in Keys
    BY <1>1 DEF CallsNest
  <2>2. PICK b \in Blocks : key[b] = want[p] /\ locked[b]
    BY <1>1, <2>1, EntriesAre DEF SleepersHaveReason
  <2> QED BY <2>1, <2>2 DEF Holders
<1>2. ASSUME NEW q \in Procs, NEW b \in held[q]
      PROVE  want[q] \in Keys /\ key[b] < want[q] /\ b \in Blocks
  BY DEF CallsNest, TypeOK
<1>3. CASE \E p \in Procs : pc[p] = "waitKey"
  <2> DEFINE T == {want[p] : p \in {q \in Procs : pc[q] = "waitKey"}}
  <2>1. T \subseteq Keys /\ T # {}
    BY <1>1, <1>3
  <2>2. T \in SUBSET Nat /\ IsFiniteSet(T)
    BY <2>1, CacheAssumption, FS_Subset
  <2>3. PICK k \in T : \A j \in T : j <= k
    BY <2>1, <2>2, Greatest
  <2>4. PICK p \in Procs : pc[p] = "waitKey" /\ want[p] = k
    BY <2>3
  <2>5. PICK q \in Procs : \E b \in held[q] : key[b] = want[p]
    BY <1>1, <2>4
  <2>6. k < want[q] /\ want[q] \in Nat /\ k \in Nat /\ held[q] # {}
    BY <1>2, <2>2, <2>3, <2>4, <2>5, CacheAssumption
  <2>7. pc[q] # "waitKey"
    <3>1. SUFFICES ASSUME pc[q] = "waitKey" PROVE FALSE
      OBVIOUS
    <3>2. want[q] <= k
      BY <2>3, <3>1
    <3> QED BY <2>6, <3>2
  <2> QED BY <2>6, <2>7
<1>4. CASE \A p \in Procs : pc[p] # "waitKey"
  <2>1. PICK p \in Procs : pc[p] = "waitAny"
    BY <1>4, CacheAssumption
  <2>2. freeList = <<>>
    BY <2>1 DEF SleepersHaveReason
  <2>3. PICK b \in Blocks : locked[b]
    BY <2>2, CacheAssumption DEF FreeListExact, Range
  <2> QED BY <1>4, <2>3 DEF Holders
<1> QED BY <1>3, <1>4

\* The variables of the cache keep their types.
THEOREM TypeCorrect == Spec => []TypeOK
BY Invariance, PTL DEF CacheInv

\* GetBlock never caches a block twice, and finds it whenever it is cached.
THEOREM NeverCachedTwice == Spec => []OneBufferPerBlock
BY Invariance, PTL DEF CacheInv

\* A buffer that GetBlock has returned has one holder and is not on the free list;
\* every other one is there, once, where its entry remembers it.
THEOREM OneHolder == Spec => []LockedMeansHeld
BY Invariance, CountsFollow, PTL

\* No wakeup is lost: who sleeps in GetBlock waits for what is still taken.
THEOREM NoLostWakeup == Spec => []SleepersHaveReason
BY Invariance, PTL DEF CacheInv

\* Processes that nest their blocks in the order of the keys do not wait for each
\* other in a circle.
THEOREM NoCircle == Spec => []NotAllAsleep
BY Invariance, SomeoneGoesOn, PTL

\* Dropping a buffer loses nothing that was written.
THEOREM CacheIsCoherent == Spec => []CacheCoherent
BY Invariance, PTL DEF CacheInv

\* While a process holds a buffer, the buffer keeps its block, and the block stays valid once
\* it was read: GetBlock, which runs while the holder sleeps in a transfer, never takes a
\* held buffer for another block.
HeldKeepsItsBlock ==
    [][\A p \in Procs : \A b \in held[p] : key'[b] = key[b] /\ (valid[b] => valid'[b])]_vars

\* No step, of the holder or of another process that runs while the holder sleeps, gives a
\* held buffer to another block or makes it unread again.
THEOREM NotReusedUnderItsHolder == Spec => HeldKeepsItsBlock
<1>1. ASSUME CacheInv, [Next]_vars, NEW p \in Procs, NEW b \in held[p]
      PROVE  key'[b] = key[b] /\ (valid[b] => valid'[b])
  <2>1. /\ b \in Blocks /\ b \notin Range(freeList)
        /\ key \in [Blocks -> Keys \cup {NoKey}] /\ valid \in [Blocks -> BOOLEAN]
    BY <1>1 DEF CacheInv, TypeOK, Holders, FreeListExact
  <2>2. ASSUME NEW q \in Procs, Miss(q) PROVE key'[b] = key[b] /\ valid'[b] = valid[b]
    <3>1. Victim \in Range(freeList)
      BY <1>1, <2>2, TailRange DEF Miss, Victim, CacheInv, TypeOK, FreeListExact
    <3>2. Victim # b BY <2>1, <3>1
    <3> QED BY <2>1, <2>2, <3>2 DEF Miss
  <2>3. ASSUME NEW q \in Procs, NEW c \in Blocks,
               EndRead(q, c) \/ StartWrite(q, c) \/ EndWrite(q, c)
        PROVE  key'[b] = key[b] /\ (valid[b] => valid'[b])
    BY <2>1, <2>3 DEF EndRead, StartWrite, EndWrite
  <2>4. ASSUME NEW q \in Procs,
               \/ Call(q) \/ WaitForKey(q) \/ Hit(q) \/ WaitForAny(q) \/ TransferFails(q)
               \/ \E c \in Blocks : StartRead(q, c) \/ PutBlock(q, c)
        PROVE  key' = key /\ valid' = valid
    BY <2>4 DEF Call, WaitForKey, Hit, WaitForAny, TransferFails, StartRead, PutBlock, bufferVars
  <2>5. CASE UNCHANGED vars BY <2>5 DEF vars, bufferVars
  <2> QED BY <1>1, <2>2, <2>3, <2>4, <2>5 DEF Next
<1>2. CacheInv /\ [Next]_vars =>
          [\A p \in Procs : \A b \in held[p] : key'[b] = key[b] /\ (valid[b] => valid'[b])]_vars
  BY <1>1
<1> QED BY <1>2, Invariance, PTL DEF Spec, HeldKeepsItsBlock
=============================================================================
