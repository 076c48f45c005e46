------------------------- MODULE ProcessTableProofs -------------------------
(***************************************************************************)
(* Proofs about ProcessTable, for a table of any size, any killers and any *)
(* arguments of wait.                                                      *)
(***************************************************************************)
EXTENDS ProcessTable, FiniteSetTheorems, SequenceTheorems, TLAPS

-----------------------------------------------------------------------------
(* Lists of children: sequences without repetition.                        *)

LEMMA ToSetIs ==
    ASSUME NEW S, NEW s \in Seq(S)
    PROVE  /\ \A x : x \in ToSet(s) <=> \E i \in 1 .. Len(s) : s[i] = x
           /\ IsInjective(s) <=> \A i, j \in 1 .. Len(s) : s[i] = s[j] => i = j
           /\ ToSet(s) \subseteq S
BY LenProperties, ElementOfSeq DEF ToSet, IsInjective

LEMMA AppendIs ==
    ASSUME NEW S, NEW s \in Seq(S), NEW e \in S
    PROVE  /\ Append(s, e) \in Seq(S)
           /\ ToSet(Append(s, e)) = ToSet(s) \cup {e}
           /\ IsInjective(s) /\ e \notin ToSet(s) => IsInjective(Append(s, e))
<1> DEFINE t == Append(s, e)
<1>1. /\ t \in Seq(S) /\ Len(t) = Len(s) + 1 /\ Len(s) \in Nat
      /\ \A i \in 1 .. Len(s) : t[i] = s[i]
      /\ t[Len(s) + 1] = e
  BY AppendProperties, LenProperties
<1> HIDE DEF t
<1>2. ToSet(t) = ToSet(s) \cup {e}
  <2>1. ASSUME NEW x \in ToSet(t) PROVE x \in ToSet(s) \cup {e}
    BY <1>1, ToSetIs
  <2>2. ASSUME NEW x \in ToSet(s) PROVE x \in ToSet(t)
    <3>1. PICK i \in 1 .. Len(s) : s[i] = x BY ToSetIs
    <3>2. i \in 1 .. Len(t) /\ t[i] = x BY <1>1, <3>1
    <3> QED BY <1>1, <3>2, ToSetIs
  <2>3. e \in ToSet(t)
    <3>1. Len(s) + 1 \in 1 .. Len(t) BY <1>1
    <3> QED BY <1>1, <3>1, ToSetIs
  <2> QED BY <2>1, <2>2, <2>3
<1>3. ASSUME IsInjective(s), e \notin ToSet(s) PROVE IsInjective(t)
  <2>1. \A i \in 1 .. Len(s) : s[i] # e
    BY <1>3, ToSetIs
  <2>2. \A i, j \in 1 .. Len(s) : s[i] = s[j] => i = j
    BY <1>3, ToSetIs
  <2>3. \A i, j \in 1 .. Len(t) : t[i] = t[j] => i = j
    BY <1>1, <2>1, <2>2
  <2> QED BY <1>1, <2>3, ToSetIs
<1> QED BY <1>1, <1>2, <1>3 DEF t

LEMMA RemoveFirstIs ==
    ASSUME NEW S, NEW s \in Seq(S), IsInjective(s), NEW e \in ToSet(s)
    PROVE  /\ RemoveFirst(s, e) \in Seq(S)
           /\ ToSet(RemoveFirst(s, e)) = ToSet(s) \ {e}
           /\ IsInjective(RemoveFirst(s, e))
<1>1. PICK n \in 1 .. Len(s) : s[n] = e
  BY ToSetIs
<1>2. Len(s) \in Nat /\ \A i \in 1 .. Len(s) : s[i] \in S
  BY LenProperties, ElementOfSeq
<1>3. \A i, j \in 1 .. Len(s) : s[i] = s[j] => i = j
  BY ToSetIs
<1>4. RemoveFirst(s, e) = RemoveAt(s, n)
  <2>1. {i \in 1 .. Len(s) : s[i] = e} = {n}
    BY <1>1, <1>3
  <2>2. n = Min({n})
    BY <1>2 DEF Min
  <2>3. SelectInSeq(s, LAMBDA v : v = e) = n
    BY <2>1, <2>2 DEF SelectInSeq
  <2> QED BY <1>1, <2>3 DEF RemoveFirst
<1> DEFINE before == SubSeq(s, 1, n - 1)
           after == SubSeq(s, n + 1, Len(s))
           t == before \o after
<1>5. /\ before \in Seq(S) /\ Len(before) = n - 1
      /\ \A i \in 1 .. n - 1 : before[i] = s[i]
  <2>1. \A i \in 1 .. n - 1 : s[i] \in S BY <1>2
  <2>2. 1 \in Int /\ n - 1 \in Int BY <1>2
  <2>3. \A i \in 1 .. (n - 1) - 1 + 1 : before[i] = s[1 + i - 1]
    BY <2>1, <2>2, SubSeqProperties
  <2>4. before \in Seq(S) /\ Len(before) = IF 1 <= n - 1 THEN (n - 1) - 1 + 1 ELSE 0
    BY <2>1, <2>2, SubSeqProperties
  <2> QED BY <1>2, <2>3, <2>4
<1>6. /\ after \in Seq(S) /\ Len(after) = Len(s) - n
      /\ \A i \in 1 .. Len(s) - n : after[i] = s[n + i]
  <2>1. \A i \in n + 1 .. Len(s) : s[i] \in S BY <1>2
  <2>2. n + 1 \in Int /\ Len(s) \in Int BY <1>2
  <2>3. \A i \in 1 .. Len(s) - (n + 1) + 1 : after[i] = s[(n + 1) + i - 1]
    BY <2>1, <2>2, SubSeqProperties
  <2>4. after \in Seq(S) /\ Len(after) = IF n + 1 <= Len(s) THEN Len(s) - (n + 1) + 1 ELSE 0
    BY <2>1, <2>2, SubSeqProperties
  <2> QED BY <1>2, <2>3, <2>4
<1> HIDE DEF before, after
<1>7. /\ t \in Seq(S) /\ Len(t) = Len(s) - 1
      /\ \A i \in 1 .. Len(t) : t[i] = IF i < n THEN s[i] ELSE s[i + 1]
  <2>1. /\ t \in Seq(S) /\ Len(t) = Len(before) + Len(after)
        /\ \A i \in 1 .. Len(before) + Len(after) :
               t[i] = IF i <= Len(before) THEN before[i] ELSE after[i - Len(before)]
    BY <1>5, <1>6, ConcatProperties
  <2>2. Len(t) = Len(s) - 1
    BY <1>2, <1>5, <1>6, <2>1
  <2>3. ASSUME NEW i \in 1 .. Len(t) PROVE t[i] = IF i < n THEN s[i] ELSE s[i + 1]
    <3>1. CASE i < n BY <1>2, <1>5, <2>1, <2>2, <3>1
    <3>2. CASE i >= n
      <4>1. i - (n - 1) \in 1 .. Len(s) - n /\ n + (i - (n - 1)) = i + 1
        BY <1>2, <2>2, <3>2
      <4>2. t[i] = after[i - (n - 1)]
        BY <1>2, <1>5, <2>1, <3>2
      <4> QED BY <1>2, <1>6, <3>2, <4>1, <4>2
    <3> QED BY <1>2, <2>2, <3>1, <3>2
  <2> QED BY <2>1, <2>2, <2>3
<1> HIDE DEF t
<1>8. ASSUME NEW i \in 1 .. Len(s), i # n
      PROVE \E j \in 1 .. Len(t) : t[j] = s[i]
  <2>1. CASE i < n BY <1>2, <1>7, <2>1
  <2>2. CASE i > n
    <3>1. i - 1 \in 1 .. Len(t) /\ t[i - 1] = s[i] BY <1>2, <1>7, <2>2
    <3> QED BY <3>1
  <2> QED BY <1>2, <1>8, <2>1, <2>2
<1>9. ToSet(t) = ToSet(s) \ {e}
  <2>1. ASSUME NEW x \in ToSet(t) PROVE x \in ToSet(s) \ {e}
    <3>1. PICK i \in 1 .. Len(t) : t[i] = x BY <1>7, ToSetIs
    <3>2. PICK j \in 1 .. Len(s) : s[j] = x /\ j # n BY <1>2, <1>7, <3>1
    <3> QED BY <1>1, <1>3, <3>2, ToSetIs
  <2>2. ASSUME NEW x \in ToSet(s), x # e PROVE x \in ToSet(t)
    <3>1. PICK i \in 1 .. Len(s) : s[i] = x BY ToSetIs
    <3>2. \E j \in 1 .. Len(t) : t[j] = x BY <1>1, <1>8, <2>2, <3>1
    <3> QED BY <1>7, <3>2, ToSetIs
  <2> QED BY <2>1, <2>2
<1>10. IsInjective(t)
  <2>1. ASSUME NEW i \in 1 .. Len(t), NEW j \in 1 .. Len(t), t[i] = t[j] PROVE i = j
    BY <1>2, <1>3, <1>7, <2>1
  <2> QED BY <1>7, <2>1, ToSetIs
<1> QED BY <1>4, <1>7, <1>9, <1>10 DEF t, before, after, RemoveAt

LEMMA EmptyIs ==
    ASSUME NEW S, NEW s \in Seq(S)
    PROVE  /\ s = <<>> <=> ToSet(s) = {}
           /\ s = <<>> => IsInjective(s)
<1>1. /\ \A x : x \in ToSet(s) <=> \E i \in 1 .. Len(s) : s[i] = x
      /\ IsInjective(s) <=> \A i, j \in 1 .. Len(s) : s[i] = s[j] => i = j
      /\ Len(s) \in Nat /\ (s = <<>> <=> Len(s) = 0)
  BY ToSetIs, EmptySeq, LenProperties
<1>2. ASSUME Len(s) = 0 PROVE ToSet(s) = {} /\ IsInjective(s)
  <2>1. 1 .. Len(s) = {}
    BY <1>2
  <2> QED BY <1>1, <2>1, Zenon
<1>3. ASSUME Len(s) # 0 PROVE ToSet(s) # {}
  <2>1. 1 \in 1 .. Len(s)
    BY <1>1, <1>3
  <2> QED BY <1>1, <2>1, Zenon
<1> QED BY <1>1, <1>2, <1>3

-----------------------------------------------------------------------------
(* The inductive invariant.                                                *)

Live == {p \in Pids : slot[p] = "live"}

Inv ==
    /\ TypeOK
    /\ TreeConsistent
    /\ ReportedOnce
    /\ WaiterHasLiveChild
    /\ LiveCounted

LEMMA LiveFinite == IsFiniteSet(Live) /\ Cardinality(Live) \in Nat
<1>1. IsFiniteSet(Pids)
  BY TableAssumption, FS_Interval DEF Pids
<1>2. IsFiniteSet(Live)
  BY <1>1, FS_Subset DEF Live
<1> QED BY <1>2, FS_CardinalityType

LEMMA Start == Init => Inv
<1> SUFFICES ASSUME Init PROVE Inv
  OBVIOUS
<1>1. 1 \in Pids /\ 2 \in 1 .. MaxProcs + 1 /\ 0 \in 0 .. MaxFailed
  BY TableAssumption DEF Pids
<1>2. NoPid \notin Pids
  BY DEF Pids, NoPid
<1>3. TypeOK
  BY <1>1 DEF Init, TypeOK, Outcome
<1>4. \A p \in Pids : children[p] = <<>> /\ ToSet(children[p]) = {} /\ IsInjective(children[p])
  <2>1. <<>> \in Seq(Pids)
    OBVIOUS
  <2>2. ToSet(<<>>) = {} /\ IsInjective(<<>>)
    BY <2>1, EmptyIs
  <2> QED BY <2>2 DEF Init
<1>5. TreeConsistent
  BY <1>2, <1>4 DEF Init, TreeConsistent
<1>6. ReportedOnce
  BY DEF Init, ReportedOnce
<1>7. WaiterHasLiveChild
  BY DEF Init, WaiterHasLiveChild
<1>8. LiveCounted
  <2>1. Live = {1}
    <3>1. \A p \in Pids : slot[p] = "live" <=> p = 1
      BY DEF Init
    <3> QED BY <1>1, <3>1 DEF Live
  <2>2. Cardinality(Live) = 1
    BY <2>1, FS_Singleton
  <2> QED BY <2>2 DEF Init, LiveCounted, Live
<1> QED BY <1>3, <1>5, <1>6, <1>7, <1>8 DEF Inv

LEMMA WithoutIs ==
    ASSUME TypeOK, TreeConsistent, NEW q \in Pids
    PROVE  /\ Without(q) \in [Pids -> Seq(Pids)]
           /\ \A p \in Pids : /\ ToSet(Without(q)[p]) = ToSet(children[p]) \ {q}
                              /\ IsInjective(Without(q)[p])
<1>1. ASSUME NEW p \in Pids
      PROVE  /\ Without(q)[p] \in Seq(Pids)
             /\ ToSet(Without(q)[p]) = ToSet(children[p]) \ {q}
             /\ IsInjective(Without(q)[p])
  <2>1. children[p] \in Seq(Pids) /\ IsInjective(children[p])
    BY DEF TypeOK, TreeConsistent
  <2>2. q \in ToSet(children[p]) <=> parent[q] = p /\ q \notin orphaned
    BY DEF TreeConsistent
  <2>3. CASE parent[q] = p /\ q \notin orphaned
    <3>1. Without(q)[p] = RemoveFirst(children[p], q)
      BY <2>3 DEF Without
    <3> QED BY <2>1, <2>2, <2>3, <3>1, RemoveFirstIs
  <2>4. CASE ~ (parent[q] = p /\ q \notin orphaned)
    <3>1. Without(q)[p] = children[p]
      BY <2>4 DEF Without
    <3>2. ToSet(children[p]) = ToSet(children[p]) \ {q}
      BY <2>2, <2>4
    <3> QED BY <2>1, <3>1, <3>2
  <2> QED BY <2>3, <2>4
<1>2. Without(q) \in [Pids -> Seq(Pids)]
  <2>1. Without(q) = [p \in Pids |-> Without(q)[p]]
    BY DEF Without
  <2> QED BY <1>1, <2>1
<1> QED BY <1>1, <1>2

\* The slot that CreateProcess finds: the child's own children become orphans, and the
\* child moves to the end of the list of its new parent.
LEMMA ForkKeeps ==
    ASSUME Inv, NEW p \in Pids, Fork(p)
    PROVE  Inv'
<1>1. TypeOK /\ TreeConsistent /\ ReportedOnce /\ WaiterHasLiveChild /\ LiveCounted
  BY DEF Inv
<1>2. PICK q \in Scanned :
          /\ nextProcessId' = IdAfter(q)
          /\ slot' = [slot EXCEPT ![q] = "live"]
          /\ children' = [Without(q) EXCEPT ![q] = <<>>, ![p] = Append(@, q)]
          /\ orphaned' = (orphaned \cup {r \in Pids : parent[r] = q}) \ {q}
          /\ parent' = [parent EXCEPT ![q] = p]
          /\ numRunnable' = numRunnable + 1
          /\ pc' = [pc EXCEPT ![q] = "run"]
          /\ waitFor' = [waitFor EXCEPT ![q] = AnyChild]
          /\ result' = [result EXCEPT ![p] = q, ![q] = NoResult]
          /\ collected' = [collected EXCEPT ![q] = 0]
          /\ missed' = missed \ {q} /\ failedKills' = failedKills
  BY DEF Fork
<1>3. /\ q \in Pids /\ slot[q] # "live" /\ slot[p] = "live" /\ pc[p] = "run" /\ q # p
      /\ q \in Nat /\ q <= MaxProcs /\ p # NoPid
  <2>1. ScanStart \in Nat \ {0}
    BY <1>1 DEF TypeOK, ScanStart
  <2>2. q \in Pids /\ q \in Nat /\ q <= MaxProcs /\ slot[q] # "live"
    BY <2>1, TableAssumption DEF Scanned, Pids
  <2> QED BY <2>2 DEF Fork, Running, Pids, NoPid
<1> DEFINE W == Without(q)
<1>4. /\ W \in [Pids -> Seq(Pids)]
      /\ \A x \in Pids : ToSet(W[x]) = ToSet(children[x]) \ {q} /\ IsInjective(W[x])
  BY <1>1, <1>3, WithoutIs
<1> HIDE DEF W
<1>5. children' = [W EXCEPT ![q] = <<>>, ![p] = Append(@, q)]
  BY <1>2 DEF W
<1>6. /\ children' \in [Pids -> Seq(Pids)]
      /\ children'[q] = <<>> /\ children'[p] = Append(W[p], q)
      /\ \A x \in Pids \ {p, q} : children'[x] = W[x]
  <2>1. Append(W[p], q) \in Seq(Pids) /\ <<>> \in Seq(Pids)
    BY <1>3, <1>4, AppendIs, EmptySeq
  <2> QED BY <1>3, <1>4, <1>5, <2>1
<1>7. /\ ToSet(children'[q]) = {} /\ IsInjective(children'[q])
      /\ ToSet(children'[p]) = (ToSet(children[p]) \ {q}) \cup {q} /\ IsInjective(children'[p])
      /\ \A x \in Pids \ {p, q} :
             ToSet(children'[x]) = ToSet(children[x]) \ {q} /\ IsInjective(children'[x])
  <2>1. ToSet(children'[q]) = {} /\ IsInjective(children'[q])
    BY <1>3, <1>6, EmptyIs
  <2>2. q \notin ToSet(W[p]) /\ IsInjective(W[p]) /\ W[p] \in Seq(Pids)
    BY <1>4
  <2>3. ToSet(Append(W[p], q)) = ToSet(W[p]) \cup {q} /\ IsInjective(Append(W[p], q))
    BY <1>3, <2>2, AppendIs
  <2>4. ToSet(children'[p]) = ToSet(W[p]) \cup {q} /\ IsInjective(children'[p])
    BY <1>6, <2>3
  <2> QED BY <1>4, <1>6, <2>1, <2>4
<1>8. TypeOK'
  <2>1. nextProcessId' \in 1 .. MaxProcs + 1
    BY <1>2, <1>3, TableAssumption DEF IdAfter
  <2>2. slot' \in [Pids -> {"free", "live", "zombie"}] /\ pc' \in [Pids -> {"run", "wait", "asleep", "woken"}]
    BY <1>1, <1>2 DEF TypeOK
  <2>3. parent' \in [Pids -> Pids \cup {NoPid}] /\ orphaned' \subseteq Pids
    <3>1. parent' \in [Pids -> Pids \cup {NoPid}]
      BY <1>1, <1>2 DEF TypeOK
    <3>2. orphaned \subseteq Pids
      BY <1>1 DEF TypeOK
    <3> QED BY <1>2, <3>1, <3>2
  <2>4. waitFor' \in [Pids -> WaitIds \cup {AnyChild}] /\ result' \in [Pids -> Outcome]
    <3>1. q \in Outcome /\ NoResult \in Outcome
      BY <1>3 DEF Outcome
    <3>2. result' \in [Pids -> Outcome]
      BY <1>1, <1>2, <3>1 DEF TypeOK
    <3>3. waitFor' \in [Pids -> WaitIds \cup {AnyChild}]
      <4>1. waitFor \in [Pids -> WaitIds \cup {AnyChild}]
        BY <1>1 DEF TypeOK
      <4>2. waitFor' = [waitFor EXCEPT ![q] = AnyChild] /\ AnyChild \in WaitIds \cup {AnyChild}
        BY <1>2
      <4> QED BY <1>3, <4>1, <4>2
    <3> QED BY <3>2, <3>3
  <2>5. collected' \in [Pids -> Nat] /\ numRunnable' \in Int
    <3>1. collected' \in [Pids -> Nat]
      BY <1>1, <1>2, <1>3 DEF TypeOK
    <3>2. numRunnable \in Int
      BY <1>1 DEF TypeOK
    <3> QED BY <1>2, <3>1, <3>2
  <2>6. missed' \subseteq Pids /\ failedKills' \in 0 .. MaxFailed
    BY <1>1, <1>2 DEF TypeOK
  <2> QED BY <1>6, <2>1, <2>2, <2>3, <2>4, <2>5, <2>6 DEF TypeOK
<1>9. /\ parent'[q] = p /\ \A x \in Pids \ {q} : parent'[x] = parent[x]
      /\ q \notin orphaned'
      /\ \A x \in Pids \ {q} : x \in orphaned' <=> x \in orphaned \/ parent[x] = q
      /\ slot'[q] = "live" /\ \A x \in Pids \ {q} : slot'[x] = slot[x]
  BY <1>1, <1>2, <1>3 DEF TypeOK
<1>10. TreeConsistent'
  <2>1. ASSUME NEW y \in Pids, NEW x \in Pids
        PROVE  x \in ToSet(children'[y]) <=> parent'[x] = y /\ x \notin orphaned'
    <3>1. x \in ToSet(children[y]) <=> parent[x] = y /\ x \notin orphaned
      BY <1>1 DEF TreeConsistent
    <3>2. CASE y = q
      BY <1>3, <1>7, <1>9, <3>2
    <3>3. CASE y = p
      BY <1>3, <1>7, <1>9, <3>1, <3>3
    <3>4. CASE y \notin {p, q}
      BY <1>3, <1>7, <1>9, <3>1, <3>4
    <3> QED BY <3>2, <3>3, <3>4
  <2>2. ASSUME NEW y \in Pids PROVE IsInjective(children'[y])
    BY <1>7
  <2>3. ASSUME NEW y \in Pids, slot'[y] = "free" PROVE children'[y] = <<>> /\ parent'[y] = NoPid
    <3>1. y \notin {p, q} /\ slot[y] = "free"
      BY <1>3, <1>9, <2>3
    <3>2. children[y] = <<>> /\ parent[y] = NoPid
      BY <1>1, <3>1 DEF TreeConsistent
    <3>3. ToSet(children[y]) = {}
      BY <3>2, EmptyIs, EmptySeq
    <3>4. ToSet(children'[y]) = {}
      BY <1>7, <3>1, <3>3
    <3> QED BY <1>6, <1>9, <3>1, <3>2, <3>4, EmptyIs
  <2> QED BY <2>1, <2>2, <2>3 DEF TreeConsistent
<1>11. ReportedOnce'
  BY <1>1, <1>2, <1>3, <1>9 DEF ReportedOnce, TypeOK
<1>12. WaiterHasLiveChild'
  <2> SUFFICES ASSUME NEW x \in Pids \ missed', slot'[x] = "live", pc'[x] = "asleep", waitFor'[x] = AnyChild
               PROVE  \E r \in Pids : parent'[r] = x /\ r \notin orphaned' /\ slot'[r] = "live"
    BY DEF WaiterHasLiveChild
  <2>1. /\ x # q /\ x \notin missed
        /\ pc[x] = "asleep" /\ waitFor[x] = AnyChild /\ slot[x] = "live"
    BY <1>1, <1>2, <1>3, <1>9 DEF TypeOK
  <2>2. PICK r \in Pids : parent[r] = x /\ r \notin orphaned /\ slot[r] = "live"
    BY <1>1, <2>1 DEF WaiterHasLiveChild
  <2> QED BY <1>3, <1>9, <2>1, <2>2
<1>13. LiveCounted'
  <2>1. Live' = Live \cup {q} /\ q \notin Live
    BY <1>3, <1>9 DEF Live
  <2>2. Cardinality(Live') = Cardinality(Live) + 1
    BY <2>1, LiveFinite, FS_AddElement
  <2>3. numRunnable <= Cardinality(Live) + failedKills /\ numRunnable \in Int /\ failedKills \in Int
    BY <1>1 DEF LiveCounted, Live, TypeOK
  <2>4. numRunnable' <= Cardinality(Live') + failedKills'
    BY <1>2, <2>2, <2>3, LiveFinite
  <2> QED BY <2>4 DEF LiveCounted, Live
<1> QED BY <1>8, <1>10, <1>11, <1>12, <1>13 DEF Inv

\* Steps of a process that leave the slots and the tree alone.
LEMMA CallKeeps ==
    ASSUME Inv, NEW p \in Pids, slot[p] = "live",
           UNCHANGED <<slot, treeVars, numRunnable, collected, failVars>>,
           nextProcessId' \in 1 .. MaxProcs + 1,
           waitFor' \in [Pids -> WaitIds \cup {AnyChild}],
           result' \in [Pids -> Outcome],
           NEW place \in {"run", "wait", "asleep", "woken"}, pc' = [pc EXCEPT ![p] = place],
           \A x \in Pids \ {p} : waitFor'[x] = waitFor[x],
           place = "asleep" =>
               waitFor' = waitFor /\ (waitFor[p] = AnyChild =>
                   \E r \in Pids : parent[r] = p /\ r \notin orphaned /\ slot[r] = "live")
    PROVE  Inv'
<1>1. TypeOK /\ TreeConsistent /\ ReportedOnce /\ WaiterHasLiveChild /\ LiveCounted
  BY DEF Inv
<1>2. UNCHANGED <<slot, children, parent, orphaned, numRunnable, collected, missed, failedKills>>
  BY DEF treeVars, failVars
<1>3. /\ pc' \in [Pids -> {"run", "wait", "asleep", "woken"}]
      /\ pc'[p] = place /\ \A x \in Pids \ {p} : pc'[x] = pc[x]
  BY <1>1 DEF TypeOK
<1>4. TypeOK'
  BY <1>1, <1>2, <1>3 DEF TypeOK
<1>5. TreeConsistent' /\ ReportedOnce' /\ LiveCounted'
  BY <1>1, <1>2 DEF TreeConsistent, ReportedOnce, LiveCounted
<1>6. WaiterHasLiveChild'
  <2> SUFFICES ASSUME NEW x \in Pids \ missed', slot'[x] = "live", pc'[x] = "asleep", waitFor'[x] = AnyChild
               PROVE  \E r \in Pids : parent'[r] = x /\ r \notin orphaned' /\ slot'[r] = "live"
    BY DEF WaiterHasLiveChild
  <2>1. CASE x = p
    BY <1>2, <1>3, <2>1
  <2>2. CASE x # p
    BY <1>1, <1>2, <1>3, <2>2 DEF WaiterHasLiveChild
  <2> QED BY <2>1, <2>2
<1> QED BY <1>4, <1>5, <1>6 DEF Inv

\* Wait returns a zombie that is still a child, so it was never returned before.
LEMMA CollectKeeps ==
    ASSUME Inv, NEW p \in Pids, NEW q \in Pids, slot[p] = "live", q \in Matching(p), Collect(p, q)
    PROVE  Inv'
<1>1. TypeOK /\ TreeConsistent /\ ReportedOnce /\ WaiterHasLiveChild /\ LiveCounted
  BY DEF Inv
<1>2. /\ children' = Without(q) /\ parent' = [parent EXCEPT ![q] = NoPid]
      /\ result' = [result EXCEPT ![p] = q] /\ pc' = [pc EXCEPT ![p] = "run"]
      /\ collected' = [collected EXCEPT ![q] = @ + 1]
      /\ UNCHANGED <<slot, nextProcessId, numRunnable, orphaned, waitFor, missed, failedKills>>
  BY DEF Collect, Returns, failVars
<1>3. /\ q \in ToSet(children[p]) /\ slot[q] = "zombie" /\ q # p
      /\ parent[q] = p /\ q \notin orphaned /\ NoPid \notin Pids
  BY <1>1 DEF Matching, Zombies, TreeConsistent, Pids, NoPid
<1>4. /\ children' \in [Pids -> Seq(Pids)]
      /\ \A x \in Pids : ToSet(children'[x]) = ToSet(children[x]) \ {q} /\ IsInjective(children'[x])
  BY <1>1, <1>2, WithoutIs
<1>5. /\ parent' \in [Pids -> Pids \cup {NoPid}] /\ parent'[q] = NoPid
      /\ \A x \in Pids \ {q} : parent'[x] = parent[x]
  BY <1>1, <1>2 DEF TypeOK
<1>6. collected[q] = 0
  BY <1>1, <1>3 DEF ReportedOnce, TypeOK
<1>7. /\ collected' \in [Pids -> Nat] /\ collected'[q] = 1
      /\ \A x \in Pids \ {q} : collected'[x] = collected[x]
  BY <1>1, <1>2, <1>6 DEF TypeOK
<1>8. TypeOK'
  <2>1. pc' \in [Pids -> {"run", "wait", "asleep", "woken"}] /\ result' \in [Pids -> Outcome]
    BY <1>1, <1>2 DEF TypeOK, Outcome
  <2> QED BY <1>1, <1>2, <1>4, <1>5, <1>7, <2>1 DEF TypeOK
<1>9. TreeConsistent'
  <2>1. ASSUME NEW y \in Pids, NEW x \in Pids
        PROVE  x \in ToSet(children'[y]) <=> parent'[x] = y /\ x \notin orphaned'
    <3>1. x \in ToSet(children[y]) <=> parent[x] = y /\ x \notin orphaned
      BY <1>1 DEF TreeConsistent
    <3> QED BY <1>2, <1>3, <1>4, <1>5, <3>1
  <2>2. ASSUME NEW y \in Pids, slot'[y] = "free" PROVE children'[y] = <<>> /\ parent'[y] = NoPid
    <3>1. slot[y] = "free" /\ y # q
      BY <1>2, <1>3, <2>2
    <3>2. children[y] = <<>> /\ parent[y] = NoPid
      BY <1>1, <3>1 DEF TreeConsistent
    <3>3. ToSet(children[y]) = {}
      BY <3>2, EmptyIs, EmptySeq
    <3>4. ToSet(children'[y]) = {}
      BY <1>4, <3>3
    <3> QED BY <1>4, <1>5, <3>1, <3>2, <3>4, EmptyIs
  <2> QED BY <1>4, <2>1, <2>2 DEF TreeConsistent
<1>10. ReportedOnce'
  BY <1>1, <1>2, <1>3, <1>5, <1>7 DEF ReportedOnce
<1>11. WaiterHasLiveChild'
  <2> SUFFICES ASSUME NEW x \in Pids \ missed', slot'[x] = "live", pc'[x] = "asleep", waitFor'[x] = AnyChild
               PROVE  \E r \in Pids : parent'[r] = x /\ r \notin orphaned' /\ slot'[r] = "live"
    BY DEF WaiterHasLiveChild
  <2>1. x \notin missed /\ pc[x] = "asleep" /\ waitFor[x] = AnyChild /\ slot[x] = "live"
    BY <1>1, <1>2 DEF TypeOK
  <2>2. PICK r \in Pids : parent[r] = x /\ r \notin orphaned /\ slot[r] = "live"
    BY <1>1, <2>1 DEF WaiterHasLiveChild
  <2>3. r # q
    BY <1>3, <2>2
  <2> QED BY <1>2, <1>5, <2>2, <2>3
<1>12. LiveCounted'
  BY <1>1, <1>2 DEF LiveCounted
<1> QED BY <1>8, <1>9, <1>10, <1>11, <1>12 DEF Inv

\* The exit of a process, or a kill that may be of a zombie.
LEMMA ExitKeeps ==
    ASSUME Inv, NEW p \in Pids, slot[p] # "free", Exit(p)
    PROVE  Inv'
<1>1. TypeOK /\ TreeConsistent /\ ReportedOnce /\ WaiterHasLiveChild /\ LiveCounted
  BY DEF Inv
<1>2. /\ slot' = [slot EXCEPT ![p] = "zombie"] /\ numRunnable' = numRunnable - 1
      /\ result' = [result EXCEPT ![p] = NoResult]
      /\ UNCHANGED <<nextProcessId, children, parent, orphaned, waitFor, collected, failedKills>>
  BY DEF Exit, Returns, treeVars
<1>3. PICK w \in Notifies(p) : pc' = Woken(w) /\ missed' = missed \ {w}
  BY DEF Exit
<1>4. /\ slot' \in [Pids -> {"free", "live", "zombie"}] /\ slot'[p] = "zombie"
      /\ \A x \in Pids \ {p} : slot'[x] = slot[x]
  BY <1>1, <1>2 DEF TypeOK
<1>5. /\ pc' \in [Pids -> {"run", "wait", "asleep", "woken"}]
      /\ \A x \in Pids : pc'[x] = "asleep" => pc[x] = "asleep" /\ ~ (x = w /\ slot[x] = "live")
  BY <1>1, <1>3 DEF TypeOK, Woken
<1>6. TypeOK'
  <2>1. result' \in [Pids -> Outcome]
    BY <1>1, <1>2 DEF TypeOK, Outcome
  <2>2. missed' \subseteq Pids
    BY <1>1, <1>3 DEF TypeOK
  <2> QED BY <1>1, <1>2, <1>4, <1>5, <2>1, <2>2 DEF TypeOK
<1>7. TreeConsistent'
  BY <1>1, <1>2, <1>4 DEF TreeConsistent
<1>8. ReportedOnce'
  BY <1>1, <1>2, <1>4 DEF ReportedOnce
<1>9. WaiterHasLiveChild'
  <2> SUFFICES ASSUME NEW x \in Pids \ missed', slot'[x] = "live", pc'[x] = "asleep", waitFor'[x] = AnyChild
               PROVE  \E r \in Pids : parent'[r] = x /\ r \notin orphaned' /\ slot'[r] = "live"
    BY DEF WaiterHasLiveChild
  <2>1. /\ x # p /\ slot[x] = "live" /\ pc[x] = "asleep" /\ waitFor[x] = AnyChild /\ x # w
        /\ x \notin missed
    BY <1>2, <1>3, <1>4, <1>5
  <2>2. PICK r \in Pids : parent[r] = x /\ r \notin orphaned /\ slot[r] = "live"
    BY <1>1, <2>1 DEF WaiterHasLiveChild
  <2>3. r # p
    BY <1>3, <2>1, <2>2 DEF Notifies
  <2> QED BY <1>2, <1>4, <2>2, <2>3
<1>10. LiveCounted'
  <2>1. numRunnable <= Cardinality(Live) + failedKills /\ numRunnable \in Int /\ failedKills \in Int
    BY <1>1 DEF LiveCounted, Live, TypeOK
  <2>2. Live' = Live \ {p}
    BY <1>4 DEF Live
  <2>3. Cardinality(Live') = Cardinality(Live) - (IF p \in Live THEN 1 ELSE 0)
    <3>1. CASE p \in Live
      BY <2>2, <3>1, LiveFinite, FS_RemoveElement
    <3>2. CASE p \notin Live
      <4>1. Live' = Live
        BY <2>2, <3>2
      <4>2. Cardinality(Live') = Cardinality(Live) - 0
        BY <4>1, LiveFinite
      <4> QED BY <3>2, <4>2
    <3> QED BY <3>1, <3>2
  <2>4. numRunnable' <= Cardinality(Live') + failedKills'
    BY <1>2, <2>1, <2>3, LiveFinite
  <2> QED BY <2>4 DEF LiveCounted, Live
<1> QED BY <1>6, <1>7, <1>8, <1>9, <1>10 DEF Inv

\* A kill that is cut short: who sleeps for the victim is among those that missed its exit.
LEMMA KillFailsKeeps ==
    ASSUME Inv, NEW p \in Pids, NEW q \in Pids, KillFails(p, q)
    PROVE  Inv'
<1>1. TypeOK /\ TreeConsistent /\ ReportedOnce /\ WaiterHasLiveChild /\ LiveCounted
  BY DEF Inv
<1>2. /\ slot[q] = "live" /\ slot' = [slot EXCEPT ![q] = "zombie"]
      /\ missed' = missed \cup Sleepers(q)
      /\ failedKills < MaxFailed /\ failedKills' = failedKills + 1
      /\ UNCHANGED <<nextProcessId, numRunnable, children, parent, orphaned>>
      /\ UNCHANGED <<pc, waitFor, result, collected>>
  BY DEF KillFails, treeVars, callVars
<1>3. /\ slot' \in [Pids -> {"free", "live", "zombie"}] /\ slot'[q] = "zombie"
      /\ \A x \in Pids \ {q} : slot'[x] = slot[x]
  BY <1>1, <1>2 DEF TypeOK
<1>4. failedKills \in Nat /\ failedKills' \in 0 .. MaxFailed
  BY <1>1, <1>2, TableAssumption DEF TypeOK
<1>5. TypeOK'
  <2>1. missed' \subseteq Pids
    BY <1>1, <1>2 DEF TypeOK, Sleepers
  <2> QED BY <1>1, <1>2, <1>3, <1>4, <2>1 DEF TypeOK
<1>6. TreeConsistent' /\ ReportedOnce'
  BY <1>1, <1>2, <1>3 DEF TreeConsistent, ReportedOnce
<1>7. WaiterHasLiveChild'
  <2> SUFFICES ASSUME NEW x \in Pids \ missed', slot'[x] = "live", pc'[x] = "asleep", waitFor'[x] = AnyChild
               PROVE  \E r \in Pids : parent'[r] = x /\ r \notin orphaned' /\ slot'[r] = "live"
    BY DEF WaiterHasLiveChild
  <2>1. /\ x \notin missed /\ x \notin Sleepers(q) /\ slot[x] = "live"
        /\ pc[x] = "asleep" /\ waitFor[x] = AnyChild
    BY <1>2, <1>3
  <2>2. PICK r \in Pids : parent[r] = x /\ r \notin orphaned /\ slot[r] = "live"
    BY <1>1, <2>1 DEF WaiterHasLiveChild
  <2>3. r # q
    BY <2>1, <2>2 DEF Sleepers
  <2> QED BY <1>2, <1>3, <2>2, <2>3
<1>8. LiveCounted'
  <2>1. numRunnable <= Cardinality(Live) + failedKills /\ numRunnable \in Int
    BY <1>1 DEF LiveCounted, Live, TypeOK
  <2>2. Live' = Live \ {q} /\ q \in Live
    BY <1>2, <1>3 DEF Live
  <2>3. Cardinality(Live') = Cardinality(Live) - 1
    BY <2>2, LiveFinite, FS_RemoveElement
  <2>4. numRunnable' <= Cardinality(Live') + failedKills'
    BY <1>2, <1>4, <2>1, <2>3, LiveFinite
  <2> QED BY <2>4 DEF LiveCounted, Live
<1> QED BY <1>5, <1>6, <1>7, <1>8 DEF Inv

-----------------------------------------------------------------------------
LEMMA WaitKeeps ==
    ASSUME Inv, NEW p \in Pids, WaitScan(p) \/ WaitWoken(p)
    PROVE  Inv'
<1>1. TypeOK /\ TreeConsistent /\ slot[p] = "live"
  BY DEF Inv, WaitScan, WaitWoken
<1>2. /\ nextProcessId \in 1 .. MaxProcs + 1
      /\ waitFor \in [Pids -> WaitIds \cup {AnyChild}] /\ result \in [Pids -> Outcome]
  BY <1>1 DEF TypeOK
<1>3. ASSUME NEW q \in Pids, FirstMatching(p, q), Collect(p, q) PROVE Inv'
  <2>1. q \in Matching(p)
    BY <1>3 DEF FirstMatching
  <2> QED BY <1>1, <1>3, <2>1, CollectKeeps
<1>4. ASSUME NoChild(p) PROVE Inv'
  <2>1. /\ UNCHANGED <<slot, nextProcessId, numRunnable, treeVars, waitFor, collected, failVars>>
        /\ pc' = [pc EXCEPT ![p] = "run"] /\ result' = [result EXCEPT ![p] = ENOCHILD]
    BY <1>4 DEF NoChild, Returns
  <2>2. result' \in [Pids -> Outcome]
    BY <1>2, <2>1 DEF Outcome
  <2> QED BY <1>1, <1>2, <2>1, <2>2, CallKeeps
<1>5. ASSUME pc' = [pc EXCEPT ![p] = "wait"],
             UNCHANGED <<slot, nextProcessId, numRunnable, treeVars, waitFor, result, collected, failVars>>
      PROVE  Inv'
  BY <1>1, <1>2, <1>5, CallKeeps
<1>6. ASSUME MustSleep(p), pc' = [pc EXCEPT ![p] = "asleep"],
             UNCHANGED <<slot, nextProcessId, numRunnable, treeVars, waitFor, result, collected, failVars>>
      PROVE  Inv'
  <2>1. ASSUME waitFor[p] = AnyChild
        PROVE  \E r \in Pids : parent[r] = p /\ r \notin orphaned /\ slot[r] = "live"
    <3>1. children[p] # <<>> /\ Matching(p) = {} /\ children[p] \in Seq(Pids)
      BY <1>1, <1>6 DEF MustSleep, TypeOK
    <3>2. ToSet(children[p]) # {} /\ ToSet(children[p]) \subseteq Pids
      BY <3>1, EmptyIs, ToSetIs
    <3>3. PICK r \in Pids : r \in ToSet(children[p])
      BY <3>2
    <3>4. parent[r] = p /\ r \notin orphaned
      BY <1>1, <3>3 DEF TreeConsistent
    <3>5. slot[r] # "zombie"
      BY <2>1, <3>1, <3>3 DEF Matching, Zombies
    <3>6. slot[r] # "free"
      BY <1>1, <3>4 DEF TreeConsistent, Pids, NoPid
    <3>7. slot[r] = "live"
      BY <1>1, <3>5, <3>6 DEF TypeOK
    <3> QED BY <3>4, <3>7
  <2> QED BY <1>1, <1>2, <1>6, <2>1, CallKeeps
<1>7. CASE WaitScan(p)
  BY <1>3, <1>4, <1>6, <1>7 DEF WaitScan
<1>8. CASE WaitWoken(p)
  BY <1>3, <1>4, <1>5, <1>8 DEF WaitWoken
<1> QED BY <1>7, <1>8

LEMMA NextKeeps == Inv /\ [Next]_vars => Inv'
<1> SUFFICES ASSUME Inv, [Next]_vars PROVE Inv'
  OBVIOUS
<1>1. CASE UNCHANGED vars
  BY <1>1 DEF vars, treeVars, callVars, failVars, Inv, TypeOK, TreeConsistent, ReportedOnce,
              WaiterHasLiveChild, LiveCounted
<1>2. CASE Next
  <2>1. PICK p \in Pids :
            \/ Fork(p) \/ ForkFails(p) \/ CallWait(p) \/ WaitScan(p) \/ WaitWoken(p)
            \/ CallExit(p) \/ \E q \in Pids : CallKill(p, q) \/ KillFails(p, q)
    BY <1>2 DEF Next
  <2>2. CASE Fork(p)
    BY <2>2, ForkKeeps
  <2>3. CASE ForkFails(p)
    <3>1. /\ slot[p] = "live" /\ nextProcessId' = MaxProcs + 1 /\ pc[p] = "run" /\ pc' = pc
          /\ result' = [result EXCEPT ![p] = ELIMITEXCEEDED]
          /\ UNCHANGED <<slot, numRunnable, treeVars, waitFor, collected, failVars>>
      BY <2>3 DEF ForkFails, Running, Returns
    <3>2. nextProcessId' \in 1 .. MaxProcs + 1
      BY <3>1, TableAssumption
    <3>3. result' \in [Pids -> Outcome] /\ pc' = [pc EXCEPT ![p] = "run"]
          /\ waitFor' \in [Pids -> WaitIds \cup {AnyChild}]
      BY <3>1 DEF Inv, TypeOK, Outcome
    <3> QED BY <3>1, <3>2, <3>3, CallKeeps
  <2>4. CASE CallWait(p)
    <3>1. /\ slot[p] = "live" /\ pc' = [pc EXCEPT ![p] = "wait"]
          /\ result' = [result EXCEPT ![p] = NoResult]
          /\ UNCHANGED <<slot, nextProcessId, numRunnable, treeVars, collected, failVars>>
      BY <2>4 DEF CallWait, Running, Returns
    <3>2. PICK id \in WaitIds : waitFor' = [waitFor EXCEPT ![p] = id]
      BY <2>4 DEF CallWait
    <3>3. /\ waitFor' \in [Pids -> WaitIds \cup {AnyChild}] /\ result' \in [Pids -> Outcome]
          /\ nextProcessId' \in 1 .. MaxProcs + 1
          /\ \A x \in Pids \ {p} : waitFor'[x] = waitFor[x]
      BY <3>1, <3>2 DEF Inv, TypeOK, Outcome
    <3> QED BY <3>1, <3>3, CallKeeps
  <2>5. CASE WaitScan(p) \/ WaitWoken(p)
    BY <2>5, WaitKeeps
  <2>6. CASE CallExit(p)
    BY <2>6, ExitKeeps DEF CallExit, Running
  <2>7. CASE \E q \in Pids : CallKill(p, q)
    BY <2>7, ExitKeeps DEF CallKill
  <2>8. CASE \E q \in Pids : KillFails(p, q)
    BY <2>8, KillFailsKeeps
  <2> QED BY <2>1, <2>2, <2>3, <2>4, <2>5, <2>6, <2>7, <2>8
<1> QED BY <1>1, <1>2

\* The invariants of the process table are inductive together.
THEOREM Invariance == Spec => []Inv
<1>1. Init => Inv
  BY Start
<1>2. Inv /\ [Next]_vars => Inv'
  BY NextKeeps
<1> QED BY <1>1, <1>2, PTL DEF Spec

\* Every variable has its type: the id that CreateProcess starts from stays in the table
\* or just above it.
THEOREM TypeCorrect == Spec => []TypeOK
<1>1. Inv => TypeOK
  BY DEF Inv
<1> QED BY <1>1, Invariance, PTL

\* For a table of any size: child lists and parent pointers agree, through any reuse of the
\* slots of zombies, collected or not.
THEOREM TreeIsConsistent == Spec => []TreeConsistent
<1>1. Inv => TreeConsistent
  BY DEF Inv
<1> QED BY <1>1, Invariance, PTL

\* No exit is returned by two waits, and none while the process lives.
THEOREM NeverReportedTwice == Spec => []ReportedOnce
<1>1. Inv => ReportedOnce
  BY DEF Inv
<1> QED BY <1>1, Invariance, PTL

\* Who sleeps in wait for any child has a live child whose exit wakes it up, unless a kill
\* that failed half-way has passed it by.
THEOREM NoLostExit == Spec => []WaiterHasLiveChild
<1>1. Inv => WaiterHasLiveChild
  BY DEF Inv
<1> QED BY <1>1, Invariance, PTL

\* WaitForProcessesExit never waits for a process that is not alive, but for those whose
\* exit was cut short before they were counted out.
THEOREM NeverTooMany == Spec => []LiveCounted
<1>1. Inv => LiveCounted
  BY DEF Inv
<1> QED BY <1>1, Invariance, PTL
=============================================================================
