--------------------------- MODULE INodeCacheProofs ---------------------------
(***************************************************************************)
(* Proofs about INodeCache, for any processes, any finite set of inodes    *)
(* and any size of the cache.                                              *)
(***************************************************************************)
EXTENDS INodeCache, FunctionTheorems, FiniteSetTheorems, SequenceTheorems,
        WellFoundedInduction, TLAPS

-----------------------------------------------------------------------------
(* How often something is in a sequence: what the operations on the free   *)
(* list do to it. Fresh inodes are in the list many times.                 *)

Occurs(s, x) == {n \in DOMAIN s : s[n] = x}

LEMMA OccursFinite ==
    ASSUME NEW S, NEW s \in Seq(S), NEW x
    PROVE  /\ Occurs(s, x) = {n \in 1 .. Len(s) : s[n] = x}
           /\ IsFiniteSet(Occurs(s, x)) /\ Cardinality(Occurs(s, x)) \in Nat
<1>1. Len(s) \in Nat /\ DOMAIN s = 1 .. Len(s)
  BY LenProperties
<1>2. IsFiniteSet(1 .. Len(s))
  BY <1>1, FS_Interval
<1>3. Occurs(s, x) = {n \in 1 .. Len(s) : s[n] = x} /\ Occurs(s, x) \in SUBSET (1 .. Len(s))
  BY <1>1 DEF Occurs
<1>4. IsFiniteSet(Occurs(s, x))
  BY <1>2, <1>3, FS_Subset
<1> QED BY <1>3, <1>4, FS_CardinalityType

LEMMA OccursSome ==
    ASSUME NEW S, NEW s \in Seq(S), NEW n \in 1 .. Len(s)
    PROVE  Cardinality(Occurs(s, s[n])) > 0
<1>1. n \in Occurs(s, s[n])
  BY OccursFinite
<1>2. Cardinality(Occurs(s, s[n])) # 0
  BY <1>1, OccursFinite, FS_EmptySet
<1> QED BY <1>2, OccursFinite

\* The sequence t is s without its n-th element.
LEMMA OccursDropped ==
    ASSUME NEW S, NEW s \in Seq(S), NEW t \in Seq(S), NEW n \in 1 .. Len(s),
           Len(t) = Len(s) - 1,
           \A i \in 1 .. Len(t) : t[i] = IF i < n THEN s[i] ELSE s[i + 1],
           NEW x
    PROVE  Cardinality(Occurs(t, x)) = Cardinality(Occurs(s, x)) - (IF s[n] = x THEN 1 ELSE 0)
<1>1. Len(s) \in Nat /\ Len(t) \in Nat /\ n \in Nat
  BY LenProperties
<1> DEFINE A == Occurs(t, x)
           B == Occurs(s, x) \ {n}
           f == [i \in A |-> IF i < n THEN i ELSE i + 1]
<1>2. A = {i \in 1 .. Len(t) : t[i] = x} /\ Occurs(s, x) = {i \in 1 .. Len(s) : s[i] = x}
  BY OccursFinite
<1>3. f \in [A -> B]
  <2> SUFFICES ASSUME NEW i \in A PROVE (IF i < n THEN i ELSE i + 1) \in B
    OBVIOUS
  <2>1. i \in 1 .. Len(t) /\ t[i] = x
    BY <1>2
  <2>2. CASE i < n
    <3>1. i \in 1 .. Len(s) /\ s[i] = x /\ i # n
      BY <1>1, <2>1, <2>2
    <3> QED BY <1>2, <2>2, <3>1
  <2>3. CASE ~ (i < n)
    <3>1. i + 1 \in 1 .. Len(s) /\ s[i + 1] = x /\ i + 1 # n
      BY <1>1, <2>1, <2>3
    <3> QED BY <1>2, <2>3, <3>1
  <2> QED BY <2>2, <2>3
<1>4. \A a, b \in A : f[a] = f[b] => a = b
  <2> SUFFICES ASSUME NEW a \in A, NEW b \in A, f[a] = f[b] PROVE a = b
    OBVIOUS
  <2>1. a \in Nat /\ b \in Nat
    BY <1>1, <1>2
  <2>2. f[a] = (IF a < n THEN a ELSE a + 1) /\ f[b] = (IF b < n THEN b ELSE b + 1)
    OBVIOUS
  <2> QED BY <1>1, <2>1, <2>2
<1>5. \A c \in B : \E a \in A : f[a] = c
  <2> SUFFICES ASSUME NEW c \in B PROVE \E a \in A : f[a] = c
    OBVIOUS
  <2>1. c \in 1 .. Len(s) /\ s[c] = x /\ c # n
    BY <1>2
  <2>2. CASE c < n
    <3>1. c \in 1 .. Len(t) /\ t[c] = x
      BY <1>1, <2>1, <2>2
    <3>2. c \in A
      BY <1>2, <3>1
    <3> QED BY <2>2, <3>2
  <2>3. CASE ~ (c < n)
    <3>1. c - 1 \in 1 .. Len(t) /\ t[c - 1] = x /\ ~ (c - 1 < n) /\ (c - 1) + 1 = c
      BY <1>1, <2>1, <2>3
    <3>2. c - 1 \in A
      BY <1>2, <3>1
    <3>3. f[c - 1] = c
      BY <3>1, <3>2
    <3> QED BY <3>2, <3>3
  <2> QED BY <2>2, <2>3
<1> HIDE DEF f
<1>6. f \in Bijection(A, B)
  BY <1>3, <1>4, <1>5 DEF Bijection, Injection, Surjection, IsInjective
<1>7. IsFiniteSet(A) /\ IsFiniteSet(Occurs(s, x)) /\ Cardinality(Occurs(s, x)) \in Nat
  BY OccursFinite
<1>8. Cardinality(B) = Cardinality(A)
  BY <1>6, <1>7, FS_Bijection DEF ExistsBijection
<1>9. Cardinality(B) = IF n \in Occurs(s, x) THEN Cardinality(Occurs(s, x)) - 1
                       ELSE Cardinality(Occurs(s, x))
  BY <1>7, FS_RemoveElement
<1>10. n \in Occurs(s, x) <=> s[n] = x
  BY <1>2
<1> QED BY <1>7, <1>8, <1>9, <1>10

LEMMA OccursAppend ==
    ASSUME NEW S, NEW s \in Seq(S), NEW e \in S, NEW x
    PROVE  /\ Append(s, e) \in Seq(S)
           /\ Cardinality(Occurs(Append(s, e), x)) =
                  Cardinality(Occurs(s, x)) + (IF e = x THEN 1 ELSE 0)
<1> DEFINE t == Append(s, e)
           m == Len(s) + 1
<1>1. /\ t \in Seq(S) /\ Len(t) = m /\ Len(s) \in Nat
      /\ \A i \in 1 .. Len(s) : t[i] = s[i]
      /\ t[m] = e
  BY AppendProperties, LenProperties
<1> HIDE DEF t
<1>2. /\ Occurs(t, x) = {i \in 1 .. Len(t) : t[i] = x}
      /\ Occurs(s, x) = {i \in 1 .. Len(s) : s[i] = x}
      /\ IsFiniteSet(Occurs(s, x)) /\ Cardinality(Occurs(s, x)) \in Nat
  BY <1>1, OccursFinite
<1>3. 1 .. Len(t) = (1 .. Len(s)) \cup {m} /\ m \notin 1 .. Len(s)
  BY <1>1
<1>4. Cardinality(Occurs(t, x)) = Cardinality(Occurs(s, x)) + (IF e = x THEN 1 ELSE 0)
  <2>1. CASE e = x
    <3>1. Occurs(t, x) = Occurs(s, x) \cup {m} /\ m \notin Occurs(s, x)
      BY <1>1, <1>2, <1>3, <2>1
    <3>2. Cardinality(Occurs(t, x)) = Cardinality(Occurs(s, x)) + 1
      BY <1>2, <3>1, FS_AddElement
    <3> QED BY <2>1, <3>2
  <2>2. CASE e # x
    <3>1. Occurs(t, x) = Occurs(s, x)
      BY <1>1, <1>2, <1>3, <2>2
    <3>2. Cardinality(Occurs(t, x)) = Cardinality(Occurs(s, x)) /\ Cardinality(Occurs(s, x)) \in Nat
      BY <1>2, <3>1
    <3> QED BY <2>2, <3>2
  <2> QED BY <2>1, <2>2
<1> QED BY <1>1, <1>4 DEF t

LEMMA OccursTail ==
    ASSUME NEW S, NEW s \in Seq(S), s # <<>>, NEW x
    PROVE  /\ Head(s) \in S /\ Tail(s) \in Seq(S)
           /\ Cardinality(Occurs(s, Head(s))) > 0
           /\ Cardinality(Occurs(Tail(s), x)) =
                  Cardinality(Occurs(s, x)) - (IF Head(s) = x THEN 1 ELSE 0)
<1> DEFINE t == Tail(s)
<1>1. /\ t \in Seq(S) /\ Len(t) = Len(s) - 1 /\ Len(s) \in Nat \ {0}
      /\ \A i \in 1 .. Len(t) : t[i] = s[i + 1]
      /\ Head(s) = s[1] /\ Head(s) \in S
  BY HeadTailProperties, EmptySeq
<1> HIDE DEF t
<1>2. 1 \in 1 .. Len(s) /\ \A i \in 1 .. Len(t) : ~ (i < 1)
  BY <1>1
<1>3. \A i \in 1 .. Len(t) : t[i] = IF i < 1 THEN s[i] ELSE s[i + 1]
  BY <1>1, <1>2
<1>4. Cardinality(Occurs(t, x)) = Cardinality(Occurs(s, x)) - (IF s[1] = x THEN 1 ELSE 0)
  BY <1>1, <1>2, <1>3, OccursDropped
<1>5. Cardinality(Occurs(s, s[1])) > 0
  BY <1>2, OccursSome
<1> QED BY <1>1, <1>4, <1>5 DEF t

LEMMA RemoveAtIs ==
    ASSUME NEW S, NEW s \in Seq(S), NEW n \in 1 .. Len(s)
    PROVE  /\ RemoveAt(s, n) \in Seq(S) /\ Len(RemoveAt(s, n)) = Len(s) - 1
           /\ \A i \in 1 .. Len(RemoveAt(s, n)) :
                  RemoveAt(s, n)[i] = IF i < n THEN s[i] ELSE s[i + 1]
<1>2. Len(s) \in Nat /\ \A i \in 1 .. Len(s) : s[i] \in S
  BY LenProperties, ElementOfSeq
<1> DEFINE before == SubSeq(s, 1, n - 1)
           after == SubSeq(s, n + 1, Len(s))
           t == before \o after
<1>5. /\ before \in Seq(S) /\ Len(before) = n - 1
      /\ \A i \in 1 .. n - 1 : before[i] = s[i]
  <2>1. \A i \in 1 .. n - 1 : s[i] \in S BY <1>2
  <2>2. 1 \in Int /\ n - 1 \in Int BY <1>2
  <2>3. \A i \in 1 .. (n - 1) - 1 + 1 : before[i] = s[1 + i - 1]
    BY <2>1, <2>2, SubSeqProperties
  <2>4. before \in Seq(S) /\ Len(before) = IF 1 <= n - 1 THEN (n - 1) - 1 + 1 ELSE 0
    BY <2>1, <2>2, SubSeqProperties
  <2> QED BY <1>2, <2>3, <2>4
<1>6. /\ after \in Seq(S) /\ Len(after) = Len(s) - n
      /\ \A i \in 1 .. Len(s) - n : after[i] = s[n + i]
  <2>1. \A i \in n + 1 .. Len(s) : s[i] \in S BY <1>2
  <2>2. n + 1 \in Int /\ Len(s) \in Int BY <1>2
  <2>3. \A i \in 1 .. Len(s) - (n + 1) + 1 : after[i] = s[(n + 1) + i - 1]
    BY <2>1, <2>2, SubSeqProperties
  <2>4. after \in Seq(S) /\ Len(after) = IF n + 1 <= Len(s) THEN Len(s) - (n + 1) + 1 ELSE 0
    BY <2>1, <2>2, SubSeqProperties
  <2> QED BY <1>2, <2>3, <2>4
<1> HIDE DEF before, after
<1>7. /\ t \in Seq(S) /\ Len(t) = Len(before) + Len(after)
      /\ \A i \in 1 .. Len(before) + Len(after) :
             t[i] = IF i <= Len(before) THEN before[i] ELSE after[i - Len(before)]
  BY <1>5, <1>6, ConcatProperties
<1>8. Len(t) = Len(s) - 1
  BY <1>2, <1>5, <1>6, <1>7
<1> HIDE DEF t
<1>9. ASSUME NEW i \in 1 .. Len(t) PROVE t[i] = IF i < n THEN s[i] ELSE s[i + 1]
  <2>1. CASE i < n
    BY <1>2, <1>5, <1>7, <1>8, <2>1
  <2>2. CASE ~ (i < n)
    <3>1. i - (n - 1) \in 1 .. Len(s) - n /\ n + (i - (n - 1)) = i + 1
      BY <1>2, <1>8, <2>2
    <3>2. t[i] = after[i - (n - 1)]
      BY <1>2, <1>5, <1>7, <2>2
    <3> QED BY <1>2, <1>6, <2>2, <3>1, <3>2
  <2> QED BY <2>1, <2>2
<1> QED BY <1>7, <1>8, <1>9 DEF t, before, after, RemoveAt

\* What is in the sequence at most once is not in it when it is removed.
LEMMA OccursRemoved ==
    ASSUME NEW S, NEW s \in Seq(S), NEW e, Cardinality(Occurs(s, e)) <= 1
    PROVE  /\ RemoveFirst(s, e) \in Seq(S)
           /\ Cardinality(Occurs(RemoveFirst(s, e), e)) = 0
           /\ \A x : x # e => Cardinality(Occurs(RemoveFirst(s, e), x)) = Cardinality(Occurs(s, x))
<1>1. /\ Occurs(s, e) = {i \in 1 .. Len(s) : s[i] = e}
      /\ IsFiniteSet(Occurs(s, e)) /\ Cardinality(Occurs(s, e)) \in Nat
  BY OccursFinite
<1>2. CASE Cardinality(Occurs(s, e)) = 0
  <2>1. Occurs(s, e) = {}
    BY <1>1, <1>2, FS_EmptySet
  <2>2. RemoveFirst(s, e) = s
    BY <1>1, <2>1 DEF RemoveFirst
  <2> QED BY <1>2, <2>2
<1>3. CASE Cardinality(Occurs(s, e)) = 1
  <2>1. PICK n : Occurs(s, e) = {n}
    BY <1>1, <1>3, FS_Singleton
  <2>2. n \in 1 .. Len(s) /\ s[n] = e
    BY <1>1, <2>1
  <2>3. {i \in 1 .. Len(s) : s[i] = e} = {n}
    BY <1>1, <2>1
  <2>4. n = Min({n})
    <3>1. n \in Int BY <2>2
    <3> QED BY <3>1 DEF Min
  <2>5. SelectInSeq(s, LAMBDA v : v = e) = n
    BY <2>3, <2>4 DEF SelectInSeq
  <2>6. RemoveFirst(s, e) = RemoveAt(s, n)
    BY <2>2, <2>5 DEF RemoveFirst
  <2> DEFINE t == RemoveAt(s, n)
  <2>7. /\ t \in Seq(S) /\ Len(t) = Len(s) - 1
        /\ \A i \in 1 .. Len(t) : t[i] = IF i < n THEN s[i] ELSE s[i + 1]
    BY <2>2, RemoveAtIs
  <2> HIDE DEF t
  <2>8. \A x : Cardinality(Occurs(t, x)) = Cardinality(Occurs(s, x)) - (IF s[n] = x THEN 1 ELSE 0)
    BY <2>2, <2>7, OccursDropped
  <2>9. \A x : Cardinality(Occurs(s, x)) \in Nat
    BY OccursFinite
  <2>10. Cardinality(Occurs(t, e)) = 0
    BY <1>3, <2>2, <2>8
  <2>11. \A x : x # e => Cardinality(Occurs(t, x)) = Cardinality(Occurs(s, x))
    BY <2>2, <2>8, <2>9
  <2> QED BY <2>6, <2>7, <2>10, <2>11 DEF t
<1> QED BY <1>1, <1>2, <1>3

-----------------------------------------------------------------------------
(* The INodePtrs of an inode: one more, and what their number says about   *)
(* who has them.                                                           *)

PtrsOf(h, i) == UNION {{q} \X (1 .. h[q][i]) : q \in Procs}

LEMMA PtrsOfIs ==
    ASSUME NEW h, NEW i
    PROVE  PtrsOf(h, i) = {x \in Procs \X Nat : x[2] \in 1 .. h[x[1]][i]}
<1>1. ASSUME NEW x \in PtrsOf(h, i)
      PROVE  x \in Procs \X Nat /\ x[2] \in 1 .. h[x[1]][i]
  <2>1. PICK q \in Procs : x \in {q} \X (1 .. h[q][i])
    BY <1>1 DEF PtrsOf
  <2>2. x[1] = q /\ x[2] \in 1 .. h[q][i] /\ x = <<x[1], x[2]>>
    BY <2>1
  <2>3. x[2] \in Nat
    BY <2>2
  <2> QED BY <2>2, <2>3
<1>2. ASSUME NEW x \in Procs \X Nat, x[2] \in 1 .. h[x[1]][i]
      PROVE  x \in PtrsOf(h, i)
  <2>1. x[1] \in Procs /\ x \in {x[1]} \X (1 .. h[x[1]][i])
    BY <1>2
  <2> QED BY <2>1 DEF PtrsOf
<1> QED BY <1>1, <1>2

Tables == [Procs -> [INodes -> Nat]]

\* In g, p has one INodePtr of i more than in h.
HasOneMore(g, h, p, i) ==
    /\ g \in Tables /\ h \in Tables
    /\ g[p][i] = h[p][i] + 1
    /\ \A q \in Procs, j \in INodes : q # p \/ j # i => g[q][j] = h[q][j]

LEMMA OneMorePtr ==
    ASSUME NEW h, NEW g, NEW p \in Procs, NEW i \in INodes, HasOneMore(g, h, p, i)
    PROVE  /\ \A j \in INodes : j # i => PtrsOf(g, j) = PtrsOf(h, j)
           /\ IsFiniteSet(PtrsOf(h, i)) <=> IsFiniteSet(PtrsOf(g, i))
           /\ IsFiniteSet(PtrsOf(h, i)) =>
                  Cardinality(PtrsOf(g, i)) = Cardinality(PtrsOf(h, i)) + 1
<1> USE DEF HasOneMore, Tables
<1>1. \A j \in INodes : j # i => PtrsOf(g, j) = PtrsOf(h, j)
  BY DEF PtrsOf
<1> DEFINE new == <<p, h[p][i] + 1>>
<1>2. PtrsOf(g, i) = PtrsOf(h, i) \cup {new}
  <2>1. ASSUME NEW x \in Procs \X Nat
        PROVE  x[2] \in 1 .. g[x[1]][i] <=> x[2] \in 1 .. h[x[1]][i] \/ x = new
    <3>1. x[1] \in Procs /\ x[2] \in Nat /\ x = <<x[1], x[2]>>
      OBVIOUS
    <3>2. CASE x[1] = p
      <4>1. x = new <=> x[2] = h[p][i] + 1
        BY <3>1, <3>2
      <4>2. h[p][i] \in Nat
        OBVIOUS
      <4>3. x[2] \in 1 .. h[p][i] + 1 <=> x[2] \in 1 .. h[p][i] \/ x[2] = h[p][i] + 1
        BY <3>1, <4>2
      <4> QED BY <3>2, <4>1, <4>3
    <3>3. CASE x[1] # p
      BY <3>1, <3>3
    <3> QED BY <3>2, <3>3
  <2>2. new \in Procs \X Nat
    OBVIOUS
  <2> QED BY <2>1, <2>2, PtrsOfIs
<1>3. new \notin PtrsOf(h, i)
  <2>1. h[p][i] \in Nat
    OBVIOUS
  <2>2. h[p][i] + 1 \notin 1 .. h[p][i]
    BY <2>1
  <2> QED BY <2>2, PtrsOfIs
<1> HIDE DEF new
<1>4. IsFiniteSet(PtrsOf(g, i)) => IsFiniteSet(PtrsOf(h, i))
  BY <1>2, FS_Subset
<1>5. IsFiniteSet(PtrsOf(h, i)) =>
          IsFiniteSet(PtrsOf(g, i)) /\ Cardinality(PtrsOf(g, i)) = Cardinality(PtrsOf(h, i)) + 1
  BY <1>2, <1>3, FS_AddElement
<1> QED BY <1>1, <1>4, <1>5

LEMMA NobodyHas ==
    ASSUME NEW h \in [Procs -> [INodes -> Nat]], NEW p \in Procs, NEW i \in INodes,
           IsFiniteSet(PtrsOf(h, i)), Cardinality(PtrsOf(h, i)) = 0
    PROVE  h[p][i] = 0
<1>1. PtrsOf(h, i) = {}
  BY FS_EmptySet
<1>2. <<p, 1>> \in Procs \X Nat /\ h[p][i] \in Nat
  OBVIOUS
<1>3. 1 \notin 1 .. h[p][i]
  BY <1>1, <1>2, PtrsOfIs
<1> QED BY <1>2, <1>3

LEMMA OnlyOneHas ==
    ASSUME NEW h \in [Procs -> [INodes -> Nat]], NEW p \in Procs, NEW q \in Procs,
           NEW i \in INodes, IsFiniteSet(PtrsOf(h, i)), Cardinality(PtrsOf(h, i)) = 1,
           h[p][i] > 0, h[q][i] > 0
    PROVE  p = q
<1>1. PICK x : PtrsOf(h, i) = {x}
  BY FS_Singleton
<1>2. h[p][i] \in Nat /\ h[q][i] \in Nat
  OBVIOUS
<1>3. 1 \in 1 .. h[p][i] /\ 1 \in 1 .. h[q][i]
  BY <1>2
<1>4. <<p, 1>> \in Procs \X Nat /\ <<q, 1>> \in Procs \X Nat
  OBVIOUS
<1>5. <<p, 1>> \in PtrsOf(h, i) /\ <<q, 1>> \in PtrsOf(h, i)
  BY <1>3, <1>4, PtrsOfIs
<1>6. <<p, 1>> = <<q, 1>>
  BY <1>1, <1>5
<1> QED BY <1>6

\* The number that the allocation of an inode takes.
LEMMA Least ==
    ASSUME NEW S \in SUBSET Nat, S # {}
    PROVE  Min(S) \in S
<1>1. PICK n \in S : TRUE
  OBVIOUS
<1>2. \E m \in S : \A k \in S : <<k, m>> \notin OpToRel(<, Nat)
  BY WFMin, NatLessThanWellFounded, Zenon
<1>3. PICK m \in S : \A k \in S : ~ (k < m)
  BY <1>2 DEF OpToRel
<1>4. \A k \in S : m <= k
  BY <1>3
<1>5. \E x \in S : \A y \in S : x <= y
  BY <1>4
<1> QED BY <1>5 DEF Min

-----------------------------------------------------------------------------
(* The counts, as a statement about a table of INodePtrs, a free list, the *)
(* cached inodes and their lock counts.                                    *)

IsCounted(h, f, c, n, i) ==
    /\ IsFiniteSet(PtrsOf(h, i))
    /\ Cardinality(PtrsOf(h, i)) = IF i \in c THEN n[i] ELSE 0
    /\ Cardinality(Occurs(f, i)) = IF i \in c /\ Cardinality(PtrsOf(h, i)) = 0 THEN 1 ELSE 0

AreCounted(h, f, c, n) ==
    /\ \A i \in INodes : IsCounted(h, f, c, n, i)
    /\ Cardinality(c) + Cardinality(Occurs(f, Blank)) = MaxCached

Lists == Seq(INodes \cup {Blank})

LEMMA Plus ==
    ASSUME NEW h \in Tables, NEW p \in Procs, NEW i \in INodes
    PROVE  /\ HasOneMore([h EXCEPT ![p][i] = @ + 1], h, p, i)
           /\ h[p][i] > 0 => HasOneMore(h, [h EXCEPT ![p][i] = @ - 1], p, i)
<1>1. h[p][i] \in Nat
  BY DEF Tables
<1>2. HasOneMore([h EXCEPT ![p][i] = @ + 1], h, p, i)
  BY <1>1 DEF Tables, HasOneMore
<1>3. ASSUME h[p][i] > 0
      PROVE  HasOneMore(h, [h EXCEPT ![p][i] = @ - 1], p, i)
  <2>1. h[p][i] - 1 \in Nat /\ h[p][i] = (h[p][i] - 1) + 1
    BY <1>1, <1>3
  <2> QED BY <2>1 DEF Tables, HasOneMore
<1> QED BY <1>2, <1>3

LEMMA HitCounts ==
    ASSUME NEW h \in Tables, NEW f \in Lists, NEW c \in SUBSET INodes, NEW n \in [INodes -> Nat],
           AreCounted(h, f, c, n), NEW p \in Procs, NEW i \in c,
           NEW g, HasOneMore(g, h, p, i),
           NEW m, m = [n EXCEPT ![i] = n[i] + 1]
    PROVE  RemoveFirst(f, i) \in Lists /\ AreCounted(g, RemoveFirst(f, i), c, m)
<1> DEFINE e == RemoveFirst(f, i)
<1>2. IsCounted(h, f, c, n, i) /\ i \in INodes /\ Blank # i
  BY INodeCacheAssumption DEF AreCounted
<1>3. /\ \A j \in INodes : j # i => PtrsOf(g, j) = PtrsOf(h, j)
      /\ IsFiniteSet(PtrsOf(g, i)) /\ Cardinality(PtrsOf(g, i)) = Cardinality(PtrsOf(h, i)) + 1
  BY <1>2, OneMorePtr DEF IsCounted
<1>4. Cardinality(PtrsOf(h, i)) = n[i] /\ n[i] \in Nat
  BY <1>2 DEF IsCounted
<1>5. Cardinality(Occurs(f, i)) = (IF Cardinality(PtrsOf(h, i)) = 0 THEN 1 ELSE 0)
  BY <1>2 DEF IsCounted
<1>6. Cardinality(Occurs(f, i)) <= 1
  BY <1>5
<1>7. /\ e \in Lists /\ Cardinality(Occurs(e, i)) = 0
      /\ \A x : x # i => Cardinality(Occurs(e, x)) = Cardinality(Occurs(f, x))
  BY <1>6, OccursRemoved DEF Lists
<1> HIDE DEF e
<1>8. m[i] = n[i] + 1 /\ \A j \in INodes : j # i => m[j] = n[j]
  BY <1>2
<1>9. IsCounted(g, e, c, m, i)
  <2>1. Cardinality(PtrsOf(g, i)) = m[i] /\ Cardinality(PtrsOf(g, i)) # 0
    BY <1>3, <1>4, <1>8
  <2> QED BY <1>3, <1>7, <2>1 DEF IsCounted
<1>10. ASSUME NEW j \in INodes, j # i PROVE IsCounted(g, e, c, m, j)
  <2>1. IsCounted(h, f, c, n, j)
    BY DEF AreCounted
  <2>2. PtrsOf(g, j) = PtrsOf(h, j) /\ Cardinality(Occurs(e, j)) = Cardinality(Occurs(f, j))
        /\ m[j] = n[j]
    BY <1>3, <1>7, <1>8, <1>10
  <2> QED BY <2>1, <2>2 DEF IsCounted
<1>11. Cardinality(c) + Cardinality(Occurs(e, Blank)) = MaxCached
  BY <1>2, <1>7 DEF AreCounted
<1> QED BY <1>7, <1>9, <1>10, <1>11 DEF AreCounted, e

\* The inode that is first in the free list is cached and nobody has it, or it was never used.
LEMMA Victim ==
    ASSUME NEW h \in Tables, NEW f \in Lists, NEW c \in SUBSET INodes, NEW n \in [INodes -> Nat],
           AreCounted(h, f, c, n), f # <<>>
    PROVE  /\ Tail(f) \in Lists
           /\ \/ Head(f) = Blank
              \/ Head(f) \in c /\ n[Head(f)] = 0 /\ Cardinality(PtrsOf(h, Head(f))) = 0
<1>1. /\ Head(f) \in INodes \cup {Blank} /\ Tail(f) \in Lists
      /\ Cardinality(Occurs(f, Head(f))) > 0
  BY OccursTail DEF Lists
<1>2. ASSUME Head(f) \in INodes
      PROVE  Head(f) \in c /\ n[Head(f)] = 0 /\ Cardinality(PtrsOf(h, Head(f))) = 0
  <2>1. IsCounted(h, f, c, n, Head(f))
    BY <1>2 DEF AreCounted
  <2>2. Cardinality(Occurs(f, Head(f))) # 0
    BY <1>1
  <2>3. Head(f) \in c /\ Cardinality(PtrsOf(h, Head(f))) = 0
    BY <2>1, <2>2 DEF IsCounted
  <2> QED BY <2>1, <2>3 DEF IsCounted
<1> QED BY <1>1, <1>2

LEMMA MissCounts ==
    ASSUME NEW h \in Tables, NEW f \in Lists, NEW c \in SUBSET INodes, NEW n \in [INodes -> Nat],
           AreCounted(h, f, c, n), f # <<>>, NEW p \in Procs, NEW i \in INodes, i \notin c,
           NEW g, HasOneMore(g, h, p, i),
           NEW m, m = [n EXCEPT ![i] = 1],
           NEW d, d = (c \ {Head(f)}) \cup {i}
    PROVE  AreCounted(g, Tail(f), d, m)
<1> DEFINE v == Head(f)
           e == Tail(f)
<1>2. IsCounted(h, f, c, n, i) /\ Blank # i
  BY INodeCacheAssumption DEF AreCounted
<1>3. /\ \A j \in INodes : j # i => PtrsOf(g, j) = PtrsOf(h, j)
      /\ IsFiniteSet(PtrsOf(g, i)) /\ Cardinality(PtrsOf(g, i)) = Cardinality(PtrsOf(h, i)) + 1
  BY <1>2, OneMorePtr DEF IsCounted
<1>4. Cardinality(PtrsOf(h, i)) = 0 /\ Cardinality(Occurs(f, i)) = 0
  BY <1>2 DEF IsCounted
<1>5. /\ e \in Lists
      /\ \/ v = Blank
         \/ v \in c /\ n[v] = 0 /\ Cardinality(PtrsOf(h, v)) = 0
  BY Victim
<1>6. \A x : Cardinality(Occurs(e, x)) = Cardinality(Occurs(f, x)) - (IF v = x THEN 1 ELSE 0)
  BY OccursTail DEF Lists
<1>7. \A x : Cardinality(Occurs(f, x)) \in Nat
  BY OccursFinite DEF Lists
<1> HIDE DEF e, v
<1>8. v # i
  BY <1>2, <1>5
<1>9. m[i] = 1 /\ \A j \in INodes : j # i => m[j] = n[j]
  OBVIOUS
<1>10. d = (c \ {v}) \cup {i}
  BY DEF v
<1>11. IsCounted(g, e, d, m, i)
  <2>1. Cardinality(PtrsOf(g, i)) = m[i] /\ Cardinality(PtrsOf(g, i)) # 0
    BY <1>3, <1>4, <1>9
  <2>2. Cardinality(Occurs(e, i)) = 0
    BY <1>4, <1>6, <1>8
  <2> QED BY <1>3, <1>10, <2>1, <2>2 DEF IsCounted
<1>12. ASSUME NEW j \in INodes, j # i PROVE IsCounted(g, e, d, m, j)
  <2>1. IsCounted(h, f, c, n, j)
    BY DEF AreCounted
  <2>2. PtrsOf(g, j) = PtrsOf(h, j) /\ m[j] = n[j]
    BY <1>3, <1>9, <1>12
  <2>3. CASE j = v
    <3>1. v \in c /\ Cardinality(PtrsOf(h, v)) = 0 /\ j \notin d
      BY <1>5, <1>10, <1>12, <2>3, INodeCacheAssumption
    <3>2. Cardinality(Occurs(f, j)) = 1
      BY <2>1, <2>3, <3>1 DEF IsCounted
    <3>3. Cardinality(Occurs(e, j)) = 0
      BY <1>6, <2>3, <3>2
    <3> QED BY <2>1, <2>2, <2>3, <3>1, <3>3 DEF IsCounted
  <2>4. CASE j # v
    <3>1. Cardinality(Occurs(e, j)) = Cardinality(Occurs(f, j))
      BY <1>6, <1>7, <2>4
    <3>2. j \in d <=> j \in c
      BY <1>10, <1>12, <2>4
    <3> QED BY <2>1, <2>2, <3>1, <3>2 DEF IsCounted
  <2> QED BY <2>3, <2>4
<1>13. Cardinality(d) + Cardinality(Occurs(e, Blank)) = MaxCached
  <2>1. IsFiniteSet(c) /\ Cardinality(c) \in Nat
    BY INodeCacheAssumption, FS_Subset, FS_CardinalityType
  <2>2. Cardinality(c) + Cardinality(Occurs(f, Blank)) = MaxCached
    BY DEF AreCounted
  <2>3. IsFiniteSet(c \ {v}) /\ Cardinality(c \ {v}) = Cardinality(c) - (IF v \in c THEN 1 ELSE 0)
    <3>1. CASE v \in c
      BY <2>1, <3>1, FS_RemoveElement
    <3>2. CASE v \notin c
      <4>1. c \ {v} = c
        BY <3>2
      <4>2. Cardinality(c) = Cardinality(c) - 0
        BY <2>1
      <4>3. IsFiniteSet(c \ {v}) /\ Cardinality(c \ {v}) = Cardinality(c) - 0
        BY <2>1, <4>1, <4>2
      <4> QED BY <3>2, <4>3
    <3> QED BY <3>1, <3>2
  <2>4. i \notin c \ {v}
    OBVIOUS
  <2>5. Cardinality((c \ {v}) \cup {i}) = Cardinality(c \ {v}) + 1
    BY <2>3, <2>4, FS_AddElement
  <2>6. Cardinality(d) = Cardinality(c) - (IF v \in c THEN 1 ELSE 0) + 1
    BY <1>10, <2>3, <2>5
  <2>7. v \in c <=> v # Blank
    BY <1>5, INodeCacheAssumption
  <2> QED BY <1>6, <1>7, <2>1, <2>2, <2>6, <2>7
<1> QED BY <1>11, <1>12, <1>13 DEF AreCounted, e

\* The last INodePtr that is put brings the inode back to the free list.
IsPut(f, n, e, m, i) ==
    /\ m = [n EXCEPT ![i] = @ - 1]
    /\ e = IF n[i] = 1 THEN Append(f, i) ELSE f

LEMMA PutCounts ==
    ASSUME NEW h \in Tables, NEW f \in Lists, NEW c \in SUBSET INodes, NEW n \in [INodes -> Nat],
           AreCounted(h, f, c, n), NEW p \in Procs, NEW i \in INodes,
           NEW g, HasOneMore(h, g, p, i),
           NEW m, NEW e, IsPut(f, n, e, m, i)
    PROVE  /\ i \in c /\ n[i] > 0 /\ Cardinality(PtrsOf(h, i)) = n[i]
           /\ e \in Lists /\ m \in [INodes -> Nat]
           /\ AreCounted(g, e, c, m)
<1> USE DEF IsPut
<1>2. IsCounted(h, f, c, n, i) /\ Blank # i
  BY INodeCacheAssumption DEF AreCounted
<1>4. /\ \A j \in INodes : j # i => PtrsOf(g, j) = PtrsOf(h, j)
      /\ IsFiniteSet(PtrsOf(g, i)) /\ Cardinality(PtrsOf(h, i)) = Cardinality(PtrsOf(g, i)) + 1
  BY <1>2, OneMorePtr DEF IsCounted
<1>5. Cardinality(PtrsOf(g, i)) \in Nat
  BY <1>4, FS_CardinalityType
<1>6. Cardinality(PtrsOf(h, i)) # 0
  BY <1>4, <1>5
<1>7. i \in c /\ Cardinality(PtrsOf(h, i)) = n[i] /\ Cardinality(Occurs(f, i)) = 0
  BY <1>2, <1>6 DEF IsCounted
<1>8. n[i] \in Nat /\ n[i] > 0 /\ Cardinality(PtrsOf(g, i)) = n[i] - 1
  BY <1>4, <1>5, <1>7
<1>9. m \in [INodes -> Nat] /\ m[i] = n[i] - 1 /\ \A j \in INodes : j # i => m[j] = n[j]
  BY <1>8
<1>10. \A x : Cardinality(Occurs(f, x)) \in Nat
  BY OccursFinite DEF Lists
<1>11. /\ e \in Lists
       /\ \A x : Cardinality(Occurs(e, x)) =
                     Cardinality(Occurs(f, x)) + (IF n[i] = 1 /\ x = i THEN 1 ELSE 0)
  <2>1. CASE n[i] = 1
    <3>1. e = Append(f, i) /\ i \in INodes \cup {Blank}
      BY <2>1
    <3>2. e \in Seq(INodes \cup {Blank})
      BY <3>1, OccursAppend DEF Lists
    <3>3. ASSUME NEW x
          PROVE  Cardinality(Occurs(e, x)) = Cardinality(Occurs(f, x)) + (IF i = x THEN 1 ELSE 0)
      <4>1. f \in Seq(INodes \cup {Blank})
        BY DEF Lists
      <4>2. Cardinality(Occurs(Append(f, i), x)) = Cardinality(Occurs(f, x)) + (IF i = x THEN 1 ELSE 0)
        BY <3>1, <4>1, OccursAppend
      <4> QED BY <3>1, <4>2
    <3> QED BY <2>1, <3>2, <3>3 DEF Lists
  <2>2. CASE n[i] # 1
    BY <1>10, <2>2
  <2> QED BY <2>1, <2>2
<1>12. IsCounted(g, e, c, m, i)
  <2>1. Cardinality(Occurs(e, i)) = IF n[i] = 1 THEN 1 ELSE 0
    BY <1>7, <1>11
  <2>2. Cardinality(PtrsOf(g, i)) = 0 <=> n[i] = 1
    BY <1>8
  <2> QED BY <1>4, <1>7, <1>8, <1>9, <2>1, <2>2 DEF IsCounted
<1>13. ASSUME NEW j \in INodes, j # i PROVE IsCounted(g, e, c, m, j)
  <2>1. IsCounted(h, f, c, n, j)
    BY DEF AreCounted
  <2>2. PtrsOf(g, j) = PtrsOf(h, j) /\ m[j] = n[j]
    BY <1>4, <1>9, <1>13
  <2>3. Cardinality(Occurs(e, j)) = Cardinality(Occurs(f, j))
    BY <1>10, <1>11, <1>13
  <2> QED BY <2>1, <2>2, <2>3 DEF IsCounted
<1>14. Cardinality(c) + Cardinality(Occurs(e, Blank)) = MaxCached
  <2>1. Cardinality(Occurs(e, Blank)) = Cardinality(Occurs(f, Blank))
    BY <1>2, <1>10, <1>11
  <2> QED BY <2>1 DEF AreCounted
<1> QED BY <1>7, <1>8, <1>9, <1>11, <1>12, <1>13, <1>14 DEF AreCounted

-----------------------------------------------------------------------------
(* The inductive invariant.                                                *)

\* Where a process can be with its goal, and for which goals it knows the inode.
Fits(p) ==
    /\ pc[p] \in {"use", "unwind"} <=> goal[p] = "none"
    /\ pc[p] \in {"get", "asleep"} => goal[p] \in {"read", "allocate"} /\ want[p] \in INodes
    /\ pc[p] = "new" => goal[p] = "allocate"
    /\ pc[p] = "writing" => goal[p] \in {"create", "write", "free"}
    /\ goal[p] = "create" => pc[p] \in {"getBlock", "haveBlock", "writing"}
    /\ pc[p] \in {"getBlock", "haveBlock", "writing"} /\ goal[p] # "allocate" => want[p] \in INodes

\* From the miss until the inode is read, or until the new inode is written, the inode
\* is locked: only reading it loses the flag.
Owning(p) ==
    \/ Creating(p)
    \/ goal[p] = "read" /\ pc[p] \in {"getBlock", "haveBlock"}

HasLock(p) ==
    /\ want[p] \in cached
    /\ locked[want[p]] /\ locker[want[p]] = p
    /\ held[p][want[p]] > 0

Reason(p) ==
    pc[p] = "asleep" => want[p] \in cached /\ lockCount[want[p]] > 0 /\ want[p] \in events

Sane(p) == Fits(p) /\ (Owning(p) => HasLock(p)) /\ Reason(p)

LockedIsCounted == \A i \in cached : locked[i] => lockCount[i] > 0

Inv ==
    /\ TypeOK
    /\ AreCounted(held, freeList, cached, lockCount)
    /\ LockedIsCounted
    /\ \A p \in Procs : Sane(p)

LEMMA InvMeans ==
    Inv => CountsAgree /\ SleepersHaveReason
<1> SUFFICES ASSUME Inv PROVE CountsAgree /\ SleepersHaveReason
  OBVIOUS
<1>1. SleepersHaveReason
  BY DEF Inv, Sane, Reason, SleepersHaveReason
<1>2. AreCounted(held, freeList, cached, lockCount)
  BY DEF Inv
<1>3. ASSUME NEW i \in INodes PROVE Ptrs(i) = PtrsOf(held, i)
  BY DEF Ptrs, PtrsOf
<1>4. ASSUME NEW x PROVE Times(x) = Cardinality(Occurs(freeList, x))
  BY DEF Times, Occurs
<1>5. Cardinality(cached) + Times(Blank) = MaxCached
  BY <1>2, <1>4, Zenon DEF AreCounted
<1>6. ASSUME NEW i \in INodes
      PROVE  /\ Cardinality(Ptrs(i)) = IF i \in cached THEN lockCount[i] ELSE 0
             /\ Times(i) = IF i \in cached /\ Cardinality(Ptrs(i)) = 0 THEN 1 ELSE 0
  <2>1. IsCounted(held, freeList, cached, lockCount, i)
    BY <1>2, Zenon DEF AreCounted
  <2>2. Ptrs(i) = PtrsOf(held, i) /\ Times(i) = Cardinality(Occurs(freeList, i))
    BY <1>3, <1>4, Zenon
  <2> QED BY <2>1, <2>2, Zenon DEF IsCounted
<1> QED BY <1>1, <1>5, <1>6, Zenon DEF CountsAgree

LEMMA Start == Init => Inv
<1> SUFFICES ASSUME Init PROVE Inv
  OBVIOUS
<1>1. TypeOK
  <2>1. freeList \in Seq(INodes \cup {Blank})
    BY INodeCacheAssumption, IsASeq DEF Init
  <2>2. stored \in [INodes -> Type] /\ events \subseteq INodes /\ cached \subseteq INodes
    BY DEF Init
  <2> QED BY <2>1, <2>2 DEF Init, TypeOK, Type, Places, Goals
<1>2. AreCounted(held, freeList, cached, lockCount)
  <2>1. ASSUME NEW i \in INodes PROVE IsCounted(held, freeList, cached, lockCount, i)
    <3>1. i # Blank /\ Occurs(freeList, i) = {}
      BY INodeCacheAssumption DEF Init, Occurs
    <3>2. \A q \in Procs : 1 .. held[q][i] = {}
      BY DEF Init
    <3>3. PtrsOf(held, i) = {}
      BY <3>2 DEF PtrsOf
    <3> QED BY <3>1, <3>3, FS_EmptySet DEF IsCounted, Init
  <2>2. Occurs(freeList, Blank) = 1 .. MaxCached
    BY DEF Init, Occurs
  <2>3. Cardinality(1 .. MaxCached) = MaxCached
    BY INodeCacheAssumption, FS_Interval
  <2>4. Cardinality(cached) = 0
    BY FS_EmptySet DEF Init
  <2> QED BY <2>1, <2>2, <2>3, <2>4, INodeCacheAssumption DEF AreCounted
<1>3. LockedIsCounted
  BY DEF Init, LockedIsCounted
<1>4. ASSUME NEW p \in Procs PROVE Sane(p)
  BY DEF Init, Sane, Fits, Owning, Creating, Reason
<1> QED BY <1>1, <1>2, <1>3, <1>4 DEF Inv

-----------------------------------------------------------------------------
(* One process moves, and the counts and locks stay.                       *)

IsMoved(p, place, for, i) ==
    /\ pc' \in [Procs -> Places] /\ goal' \in [Procs -> Goals]
    /\ want' \in [Procs -> INodes \cup {NoINode}]
    /\ pc'[p] = place /\ goal'[p] = for /\ want'[p] = i
    /\ \A q \in Procs \ {p} : pc'[q] = pc[q] /\ goal'[q] = goal[q] /\ want'[q] = want[q]

LEMMA Moved ==
    ASSUME TypeOK, NEW p \in Procs, NEW place \in Places, NEW for \in Goals,
           NEW i \in INodes \cup {NoINode}, Becomes(p, place, for, i)
    PROVE  IsMoved(p, place, for, i)
BY DEF TypeOK, Becomes, IsMoved

\* Nobody but p is affected.
LEMMA CallMoves ==
    ASSUME Inv, TypeOK', NEW p \in Procs, NEW place, NEW for, NEW i,
           UNCHANGED <<cached, locked, lockCount, locker, freeList, held>>,
           events \subseteq events',
           IsMoved(p, place, for, i), Sane(p)'
    PROVE  Inv'
<1>1. AreCounted(held, freeList, cached, lockCount)'
  <2>1. AreCounted(held, freeList, cached, lockCount)
    BY DEF Inv
  <2>2. held' = held /\ freeList' = freeList /\ cached' = cached /\ lockCount' = lockCount
    OBVIOUS
  <2> QED BY <2>1, <2>2, Zenon
<1>2. LockedIsCounted'
  BY DEF Inv, LockedIsCounted
<1>3. ASSUME NEW q \in Procs PROVE Sane(q)'
  <2>1. CASE q = p
    BY <2>1, Zenon
  <2>2. CASE q # p
    <3>1. Sane(q)
      BY DEF Inv
    <3>2. pc'[q] = pc[q] /\ goal'[q] = goal[q] /\ want'[q] = want[q]
      BY <2>2 DEF IsMoved
    <3>3. Fits(q)'
      BY <3>1, <3>2 DEF Sane, Fits
    <3>4. Owning(q)' => HasLock(q)'
      BY <3>1, <3>2 DEF Sane, Owning, Creating, HasLock
    <3>5. Reason(q)'
      BY <3>1, <3>2 DEF Sane, Reason
    <3> QED BY <3>3, <3>4, <3>5 DEF Sane
  <2> QED BY <2>1, <2>2
<1> QED BY <1>1, <1>2, <1>3 DEF Inv

\* The actions that change neither the counts nor the locks.
Calls(p) ==
    \/ ReadINode(p) \/ AllocateINode(p)
    \/ SleepForINode(p) \/ GetINodeBlock(p) \/ FindFree(p) \/ Allocated(p)
    \/ StartWrite(p) \/ EndWrite(p) \/ Fails(p) \/ Unwound(p)
    \/ \E i \in INodes : WriteINode(p, i) \/ FreeINode(p, i)

LEMMA CallsKeep ==
    ASSUME Inv, NEW p \in Procs, Calls(p)
    PROVE  Inv'
<1>1. TypeOK /\ Sane(p) /\ Fits(p)
  BY DEF Inv, Sane
<1> USE DEF inodeVars, cacheVars, Done, Goes
<1>2. ASSUME NEW place \in Places, NEW for \in Goals, NEW i \in INodes \cup {NoINode},
             UNCHANGED <<cached, locked, lockCount, locker, freeList, held>>,
             events \subseteq events', events' \subseteq INodes,
             valid' \in [INodes -> BOOLEAN], type' \in [INodes -> Type],
             stored' \in [INodes -> Type], inb' \in Procs \cup {NoProc},
             Becomes(p, place, for, i), Sane(p)'
      PROVE  Inv'
  <2>1. IsMoved(p, place, for, i)
    BY <1>1, <1>2, Moved
  <2>2. TypeOK'
    BY <1>1, <1>2, <2>1, Zenon DEF TypeOK, IsMoved
  <2> QED BY <1>2, <2>1, <2>2, CallMoves
<1>3. CASE ReadINode(p)
  <2>1. PICK i \in INodes : Becomes(p, "get", "read", i)
    BY <1>3 DEF ReadINode
  <2>2. IsMoved(p, "get", "read", i)
    BY <1>1, <2>1, Moved DEF Places, Goals
  <2>3. Sane(p)'
    BY <1>1, <2>2 DEF IsMoved, Sane, Fits, Owning, Creating, Reason
  <2> QED BY <1>1, <1>2, <1>3, <2>1, <2>3 DEF ReadINode, TypeOK, Places, Goals
<1>4. CASE AllocateINode(p)
  <2>1. IsMoved(p, "getBlock", "allocate", NoINode)
    BY <1>1, <1>4, Moved DEF AllocateINode, Places, Goals
  <2>2. Sane(p)'
    BY <1>1, <2>1 DEF IsMoved, Sane, Fits, Owning, Creating, Reason
  <2> QED BY <1>1, <1>2, <1>4, <2>2 DEF AllocateINode, TypeOK, Places, Goals
<1>5. CASE SleepForINode(p)
  <2> DEFINE i == want[p]
  <2>1. /\ pc[p] = "get" /\ i \in INodes /\ goal[p] \in {"read", "allocate"}
        /\ i \in cached /\ lockCount[i] > 0
    BY <1>1, <1>5 DEF SleepForINode, Fits, Inv, LockedIsCounted
  <2>2. IsMoved(p, "asleep", goal[p], i)
    BY <1>1, <1>5, <2>1, Moved DEF SleepForINode, Places, Goals
  <2>3. events' = events \cup {i} /\ UNCHANGED <<cached, lockCount>>
    BY <1>5 DEF SleepForINode
  <2>4. Sane(p)'
    BY <1>1, <2>1, <2>2, <2>3 DEF IsMoved, Sane, Fits, Owning, Creating, Reason
  <2>5. events \subseteq events' /\ events' \subseteq INodes /\ "asleep" \in Places
    BY <1>1, <2>1, <2>3, Zenon DEF TypeOK, Places
  <2>6. UNCHANGED <<cached, locked, lockCount, locker, freeList, held, valid, type, stored, inb>>
    BY <1>5 DEF SleepForINode
  <2>7. Becomes(p, "asleep", goal[p], i) /\ goal[p] \in Goals
    BY <1>5, <2>1 DEF SleepForINode, Goals
  <2> QED BY <1>1, <1>2, <2>1, <2>4, <2>5, <2>6, <2>7, Zenon DEF TypeOK
<1>6. CASE GetINodeBlock(p)
  <2>1. goal[p] \in Goals /\ want[p] \in INodes \cup {NoINode}
    BY <1>1 DEF TypeOK
  <2>2. IsMoved(p, "haveBlock", goal[p], want[p])
    BY <1>1, <1>6, <2>1, Moved DEF GetINodeBlock, Places
  <2>3. UNCHANGED <<cached, locked, locker, held>> /\ pc[p] = "getBlock"
    BY <1>6 DEF GetINodeBlock
  <2>4. Sane(p)'
    BY <1>1, <2>2, <2>3 DEF IsMoved, Sane, Fits, Owning, Creating, HasLock, Reason
  <2> QED BY <1>1, <1>2, <1>6, <2>1, <2>4 DEF GetINodeBlock, TypeOK, Places
<1>7. CASE FindFree(p)
  <2>1. Free \in SUBSET Nat /\ Free # {} /\ Free \subseteq INodes
    BY <1>7, INodeCacheAssumption DEF FindFree, Free
  <2>2. Min(Free) \in INodes
    BY <2>1, Least
  <2> HIDE DEF Free
  <2>3. IsMoved(p, "get", "allocate", Min(Free))
    BY <1>1, <1>7, <2>2, Moved DEF FindFree, Places, Goals
  <2>4. Sane(p)'
    BY <1>1, <2>2, <2>3 DEF IsMoved, Sane, Fits, Owning, Creating, Reason
  <2> QED BY <1>1, <1>2, <1>7, <2>2, <2>4 DEF FindFree, TypeOK, Places, Goals
<1>8. CASE Allocated(p)
  <2>1. pc[p] = "new" /\ HasLock(p) /\ want[p] \in INodes
    BY <1>1, <1>8 DEF Allocated, Sane, Owning, Creating, HasLock, TypeOK
  <2>2. IsMoved(p, "getBlock", "create", want[p])
    BY <1>1, <1>8, <2>1, Moved DEF Allocated, Places, Goals
  <2>3. UNCHANGED <<cached, locked, locker, held>>
    BY <1>8 DEF Allocated
  <2>4. Sane(p)'
    BY <1>1, <2>1, <2>2, <2>3 DEF IsMoved, Sane, Fits, HasLock, Reason
  <2>5. type' \in [INodes -> Type]
    BY <1>1, <1>8 DEF Allocated, TypeOK, Type
  <2> QED BY <1>1, <1>2, <1>8, <2>1, <2>4, <2>5 DEF Allocated, TypeOK, Places, Goals
<1>9. CASE StartWrite(p)
  <2>1. goal[p] \in Goals /\ want[p] \in INodes \cup {NoINode}
    BY <1>1 DEF TypeOK
  <2>2. IsMoved(p, "writing", goal[p], want[p])
    BY <1>1, <1>9, <2>1, Moved DEF StartWrite, Places
  <2>3. /\ UNCHANGED <<cached, locked, locker, held>> /\ pc[p] = "haveBlock"
        /\ goal[p] \in {"create", "write", "free"}
    BY <1>9 DEF StartWrite
  <2>4. Sane(p)'
    BY <1>1, <2>2, <2>3 DEF IsMoved, Sane, Fits, Owning, Creating, HasLock, Reason
  <2>5. valid' \in [INodes -> BOOLEAN]
    BY <1>1, <1>9 DEF StartWrite, TypeOK
  <2> QED BY <1>1, <1>2, <1>9, <2>1, <2>4, <2>5 DEF StartWrite, TypeOK, Places
<1>10. CASE EndWrite(p)
  <2>1. IsMoved(p, "use", "none", NoINode)
    BY <1>1, <1>10, Moved DEF EndWrite, Places, Goals
  <2>2. Sane(p)'
    BY <2>1 DEF IsMoved, Sane, Fits, Owning, Creating, Reason
  <2>3. want[p] \in INodes
    BY <1>1, <1>10 DEF EndWrite, Fits
  <2>4. stored' \in [INodes -> Type]
    BY <1>1, <1>10, <2>3 DEF EndWrite, TypeOK
  <2> QED BY <1>1, <1>2, <1>10, <2>2, <2>4 DEF EndWrite, TypeOK, Places, Goals
<1>11. CASE Fails(p)
  <2>1. IsMoved(p, "unwind", "none", NoINode)
    BY <1>1, <1>11, Moved DEF Fails, Places, Goals
  <2>2. Sane(p)'
    BY <2>1 DEF IsMoved, Sane, Fits, Owning, Creating, Reason
  <2>3. pc[p] = "writing" => want[p] \in INodes
    BY <1>1 DEF Fits
  <2>4. stored' \in [INodes -> Type]
    BY <1>1, <1>11, <2>3 DEF Fails, TypeOK
  <2> QED BY <1>1, <1>2, <1>11, <2>2, <2>4 DEF Fails, TypeOK, Places, Goals
<1>12. CASE Unwound(p)
  <2>1. IsMoved(p, "use", "none", NoINode)
    BY <1>1, <1>12, Moved DEF Unwound, Places, Goals
  <2>2. Sane(p)'
    BY <2>1 DEF IsMoved, Sane, Fits, Owning, Creating, Reason
  <2> QED BY <1>1, <1>2, <1>12, <2>2 DEF Unwound, TypeOK, Places, Goals
<1>13. ASSUME NEW i \in INodes, WriteINode(p, i) PROVE Inv'
  <2>1. IsMoved(p, "getBlock", "write", i)
    BY <1>1, <1>13, Moved DEF WriteINode, Places, Goals
  <2>2. Sane(p)'
    BY <2>1 DEF IsMoved, Sane, Fits, Owning, Creating, Reason
  <2> QED BY <1>1, <1>2, <1>13, <2>2 DEF WriteINode, TypeOK, Places, Goals
<1>14. ASSUME NEW i \in INodes, FreeINode(p, i) PROVE Inv'
  <2>1. IsMoved(p, "getBlock", "free", i)
    BY <1>1, <1>14, Moved DEF FreeINode, Places, Goals
  <2>2. Sane(p)'
    BY <2>1 DEF IsMoved, Sane, Fits, Owning, Creating, Reason
  <2>3. type' \in [INodes -> Type]
    BY <1>1, <1>14 DEF FreeINode, TypeOK, Type
  <2> QED BY <1>1, <1>2, <1>14, <2>2, <2>3 DEF FreeINode, TypeOK, Places, Goals
<1> QED BY <1>3, <1>4, <1>5, <1>6, <1>7, <1>8, <1>9, <1>10, <1>11, <1>12, <1>13, <1>14 DEF Calls

-----------------------------------------------------------------------------
(* The actions that change the counts or the locks.                        *)

\* SetINode loses the flag of an inode that the reader has locked.
LEMMA EndReadKeeps ==
    ASSUME Inv, NEW p \in Procs, EndRead(p)
    PROVE  Inv'
<1> DEFINE i == want[p]
<1>1. TypeOK /\ Sane(p) /\ pc[p] = "haveBlock" /\ goal[p] = "read" /\ i \in INodes
  BY DEF Inv, EndRead, Sane, Fits
<1>2. /\ locked' = [locked EXCEPT ![i] = FALSE] /\ UNCHANGED <<lockCount, locker>>
      /\ UNCHANGED <<cached, freeList, events, stored, held>>
      /\ type' = [type EXCEPT ![i] = stored[i]] /\ valid' = [valid EXCEPT ![i] = TRUE]
      /\ inb' = NoProc /\ Becomes(p, "use", "none", NoINode)
  BY DEF EndRead, SetINode, Done
<1>3. HasLock(p)
  BY <1>1 DEF Sane, Owning
<1>4. IsMoved(p, "use", "none", NoINode)
  BY <1>1, <1>2, Moved DEF Places, Goals
<1>5. TypeOK'
  <2>1. locked' \in [INodes -> BOOLEAN] /\ valid' \in [INodes -> BOOLEAN]
    BY <1>1, <1>2 DEF TypeOK
  <2>2. type' \in [INodes -> Type] /\ inb' \in Procs \cup {NoProc}
    BY <1>1, <1>2 DEF TypeOK
  <2> QED BY <1>1, <1>2, <1>4, <2>1, <2>2, Zenon DEF TypeOK, IsMoved
<1>6. AreCounted(held, freeList, cached, lockCount)'
  <2>1. AreCounted(held, freeList, cached, lockCount)
    BY DEF Inv
  <2>2. held' = held /\ freeList' = freeList /\ cached' = cached /\ lockCount' = lockCount
    BY <1>2
  <2> QED BY <2>1, <2>2, Zenon
<1>7. \A j \in INodes : (locked'[j] => locked[j]) /\ (j # i => locked'[j] = locked[j])
  BY <1>1, <1>2 DEF TypeOK
<1>8. LockedIsCounted'
  BY <1>1, <1>2, <1>7 DEF Inv, LockedIsCounted, TypeOK
<1>9. ASSUME NEW q \in Procs PROVE Sane(q)'
  <2>1. CASE q = p
    BY <1>4, <2>1 DEF IsMoved, Sane, Fits, Owning, Creating, Reason
  <2>2. CASE q # p
    <3>1. Sane(q)
      BY DEF Inv
    <3>2. pc'[q] = pc[q] /\ goal'[q] = goal[q] /\ want'[q] = want[q]
      BY <1>4, <2>2 DEF IsMoved
    <3>3. Fits(q)'
      BY <3>1, <3>2 DEF Sane, Fits
    <3>4. ASSUME Owning(q)' PROVE HasLock(q)'
      <4>1. HasLock(q)
        BY <3>1, <3>2, <3>4 DEF Sane, Owning, Creating
      <4>2. want[q] # i /\ want[q] \in INodes
        BY <1>1, <1>3, <2>2, <4>1 DEF HasLock, TypeOK
      <4> QED BY <1>2, <1>7, <3>2, <4>1, <4>2 DEF HasLock
    <3>5. Reason(q)'
      BY <1>2, <3>1, <3>2 DEF Sane, Reason
    <3> QED BY <3>3, <3>4, <3>5 DEF Sane
  <2> QED BY <2>1, <2>2
<1> QED BY <1>5, <1>6, <1>8, <1>9 DEF Inv

LEMMA LockerMoves ==
    ASSUME TypeOK, NEW p \in Procs, NEW i \in INodes, NEW n, want[p] = i, Locks(p, i, n)
    PROVE  \E place, for, j : IsMoved(p, place, for, j)
<1>1. goal[p] \in Goals /\ i \in INodes \cup {NoINode}
  BY DEF TypeOK
<1>2. \/ Becomes(p, "new", goal[p], i)
      \/ Becomes(p, "use", "none", NoINode)
      \/ Becomes(p, "getBlock", goal[p], i)
  BY DEF Locks, Done, Goes
<1>3. CASE Becomes(p, "new", goal[p], i)
  <2>1. IsMoved(p, "new", goal[p], i)
    BY <1>1, <1>3, Moved DEF Places
  <2> QED BY <2>1
<1>4. CASE Becomes(p, "use", "none", NoINode)
  <2>1. IsMoved(p, "use", "none", NoINode)
    BY <1>4, Moved DEF Places, Goals
  <2> QED BY <2>1
<1>5. CASE Becomes(p, "getBlock", goal[p], i)
  <2>1. IsMoved(p, "getBlock", goal[p], i)
    BY <1>1, <1>5, Moved DEF Places
  <2> QED BY <2>1
<1> QED BY <1>2, <1>3, <1>4, <1>5

\* What a process is after it has locked i.
LEMMA LockerIsSane ==
    ASSUME Inv, TypeOK', NEW p \in Procs, pc[p] = "get", NEW i, i = want[p],
           Locks(p, i, lockCount[i]) \/ Locks(p, i, 0), i \in cached'
    PROVE  Sane(p)'
<1>1. TypeOK /\ Fits(p) /\ i \in INodes /\ goal[p] \in {"read", "allocate"}
  BY DEF Inv, Sane, Fits
<1>2. /\ locked' = [locked EXCEPT ![i] = TRUE] /\ locker' = [locker EXCEPT ![i] = p]
      /\ held' = [held EXCEPT ![p][i] = @ + 1]
  BY DEF Locks
<1>3. held \in Tables /\ locked \in [INodes -> BOOLEAN] /\ locker \in [INodes -> Procs \cup {NoProc}]
  BY <1>1 DEF TypeOK, Tables
<1>4. held'[p][i] > 0
  <2>1. HasOneMore(held', held, p, i)
    BY <1>1, <1>2, <1>3, Plus
  <2>2. held'[p][i] = held[p][i] + 1 /\ held[p][i] \in Nat
    BY <1>1, <1>3, <2>1 DEF HasOneMore, Tables
  <2> QED BY <2>2
<1>5. locked'[i] /\ locker'[i] = p
  BY <1>1, <1>2, <1>3
<1>6. \/ goal[p] = "allocate" /\ Becomes(p, "new", "allocate", i)
      \/ Becomes(p, "use", "none", NoINode)
      \/ goal[p] = "read" /\ Becomes(p, "getBlock", "read", i)
  BY <1>1 DEF Locks, Done, Goes
<1>7. CASE goal[p] = "allocate" /\ Becomes(p, "new", "allocate", i)
  <2>1. IsMoved(p, "new", "allocate", i)
    BY <1>1, <1>7, Moved DEF Places, Goals
  <2>2. Sane(p)'
    BY <1>4, <1>5, <2>1 DEF IsMoved, Sane, Fits, HasLock, Reason
  <2> QED BY <2>2
<1>8. CASE Becomes(p, "use", "none", NoINode)
  <2>1. IsMoved(p, "use", "none", NoINode)
    BY <1>1, <1>8, Moved DEF Places, Goals
  <2>2. Sane(p)'
    BY <2>1 DEF IsMoved, Sane, Fits, Owning, Creating, Reason
  <2> QED BY <2>2
<1>9. CASE goal[p] = "read" /\ Becomes(p, "getBlock", "read", i)
  <2>1. IsMoved(p, "getBlock", "read", i)
    BY <1>1, <1>9, Moved DEF Places, Goals
  <2>2. Sane(p)'
    BY <1>1, <1>4, <1>5, <2>1 DEF IsMoved, Sane, Fits, HasLock, Reason
  <2> QED BY <2>2
<1> QED BY <1>6, <1>7, <1>8, <1>9

\* Locking leaves the others as they were, if they have nothing to lose.
LEMMA OthersStay ==
    ASSUME Inv, NEW p \in Procs, NEW q \in Procs, q # p, NEW i \in INodes,
           NEW place, NEW for, NEW j, IsMoved(p, place, for, j),
           HasOneMore(held', held, p, i),
           events' = events,
           \A k \in cached : locked[k] /\ locker[k] = q /\ held[q][k] > 0 =>
               k \in cached' /\ locked'[k] /\ locker'[k] = q,
           \A k \in cached : lockCount[k] > 0 => k \in cached' /\ lockCount'[k] > 0
    PROVE  Sane(q)'
<1>1. Sane(q) /\ TypeOK
  BY DEF Inv
<1>2. pc'[q] = pc[q] /\ goal'[q] = goal[q] /\ want'[q] = want[q]
  BY DEF IsMoved
<1>3. Fits(q)'
  BY <1>1, <1>2 DEF Sane, Fits
<1>4. ASSUME Owning(q)' PROVE HasLock(q)'
  <2>1. HasLock(q)
    BY <1>1, <1>2, <1>4 DEF Sane, Owning, Creating
  <2>2. want[q] \in INodes
    BY <1>1, <2>1 DEF HasLock, TypeOK
  <2>3. held'[q][want[q]] = held[q][want[q]]
    BY <2>2 DEF HasOneMore
  <2> QED BY <1>2, <2>1, <2>3 DEF HasLock
<1>5. Reason(q)'
  BY <1>1, <1>2 DEF Sane, Reason
<1> QED BY <1>3, <1>4, <1>5 DEF Sane

LEMMA TypesOf ==
    ASSUME Inv
    PROVE  /\ TypeOK /\ AreCounted(held, freeList, cached, lockCount)
           /\ held \in Tables /\ freeList \in Lists
           /\ cached \in SUBSET INodes /\ lockCount \in [INodes -> Nat]
           /\ locked \in [INodes -> BOOLEAN] /\ locker \in [INodes -> Procs \cup {NoProc}]
BY Zenon DEF Inv, TypeOK, Tables, Lists

LEMMA HitKeeps ==
    ASSUME Inv, NEW p \in Procs, Hit(p)
    PROVE  Inv'
<1> DEFINE i == want[p]
<1>1. /\ TypeOK /\ AreCounted(held, freeList, cached, lockCount)
      /\ held \in Tables /\ freeList \in Lists
      /\ cached \in SUBSET INodes /\ lockCount \in [INodes -> Nat]
      /\ locked \in [INodes -> BOOLEAN] /\ locker \in [INodes -> Procs \cup {NoProc}]
  BY TypesOf
<1>2. /\ pc[p] = "get" /\ i \in cached /\ (locked[i] => locker[i] = p)
      /\ Locks(p, i, lockCount[i]) /\ freeList' = RemoveFirst(freeList, i)
      /\ UNCHANGED <<cached, valid, type, events, inb, stored>>
  BY DEF Hit
<1>3. /\ locked' = [locked EXCEPT ![i] = TRUE] /\ locker' = [locker EXCEPT ![i] = p]
      /\ lockCount' = [lockCount EXCEPT ![i] = lockCount[i] + 1]
      /\ held' = [held EXCEPT ![p][i] = @ + 1]
      /\ i \in INodes
  BY <1>1, <1>2 DEF Locks
<1>4. HasOneMore(held', held, p, i)
  BY <1>1, <1>3, Plus
<1>5. freeList' \in Lists /\ AreCounted(held', freeList', cached, lockCount')
  BY <1>1, <1>2, <1>3, <1>4, HitCounts
<1>7. PICK place, for, j : IsMoved(p, place, for, j)
  BY <1>1, <1>2, <1>3, LockerMoves
<1>8. TypeOK'
  <2>1. locked' \in [INodes -> BOOLEAN] /\ locker' \in [INodes -> Procs \cup {NoProc}]
    BY <1>1, <1>3
  <2>2. lockCount' \in [INodes -> Nat]
    BY <1>1, <1>3
  <2>3. held' \in [Procs -> [INodes -> Nat]] /\ freeList' \in Seq(INodes \cup {Blank})
    BY <1>4, <1>5 DEF HasOneMore, Tables, Lists
  <2> QED BY <1>1, <1>2, <1>7, <2>1, <2>2, <2>3, Zenon DEF TypeOK, IsMoved
<1>9. Sane(p)'
  BY <1>2, <1>8, LockerIsSane
<1>10. lockCount'[i] > 0 /\ \A k \in INodes : k # i => lockCount'[k] = lockCount[k]
  <2>1. lockCount[i] \in Nat
    BY <1>1, <1>3
  <2>2. lockCount[i] + 1 > 0
    BY <2>1
  <2> QED BY <1>1, <1>3, <2>2
<1>11. /\ locker'[i] = p /\ locked'[i]
       /\ \A k \in INodes : k # i => locked'[k] = locked[k] /\ locker'[k] = locker[k]
  BY <1>1, <1>3
<1>12. LockedIsCounted'
  BY <1>1, <1>2, <1>10, <1>11 DEF Inv, LockedIsCounted
<1>13. ASSUME NEW q \in Procs, q # p PROVE Sane(q)'
  <2>1. \A k \in cached : locked[k] /\ locker[k] = q /\ held[q][k] > 0 =>
            k \in cached' /\ locked'[k] /\ locker'[k] = q
    BY <1>1, <1>2, <1>11, <1>13
  <2>2. \A k \in cached : lockCount[k] > 0 => k \in cached' /\ lockCount'[k] > 0
    BY <1>1, <1>2, <1>10
  <2> QED BY <1>2, <1>3, <1>4, <1>7, <1>13, <2>1, <2>2, OthersStay
<1>14. AreCounted(held, freeList, cached, lockCount)'
  BY <1>2, <1>5
<1> QED BY <1>8, <1>9, <1>12, <1>13, <1>14 DEF Inv

LEMMA MissKeeps ==
    ASSUME Inv, NEW p \in Procs, Miss(p)
    PROVE  Inv'
<1> DEFINE i == want[p]
           victim == Head(freeList)
<1>1. /\ TypeOK /\ AreCounted(held, freeList, cached, lockCount)
      /\ held \in Tables /\ freeList \in Lists
      /\ cached \in SUBSET INodes /\ lockCount \in [INodes -> Nat]
      /\ locked \in [INodes -> BOOLEAN] /\ locker \in [INodes -> Procs \cup {NoProc}]
  BY TypesOf
<1>2. /\ pc[p] = "get" /\ i \notin cached /\ freeList # <<>> /\ freeList' = Tail(freeList)
      /\ cached' = (cached \ {victim}) \cup {i}
      /\ valid' = [j \in INodes |-> valid[j] /\ j \notin {i, victim}]
      /\ type' = [j \in INodes |-> IF j \in {i, victim} THEN "free" ELSE type[j]]
      /\ Locks(p, i, 0) /\ UNCHANGED <<events, inb, stored>>
  BY DEF Miss
<1>3. /\ locked' = [locked EXCEPT ![i] = TRUE] /\ locker' = [locker EXCEPT ![i] = p]
      /\ lockCount' = [lockCount EXCEPT ![i] = 1]
      /\ held' = [held EXCEPT ![p][i] = @ + 1]
      /\ i \in INodes
  BY <1>2 DEF Locks, Inv, Sane, Fits
<1>4. HasOneMore(held', held, p, i)
  BY <1>1, <1>3, Plus
<1>5. AreCounted(held', freeList', cached', lockCount')
  BY <1>1, <1>2, <1>3, <1>4, MissCounts
<1>6. /\ Tail(freeList) \in Lists
      /\ \/ victim = Blank
         \/ victim \in cached /\ lockCount[victim] = 0 /\ Cardinality(PtrsOf(held, victim)) = 0
  BY <1>1, <1>2, Victim
<1>8. PICK place, for, j : IsMoved(p, place, for, j)
  BY <1>1, <1>2, <1>3, LockerMoves
<1> HIDE DEF victim
<1>9. TypeOK'
  <2>1. locked' \in [INodes -> BOOLEAN] /\ locker' \in [INodes -> Procs \cup {NoProc}]
    BY <1>1, <1>3
  <2>2. lockCount' \in [INodes -> Nat] /\ cached' \subseteq INodes
    BY <1>1, <1>2, <1>3
  <2>3. held' \in [Procs -> [INodes -> Nat]] /\ freeList' \in Seq(INodes \cup {Blank})
    BY <1>2, <1>4, <1>6 DEF HasOneMore, Tables, Lists
  <2>4. valid' \in [INodes -> BOOLEAN] /\ type' \in [INodes -> Type]
    BY <1>1, <1>2 DEF TypeOK, Type
  <2> QED BY <1>1, <1>2, <1>8, <2>1, <2>2, <2>3, <2>4, Zenon DEF TypeOK, IsMoved
<1>10. Sane(p)'
  BY <1>2, <1>9, LockerIsSane
<1>11. lockCount'[i] > 0 /\ \A k \in INodes : k # i => lockCount'[k] = lockCount[k]
  BY <1>1, <1>3
<1>12. /\ locker'[i] = p /\ locked'[i]
       /\ \A k \in INodes : k # i => locked'[k] = locked[k] /\ locker'[k] = locker[k]
  BY <1>1, <1>3
<1>13. LockedIsCounted'
  BY <1>1, <1>2, <1>11, <1>12 DEF Inv, LockedIsCounted
<1>14. ASSUME NEW q \in Procs, NEW k \in cached, held[q][k] > 0
       PROVE  k # victim
  <2>1. SUFFICES ASSUME k = victim PROVE FALSE
    OBVIOUS
  <2>2. victim # Blank /\ k \in INodes
    BY <1>1, <2>1, INodeCacheAssumption
  <2>3. Cardinality(PtrsOf(held, k)) = 0 /\ IsFiniteSet(PtrsOf(held, k))
    BY <1>1, <1>6, <2>1, <2>2 DEF AreCounted, IsCounted
  <2>4. held[q][k] = 0
    BY <1>1, <2>2, <2>3, NobodyHas DEF Tables
  <2> QED BY <1>14, <2>4
<1>15. ASSUME NEW k \in cached, lockCount[k] > 0
       PROVE  k # victim
  BY <1>1, <1>6, <1>15, INodeCacheAssumption
<1>16. ASSUME NEW q \in Procs, q # p PROVE Sane(q)'
  <2>1. \A k \in cached : locked[k] /\ locker[k] = q /\ held[q][k] > 0 =>
            k \in cached' /\ locked'[k] /\ locker'[k] = q
    BY <1>1, <1>2, <1>12, <1>14, <1>16
  <2>2. \A k \in cached : lockCount[k] > 0 => k \in cached' /\ lockCount'[k] > 0
    BY <1>1, <1>2, <1>11, <1>15
  <2> QED BY <1>2, <1>3, <1>4, <1>8, <1>16, <2>1, <2>2, OthersStay
<1>17. AreCounted(held, freeList, cached, lockCount)'
  BY <1>5
<1> QED BY <1>9, <1>10, <1>13, <1>16, <1>17 DEF Inv

\* The last INodePtr of an inode is put by the one process that has it.
LEMMA PutKeeps ==
    ASSUME Inv, NEW p \in Procs, NEW i \in INodes, PutINode(p, i)
    PROVE  Inv'
<1>1. /\ TypeOK /\ AreCounted(held, freeList, cached, lockCount)
      /\ held \in Tables /\ freeList \in Lists
      /\ cached \in SUBSET INodes /\ lockCount \in [INodes -> Nat]
      /\ locked \in [INodes -> BOOLEAN] /\ locker \in [INodes -> Procs \cup {NoProc}]
  BY TypesOf
<1> DEFINE last == lockCount[i] = 1
<1>2. /\ pc[p] \in {"use", "unwind"} /\ held[p][i] > 0
      /\ held' = [held EXCEPT ![p][i] = @ - 1]
      /\ lockCount' = [lockCount EXCEPT ![i] = @ - 1]
      /\ freeList' = IF last THEN Append(freeList, i) ELSE freeList
      /\ UNCHANGED <<cached, valid, type, inb, stored, goal, want>>
  BY DEF PutINode
<1>3. HasOneMore(held, held', p, i)
  BY <1>1, <1>2, Plus
<1>4. /\ i \in cached /\ lockCount[i] > 0 /\ Cardinality(PtrsOf(held, i)) = lockCount[i]
      /\ freeList' \in Lists /\ lockCount' \in [INodes -> Nat]
      /\ AreCounted(held', freeList', cached, lockCount')
  <2>1. IsPut(freeList, lockCount, freeList', lockCount', i)
    BY <1>2 DEF IsPut
  <2> QED BY <1>1, <1>3, <2>1, PutCounts
<1>5. lockCount'[i] = lockCount[i] - 1 /\ \A k \in INodes : k # i => lockCount'[k] = lockCount[k]
  BY <1>1, <1>2
<1>6. \A q \in Procs, k \in INodes : q # p \/ k # i => held'[q][k] = held[q][k]
  BY <1>3 DEF HasOneMore
<1>7. ~ Owning(p)
  BY <1>2 DEF Inv, Sane, Fits, Owning, Creating
<1>8. held' \in [Procs -> [INodes -> Nat]] /\ freeList' \in Seq(INodes \cup {Blank})
  BY <1>3, <1>4 DEF HasOneMore, Tables, Lists
<1>9. AreCounted(held, freeList, cached, lockCount)'
  BY <1>2, <1>4
<1>10. CASE last
  <2>1. /\ locked' = [locked EXCEPT ![i] = FALSE] /\ locker' = [locker EXCEPT ![i] = NoProc]
        /\ pc' = [q \in Procs |-> IF q \in Woken(i) THEN "get" ELSE pc[q]]
        /\ events' = events \ {i}
    BY <1>10 DEF PutINode
  <2>2. /\ locked' \in [INodes -> BOOLEAN] /\ locker' \in [INodes -> Procs \cup {NoProc}]
        /\ \A k \in INodes : k # i => locked'[k] = locked[k] /\ locker'[k] = locker[k]
        /\ ~ locked'[i]
    BY <1>1, <2>1
  <2>3. TypeOK'
    <3>1. pc' \in [Procs -> Places] /\ events' \subseteq INodes
      BY <1>1, <2>1 DEF TypeOK, Places
    <3> QED BY <1>1, <1>2, <1>4, <1>8, <2>2, <3>1, Zenon DEF TypeOK
  <2>4. LockedIsCounted'
    BY <1>1, <1>2, <1>5, <2>2 DEF Inv, LockedIsCounted
  <2>5. ASSUME NEW q \in Procs PROVE Sane(q)'
    <3>1. Sane(q)
      BY DEF Inv
    <3>2. goal'[q] = goal[q] /\ want'[q] = want[q] /\ cached' = cached
      BY <1>2
    <3>3. CASE q \in Woken(i)
      <4>1. pc[q] = "asleep" /\ pc'[q] = "get"
        BY <2>1, <3>3 DEF Woken
      <4> QED BY <3>1, <3>2, <4>1 DEF Sane, Fits, Owning, Creating, Reason
    <3>4. CASE q \notin Woken(i)
      <4>1. pc'[q] = pc[q]
        BY <2>1, <3>4
      <4>2. Fits(q)'
        BY <3>1, <3>2, <4>1 DEF Sane, Fits
      <4>3. ASSUME Owning(q)' PROVE HasLock(q)'
        <5>1. HasLock(q) /\ q # p
          BY <1>7, <3>1, <3>2, <4>1, <4>3 DEF Sane, Owning, Creating
        <5>2. want[q] \in INodes /\ held[q][want[q]] > 0
          BY <1>1, <5>1 DEF HasLock
        <5>3. want[q] # i
          <6>1. Cardinality(PtrsOf(held, i)) = 1 /\ IsFiniteSet(PtrsOf(held, i))
            BY <1>1, <1>4, <1>10 DEF AreCounted, IsCounted
          <6> QED BY <1>1, <1>2, <5>1, <5>2, <6>1, OnlyOneHas DEF Tables
        <5> QED BY <1>6, <2>2, <3>2, <5>1, <5>2, <5>3 DEF HasLock
      <4>4. Reason(q)'
        <5>1. SUFFICES ASSUME pc[q] = "asleep"
                       PROVE  want[q] \in cached /\ lockCount'[want[q]] > 0 /\ want[q] \in events'
          BY <3>2, <4>1 DEF Reason
        <5>2. want[q] \in cached /\ lockCount[want[q]] > 0 /\ want[q] \in events
          BY <3>1, <5>1 DEF Sane, Reason
        <5>3. want[q] # i
          BY <3>4, <5>1, <5>2 DEF Woken
        <5> QED BY <1>1, <1>5, <2>1, <5>2, <5>3
      <4> QED BY <4>2, <4>3, <4>4 DEF Sane
    <3> QED BY <3>3, <3>4
  <2> QED BY <1>9, <2>3, <2>4, <2>5 DEF Inv
<1>11. CASE ~ last
  <2>1. UNCHANGED <<locked, locker, pc, events>>
    BY <1>11 DEF PutINode
  <2>2. \A k \in INodes : lockCount[k] > 0 => lockCount'[k] > 0
    <3>1. lockCount[i] \in Nat /\ lockCount[i] > 0 /\ lockCount[i] # 1
      BY <1>1, <1>4, <1>11
    <3>2. lockCount[i] - 1 > 0
      BY <3>1
    <3> QED BY <1>5, <3>2
  <2>3. TypeOK'
    BY <1>1, <1>2, <1>4, <1>8, <2>1, Zenon DEF TypeOK
  <2>4. LockedIsCounted'
    BY <1>1, <1>2, <2>1, <2>2 DEF Inv, LockedIsCounted
  <2>5. ASSUME NEW q \in Procs PROVE Sane(q)'
    <3>1. Sane(q)
      BY DEF Inv
    <3>2. goal'[q] = goal[q] /\ want'[q] = want[q] /\ pc'[q] = pc[q] /\ cached' = cached
      BY <1>2, <2>1
    <3>3. Fits(q)'
      BY <3>1, <3>2 DEF Sane, Fits
    <3>4. ASSUME Owning(q)' PROVE HasLock(q)'
      <4>1. HasLock(q) /\ q # p
        BY <1>7, <3>1, <3>2, <3>4 DEF Sane, Owning, Creating
      <4>2. want[q] \in INodes
        BY <1>1, <4>1 DEF HasLock
      <4> QED BY <1>6, <2>1, <3>2, <4>1, <4>2 DEF HasLock
    <3>5. Reason(q)'
      BY <1>1, <2>1, <2>2, <3>1, <3>2 DEF Sane, Reason
    <3> QED BY <3>3, <3>4, <3>5 DEF Sane
  <2> QED BY <1>9, <2>3, <2>4, <2>5 DEF Inv
<1> QED BY <1>10, <1>11

-----------------------------------------------------------------------------
LEMMA NextKeeps == Inv /\ [Next]_vars => Inv'
<1> SUFFICES ASSUME Inv, [Next]_vars PROVE Inv'
  OBVIOUS
<1>1. CASE UNCHANGED vars
  <2>1. UNCHANGED <<cached, locked, lockCount, locker, valid, type, freeList, events, inb,
                    stored, pc, goal, want, held>>
    BY <1>1 DEF vars, cacheVars, inodeVars
  <2>2. TypeOK'
    BY <2>1, Zenon DEF Inv, TypeOK
  <2>3. AreCounted(held, freeList, cached, lockCount)' /\ LockedIsCounted'
    BY <2>1 DEF Inv, LockedIsCounted
  <2>4. ASSUME NEW q \in Procs PROVE Sane(q)'
    BY <2>1 DEF Inv, Sane, Fits, Owning, Creating, HasLock, Reason
  <2> QED BY <2>2, <2>3, <2>4 DEF Inv
<1>2. CASE Next
  <2>1. PICK p \in Procs :
            Calls(p) \/ Hit(p) \/ Miss(p) \/ EndRead(p) \/ \E i \in INodes : PutINode(p, i)
    BY <1>2 DEF Next, Calls
  <2> QED BY <2>1, CallsKeep, HitKeeps, MissKeeps, EndReadKeeps, PutKeeps
<1> QED BY <1>1, <1>2

\* The inductive invariant of the inode cache: places and goals fit, what is created or
\* read in is locked by the one who does it, and the counts agree.
THEOREM Invariance == Spec => []Inv
<1>1. Init => Inv
  BY Start
<1>2. Inv /\ [Next]_vars => Inv'
  BY NextKeeps
<1> QED BY <1>1, <1>2, PTL DEF Spec

\* Every variable has its type, also the lock count, which PutINode decrements.
THEOREM TypeCorrect == Spec => []TypeOK
<1>1. Inv => TypeOK
  BY DEF Inv
<1> QED BY <1>1, Invariance, PTL

\* The lock count of an inode is the number of INodePtrs that processes have of it, and it is
\* on the free list, once, exactly when there are none: however many inodes, processes and
\* INodePtrs there are, no inode is lost to the cache and none is given away while it is used.
THEOREM CountsOfInodes == Spec => []CountsAgree
<1>1. Inv => CountsAgree
  BY InvMeans
<1> QED BY <1>1, Invariance, PTL

\* Who sleeps for an inode sleeps for a cached one that somebody has, with an event that
\* the last PutINode will find.
THEOREM NoLostWakeup == Spec => []SleepersHaveReason
<1>1. Inv => SleepersHaveReason
  BY InvMeans
<1> QED BY <1>1, Invariance, PTL

\* AllocateINode marks nothing as used: it is the lock on the cached inode that keeps two
\* processes from creating the same one.
THEOREM CreatedByOne == Spec => []CreatedOnce
<1>1. Inv => CreatedOnce
  BY DEF Inv, Sane, Owning, HasLock, CreatedOnce
<1> QED BY <1>1, Invariance, PTL

\* While a process has an INodePtr of an inode, the inode stays in the cache, and stays valid
\* once it was read: GetINode never takes it for another one.
HeldStaysCached ==
    [][\A p \in Procs, i \in INodes : held[p][i] > 0 =>
           i \in cached /\ i \in cached' /\ (valid[i] => valid'[i])]_vars

\* GetINode takes the head of the list of free inodes, and a held inode is not the head: its
\* pointers are counted, and the head has none.
LEMMA VictimIsFree ==
    ASSUME Inv, freeList # <<>>, NEW p \in Procs, NEW i \in INodes, held[p][i] > 0
    PROVE  i \in cached /\ i # Head(freeList)
<1>1. /\ AreCounted(held, freeList, cached, lockCount) /\ held \in Tables /\ freeList \in Lists
      /\ cached \in SUBSET INodes /\ lockCount \in [INodes -> Nat]
  BY TypesOf
<1>2. ~ (Cardinality(PtrsOf(held, i)) = 0)
  <2>1. IsFiniteSet(PtrsOf(held, i)) BY <1>1 DEF AreCounted, IsCounted
  <2>2. held[p][i] # 0 BY <1>1 DEF Tables
  <2> QED BY <1>1, <2>1, <2>2, NobodyHas DEF Tables
<1>3. i \in cached BY <1>1, <1>2 DEF AreCounted, IsCounted
<1>4. \/ Head(freeList) = Blank
      \/ Cardinality(PtrsOf(held, Head(freeList))) = 0
  BY <1>1, Victim
<1> QED BY <1>2, <1>3, <1>4, INodeCacheAssumption

\* No step, of the holder or of another process that looks for an inode while the holder
\* sleeps, evicts an inode that somebody holds or makes it unread again.
THEOREM NotEvictedWhileHeld == Spec => HeldStaysCached
<1>1. ASSUME Inv, [Next]_vars, NEW p \in Procs, NEW i \in INodes, held[p][i] > 0
      PROVE  i \in cached /\ i \in cached' /\ (valid[i] => valid'[i])
  <2>1. i \in cached /\ valid \in [INodes -> BOOLEAN]
    <3>1. CASE freeList # <<>> BY <1>1, <3>1, VictimIsFree DEF Inv, TypeOK
    <3>2. CASE freeList = <<>>
      <4>1. /\ AreCounted(held, freeList, cached, lockCount) /\ held \in Tables
        BY <1>1, TypesOf
      <4>2. IsFiniteSet(PtrsOf(held, i)) BY <4>1 DEF AreCounted, IsCounted
      <4>3. Cardinality(PtrsOf(held, i)) # 0 BY <1>1, <4>1, <4>2, NobodyHas DEF Tables
      <4> QED BY <1>1, <4>1, <4>3 DEF AreCounted, IsCounted, Inv, TypeOK
    <3> QED BY <3>1, <3>2
  <2>2. ASSUME NEW q \in Procs, Miss(q) PROVE i \in cached' /\ (valid[i] => valid'[i])
    <3>1. i # Head(freeList) /\ i # want[q]
      BY <1>1, <2>1, <2>2, VictimIsFree DEF Miss
    <3> QED BY <2>1, <2>2, <3>1 DEF Miss
  <2>3. ASSUME NEW q \in Procs, EndRead(q) \/ StartWrite(q)
        PROVE  cached' = cached /\ (valid[i] => valid'[i])
    BY <2>1, <2>3 DEF EndRead, StartWrite
  <2>4. ASSUME NEW q \in Procs,
               \/ ReadINode(q) \/ AllocateINode(q) \/ SleepForINode(q) \/ Hit(q)
               \/ GetINodeBlock(q) \/ FindFree(q) \/ Allocated(q) \/ EndWrite(q)
               \/ Fails(q) \/ Unwound(q)
               \/ \E j \in INodes : WriteINode(q, j) \/ FreeINode(q, j) \/ PutINode(q, j)
        PROVE  cached' = cached /\ valid' = valid
    BY <2>4 DEF ReadINode, AllocateINode, SleepForINode, Hit, GetINodeBlock, FindFree, Allocated,
                EndWrite, Fails, Unwound, WriteINode, FreeINode, PutINode, cacheVars, inodeVars
  <2>5. CASE UNCHANGED vars BY <2>1, <2>5 DEF vars, cacheVars, inodeVars
  <2> QED BY <1>1, <2>1, <2>2, <2>3, <2>4, <2>5 DEF Next
<1>2. Inv /\ [Next]_vars =>
          [\A p \in Procs, i \in INodes : held[p][i] > 0 =>
               i \in cached /\ i \in cached' /\ (valid[i] => valid'[i])]_vars
  BY <1>1
<1> QED BY <1>2, Invariance, PTL DEF Spec, HeldStaysCached
=============================================================================
