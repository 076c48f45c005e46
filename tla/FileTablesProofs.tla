-------------------------- MODULE FileTablesProofs --------------------------
(***************************************************************************)
(* Proofs about FileTables, for any processes, descriptors, pipes and      *)
(* files, and any number of processors.                                    *)
(***************************************************************************)
EXTENDS FileTables, FiniteSetTheorems, WellFoundedInduction, TLAPS

Tables == [Fds -> Files \cup {NoFile}]

LEMMA FdsFinite == IsFiniteSet(Fds)
BY FileTablesAssumption, FS_Interval DEF Fds

\* The descriptors of a table for a file are counted by a natural number.
LEMMA TimesType ==
    ASSUME NEW table, NEW fds \in SUBSET Fds, NEW f
    PROVE  Times(table, fds, f) \in Nat
<1>1. {fd \in fds : table[fd] = f} \subseteq Fds
  OBVIOUS
<1>2. IsFiniteSet({fd \in fds : table[fd] = f})
  BY <1>1, FdsFinite, FS_Subset
<1> QED BY <1>2, FS_CardinalityType DEF Times

\* The files that a table can have are told from each other and from no file.
LEMMA FileTypes ==
    /\ \A n \in Opens : RootFile(n) \in RootFiles
    /\ \A k \in Pipes : Reader(k) \in PipeEnds /\ Writer(k) \in PipeEnds
    /\ \A e \in PipeEnds : OtherEnd(e) \in PipeEnds
    /\ Counted \subseteq Files /\ Terminal \in Files
    /\ RootFiles \subseteq Counted /\ PipeEnds \subseteq Counted
    /\ NoFile \notin Counted
BY DEF RootFiles, PipeEnds, Counted, Files, RootFile, Reader, Writer, OtherEnd, Terminal, NoFile

LEMMA AddedType ==
    ASSUME NEW table \in Tables, NEW f \in Files
    PROVE  Added(table, f) \in Tables
BY DEF Added, Tables

LEMMA NewTableType == NewTable \in Tables /\ NoFiles \in Tables
BY DEF NewTable, NoFiles, Tables, Files

\* The part of TypeOK that the close of a file disturbs.
LEMMA ClosesType ==
    ASSUME TypeOK, NEW p \in Procs, NEW f, Closes(p, f)
    PROVE  /\ count' \in [Counted -> Int]
           /\ deleted' \subseteq Counted /\ fileMap' \subseteq RootFiles /\ raced' \subseteq Counted
<1>1. count' \in [Counted -> Int]
  BY DEF Closes, TypeOK
<1>2. deleted' \subseteq Counted
  BY FileTypes DEF Closes, Gone, TypeOK
<1>3. (PipeEnds \cup fileMap) \cap {f} \subseteq Counted
  BY FileTypes DEF TypeOK
<1> QED BY <1>1, <1>2, <1>3 DEF Closes, Races, TypeOK

LEMMA TypeStart == Init => TypeOK
BY NewTableType, FileTypes DEF Init, TypeOK, Tables, NotInDup, NotClosing

LEMMA TypeKept == TypeOK /\ [Next]_vars => TypeOK'
<1> SUFFICES ASSUME TypeOK, [Next]_vars PROVE TypeOK' OBVIOUS
<1>1. ASSUME NEW p \in Procs, NEW n \in Opens, Open(p, n) PROVE TypeOK'
  <2>1. RootFile(n) \in RootFiles BY FileTypes
  <2>2. Added(files[p], RootFile(n)) \in Tables BY <2>1, AddedType, FileTypes DEF TypeOK, Tables
  <2> QED BY <1>1, <2>1, <2>2, FileTypes DEF Open, exitVars, TypeOK, Tables
<1>2. ASSUME NEW p \in Procs, NEW k \in Pipes, MakePipe(p, k) PROVE TypeOK'
  <2>1. Reader(k) \in PipeEnds /\ Writer(k) \in PipeEnds BY FileTypes
  <2>2. Added(files[p], Reader(k)) \in Tables BY <2>1, AddedType, FileTypes DEF TypeOK, Tables
  <2>3. Added(Added(files[p], Reader(k)), Writer(k)) \in Tables BY <2>1, <2>2, AddedType, FileTypes
  <2> QED BY <1>2, <2>1, <2>3, FileTypes DEF MakePipe, IsUnheld, exitVars, TypeOK, Tables
<1>3. ASSUME NEW p \in Procs, NEW fd \in Fds, StartDup(p, fd) PROVE TypeOK'
  BY <1>3, FileTypes DEF StartDup, exitVars, TypeOK
<1>4. ASSUME NEW p \in Procs, EndDup(p) PROVE TypeOK'
  <2> DEFINE f == dup[p].file
  <2>1. f \in Counted /\ dup[p].seen \in Int BY <1>4 DEF EndDup, TypeOK
  <2>2. Added(files[p], f) \in Tables BY <2>1, AddedType, FileTypes DEF TypeOK, Tables
  <2>3. IsUnheld(files[p]) \in Nat BY DEF IsUnheld
  <2> QED BY <1>4, <2>1, <2>2, <2>3 DEF EndDup, Races, exitVars, TypeOK, Tables
<1>5. ASSUME NEW p \in Procs, NEW fd \in Fds, DupTerminal(p, fd) PROVE TypeOK'
  <2>1. Added(files[p], Terminal) \in Tables BY AddedType, FileTypes DEF TypeOK, Tables
  <2> QED BY <1>5, <2>1 DEF DupTerminal, exitVars, TypeOK, Tables
<1>6. ASSUME NEW p \in Procs, NEW child \in Procs, Fork(p, child) PROVE TypeOK'
  <2>1. files[p] \in Tables BY DEF TypeOK, Tables
  <2>2. Copied(files[p]) \in Tables BY <2>1, NewTableType DEF Copied, Tables
  <2>3. \A f \in Counted : Times(files[p], Fds, f) \in Nat BY TimesType
  <2>4. count' \in [Counted -> Int] BY <1>6, <2>3 DEF Fork, Shared, TypeOK
  <2>5. \A e \in PipeEnds : Times(files[child], Fds \ closed[child], e) \in Nat BY TimesType
  <2>6. unheld' \in [PipeEnds -> Nat]
    <3>1. unheld \in [PipeEnds -> Nat] BY DEF TypeOK
    <3>2. \A e \in PipeEnds : unheld[e] + Times(files[child], Fds \ closed[child], e) \in Nat
      BY <2>5, <3>1
    <3> QED BY <1>6, <3>2 DEF Fork
  <2> QED BY <1>6, <2>2, <2>4, <2>6 DEF Fork, Races, TypeOK, Tables
<1>7. ASSUME NEW p \in Procs, NEW fd \in Fds, Close(p, fd) PROVE TypeOK'
  <2>1. Closes(p, files[p][fd]) BY <1>7 DEF Close
  <2>2. files' \in [Procs -> Tables] BY <1>7 DEF Close, TypeOK, Tables
  <2> QED BY <1>7, <2>1, <2>2, ClosesType DEF Close, exitVars, TypeOK, Tables
<1>8. ASSUME NEW p \in Procs, NEW q \in Procs, Exit(p, q) PROVE TypeOK'
  <2>1. [of |-> q, next |-> 0] \in [of : Procs, next : 0 .. MaxOpenFiles]
    BY FileTablesAssumption
  <2> QED BY <1>8, <2>1 DEF Exit, TypeOK
<1>9. ASSUME NEW p \in Procs, CloseNext(p) PROVE TypeOK'
  <2> DEFINE q == closing[p].of
             fd == closing[p].next
             f == files[q][fd]
  <2>1. /\ fd \in Fds /\ closing[p] # NotClosing
        /\ closing' = [closing EXCEPT ![p].next = @ + 1]
        /\ UNCHANGED <<live, files, made, dup, unheld>>
    BY <1>9 DEF CloseNext, InExit
  <2>2. q \in Procs /\ closing[p] \in [of : Procs, next : 0 .. MaxOpenFiles] /\ fd + 1 \in 0 .. MaxOpenFiles
    BY <2>1, FileTablesAssumption DEF TypeOK, Fds
  <2>3. closing' \in [Procs -> [of : Procs, next : 0 .. MaxOpenFiles] \cup {NotClosing}]
    BY <2>1, <2>2 DEF TypeOK
  <2>4. CASE f = NoFile
    BY <1>9, <2>1, <2>3, <2>4 DEF CloseNext, TypeOK
  <2>5. CASE f # NoFile
    <3>1. /\ Closes(p, f)
          /\ closed' = [closed EXCEPT ![q] = @ \cup {fd}]
          /\ again' = IF f \in PipeEnds /\ fd \in closed[q]
                      THEN [again EXCEPT ![f] = @ + 1] ELSE again
      BY <1>9, <2>5 DEF CloseNext
    <3>2. closed' \in [Procs -> SUBSET Fds] /\ again' \in [PipeEnds -> Nat]
      BY <2>1, <2>2, <3>1 DEF TypeOK
    <3> QED BY <2>1, <2>3, <3>1, <3>2, ClosesType DEF TypeOK
  <2> QED BY <2>4, <2>5
<1>10. ASSUME NEW p \in Procs, CloseFails(p) PROVE TypeOK'
  BY <1>10 DEF CloseFails, TypeOK
<1>11. ASSUME NEW p \in Procs, ClosedAll(p) PROVE TypeOK'
  <2>1. NoFiles \in Tables BY NewTableType
  <2> QED BY <1>11, <2>1 DEF ClosedAll, TypeOK, Tables
<1>12. CASE UNCHANGED vars BY <1>12 DEF vars, exitVars, TypeOK
<1> QED BY <1>1, <1>2, <1>3, <1>4, <1>5, <1>6, <1>7, <1>8, <1>9, <1>10, <1>11, <1>12 DEF Next

\* Every variable keeps its type: a descriptor is for the terminal, an end of a pipe or a
\* file, or not in use, also in a table that is full, copied or closed as a whole.
THEOREM TypeCorrect == Spec => []TypeOK
<1>1. Init => TypeOK
  BY TypeStart
<1>2. TypeOK /\ [Next]_vars => TypeOK'
  BY TypeKept
<1> QED BY <1>1, <1>2, PTL DEF Spec

-----------------------------------------------------------------------------
(* How many descriptors of a table, and of all tables, are for a file.     *)

DescOf(h, f) == {x \in Procs \X Fds : h[x[1]][x[2]] = f}

LEMMA DescFinite ==
    ASSUME NEW h, NEW f
    PROVE  IsFiniteSet(DescOf(h, f)) /\ Cardinality(DescOf(h, f)) \in Nat
<1>1. IsFiniteSet(Procs \X Fds)
  BY FdsFinite, FileTablesAssumption, FS_Product
<1>2. IsFiniteSet(DescOf(h, f))
  BY <1>1, FS_Subset DEF DescOf
<1> QED BY <1>2, FS_CardinalityType

LEMMA TimesFinite ==
    ASSUME NEW table, NEW fds \in SUBSET Fds, NEW f
    PROVE  /\ IsFiniteSet({fd \in fds : table[fd] = f})
           /\ Times(table, fds, f) \in Nat
           /\ Times(table, fds, f) = 0 <=> \A fd \in fds : table[fd] # f
<1>1. {fd \in fds : table[fd] = f} \subseteq Fds
  OBVIOUS
<1>2. IsFiniteSet({fd \in fds : table[fd] = f})
  BY <1>1, FdsFinite, FS_Subset
<1>3. Cardinality({fd \in fds : table[fd] = f}) = 0 <=> {fd \in fds : table[fd] = f} = {}
  BY <1>2, FS_EmptySet
<1>4. {fd \in fds : table[fd] = f} = {} <=> \A fd \in fds : table[fd] # f
  OBVIOUS
<1> QED BY <1>2, <1>3, <1>4, FS_CardinalityType DEF Times

\* In g, only the table of p is another, t.
Changed(g, h, p, t) ==
    /\ g \in [Procs -> Tables] /\ h \in [Procs -> Tables]
    /\ g[p] = t
    /\ \A q \in Procs \ {p} : g[q] = h[q]

LEMMA DescChanged ==
    ASSUME NEW g, NEW h, NEW p \in Procs, NEW t, Changed(g, h, p, t), NEW f
    PROVE  /\ Cardinality(DescOf(g, f)) =
                  Cardinality(DescOf(h, f)) - Times(h[p], Fds, f) + Times(t, Fds, f)
           /\ Times(h[p], Fds, f) <= Cardinality(DescOf(h, f))
<1> DEFINE rest == {x \in Procs \X Fds : x[1] # p /\ h[x[1]][x[2]] = f}
           mine(k) == {p} \X {fd \in Fds : k[fd] = f}
<1>1. IsFiniteSet(rest) /\ Cardinality(rest) \in Nat
  <2>1. IsFiniteSet(Procs \X Fds)
    BY FdsFinite, FileTablesAssumption, FS_Product
  <2>2. IsFiniteSet(rest)
    BY <2>1, FS_Subset
  <2> QED BY <2>2, FS_CardinalityType
<1>2. ASSUME NEW k
      PROVE  IsFiniteSet(mine(k)) /\ Cardinality(mine(k)) = Times(k, Fds, f) /\ Times(k, Fds, f) \in Nat
  <2> DEFINE D == {fd \in Fds : k[fd] = f}
  <2>1. IsFiniteSet(D) /\ Cardinality(D) = Times(k, Fds, f) /\ Times(k, Fds, f) \in Nat
    BY TimesFinite DEF Times
  <2>2. IsFiniteSet({p}) /\ Cardinality({p}) = 1
    BY FS_Singleton
  <2> HIDE DEF D
  <2>3. IsFiniteSet({p} \X D) /\ Cardinality({p} \X D) = 1 * Cardinality(D)
    BY <2>1, <2>2, FS_Product
  <2> QED BY <2>1, <2>3 DEF D
<1>3. ASSUME NEW k PROVE rest \cap mine(k) = {}
  OBVIOUS
<1>4. DescOf(h, f) = rest \cup mine(h[p])
  BY DEF DescOf
<1>5. DescOf(g, f) = rest \cup mine(t)
  <2>1. ASSUME NEW q \in Procs, NEW fd \in Fds
        PROVE  <<q, fd>> \in DescOf(g, f) <=> <<q, fd>> \in rest \cup mine(t)
    <3>1. CASE q = p
      BY <3>1 DEF DescOf, Changed
    <3>2. CASE q # p
      BY <3>2 DEF DescOf, Changed
    <3> QED BY <3>1, <3>2
  <2>2. DescOf(g, f) \subseteq Procs \X Fds /\ rest \cup mine(t) \subseteq Procs \X Fds
    BY DEF DescOf
  <2> HIDE DEF rest, mine
  <2> QED BY <2>1, <2>2
<1> HIDE DEF rest, mine
<1>6. ASSUME NEW k
      PROVE  Cardinality(rest \cup mine(k)) = Cardinality(rest) + Times(k, Fds, f)
  <2>1. Cardinality(rest \cup mine(k)) =
            Cardinality(rest) + Cardinality(mine(k)) - Cardinality(rest \cap mine(k))
    BY <1>1, <1>2, FS_Union
  <2>2. Cardinality(rest \cap mine(k)) = 0
    BY <1>3, FS_EmptySet
  <2> QED BY <1>1, <1>2, <2>1, <2>2
<1> QED BY <1>1, <1>2, <1>4, <1>5, <1>6

LEMMA LeastOf ==
    ASSUME NEW S \in SUBSET Nat, S # {}
    PROVE  Min(S) \in S
<1>1. \E m \in S : \A k \in S : <<k, m>> \notin OpToRel(<, Nat)
  BY WFMin, NatLessThanWellFounded, Zenon
<1>2. PICK m \in S : \A k \in S : ~ (k < m)
  BY <1>1 DEF OpToRel
<1>3. \A k \in S : m <= k
  BY <1>2
<1>4. \E x \in S : \A y \in S : x <= y
  BY <1>3
<1> QED BY <1>4 DEF Min

\* A file is added once, or not at all.
LEMMA AddedIs ==
    ASSUME NEW table \in Tables, NEW f \in Files
    PROVE  /\ \A g : g # NoFile => Times(Added(table, f), Fds, g) =
                         Times(table, Fds, g) + (IF g = f THEN 1 - IsUnheld(table) ELSE 0)
           /\ \A fd \in Fds : \/ Added(table, f)[fd] = table[fd]
                              \/ table[fd] = NoFile /\ Added(table, f)[fd] = f
<1>1. CASE Unused(table) = {}
  <2>1. Added(table, f) = table /\ IsUnheld(table) = 1
    BY <1>1 DEF Added, IsUnheld
  <2>2. \A g : Times(table, Fds, g) \in Nat
    BY TimesFinite
  <2> QED BY <2>1, <2>2
<1>2. CASE Unused(table) # {}
  <2> DEFINE n == Min(Unused(table))
             t == Added(table, f)
  <2>1. Unused(table) \in SUBSET Nat
    BY FileTablesAssumption DEF Unused, Fds
  <2>2. n \in Fds /\ table[n] = NoFile
    BY <1>2, <2>1, LeastOf DEF Unused
  <2>3. t = [table EXCEPT ![n] = f] /\ IsUnheld(table) = 0
    BY <1>2 DEF Added, IsUnheld
  <2> HIDE DEF n, t
  <2>4. t[n] = f /\ \A fd \in Fds \ {n} : t[fd] = table[fd]
    BY <2>2, <2>3 DEF Tables
  <2>5. ASSUME NEW g, g # NoFile
        PROVE  Times(t, Fds, g) = Times(table, Fds, g) + (IF g = f THEN 1 ELSE 0)
    <3> DEFINE D == {fd \in Fds : table[fd] = g}
               E == {fd \in Fds : t[fd] = g}
    <3>1. IsFiniteSet(D) /\ Cardinality(D) \in Nat /\ Times(table, Fds, g) = Cardinality(D)
          /\ Times(t, Fds, g) = Cardinality(E)
      BY TimesFinite DEF Times
    <3>2. n \notin D
      BY <2>2, <2>5
    <3>3. CASE g = f
      <4>1. E = D \cup {n}
        BY <2>2, <2>4, <3>3
      <4> HIDE DEF D, E
      <4>2. Cardinality(E) = Cardinality(D) + 1
        BY <3>1, <3>2, <4>1, FS_AddElement
      <4> QED BY <3>1, <3>3, <4>2
    <3>4. CASE g # f
      <4>1. E = D
        BY <2>2, <2>4, <2>5, <3>4
      <4> HIDE DEF D, E
      <4>2. Cardinality(E) = Cardinality(D) + 0
        BY <3>1, <4>1
      <4> QED BY <3>1, <3>4, <4>2
    <3> QED BY <3>3, <3>4
  <2>6. 1 - IsUnheld(table) = 1
    BY <2>3
  <2>7. \A g : g # NoFile =>
            Times(t, Fds, g) = Times(table, Fds, g) + (IF g = f THEN 1 - IsUnheld(table) ELSE 0)
    BY <2>5, <2>6, Zenon
  <2>8. \A fd \in Fds : t[fd] = table[fd] \/ (table[fd] = NoFile /\ t[fd] = f)
    BY <2>2, <2>4
  <2> QED BY <2>7, <2>8, Zenon DEF t
<1> QED BY <1>1, <1>2

Cleared(table, fds) == [fd \in Fds |-> IF fd \in fds THEN NoFile ELSE table[fd]]

LEMMA ClearedIs ==
    ASSUME NEW table \in Tables, NEW fds \in SUBSET Fds, NEW g, g # NoFile
    PROVE  /\ Times(Cleared(table, fds), Fds, g) = Times(table, Fds, g) - Times(table, fds, g)
           /\ Times(table, fds, g) <= Times(table, Fds, g)
<1> DEFINE A == {fd \in Fds : Cleared(table, fds)[fd] = g}
           B == {fd \in fds : table[fd] = g}
           D == {fd \in Fds : table[fd] = g}
<1>1. /\ IsFiniteSet(A) /\ IsFiniteSet(B)
      /\ Times(Cleared(table, fds), Fds, g) = Cardinality(A) /\ Times(table, fds, g) = Cardinality(B)
      /\ Times(table, Fds, g) = Cardinality(D)
  BY TimesFinite DEF Times
<1>2. D = A \cup B /\ A \cap B = {}
  BY DEF Cleared
<1> HIDE DEF A, B, D
<1>3. Cardinality(D) = Cardinality(A) + Cardinality(B) - Cardinality(A \cap B)
  BY <1>1, <1>2, FS_Union
<1>4. Cardinality(A \cap B) = 0 /\ Cardinality(A) \in Nat /\ Cardinality(B) \in Nat
  BY <1>1, <1>2, FS_EmptySet, FS_CardinalityType
<1> QED BY <1>1, <1>3, <1>4

LEMMA CopiedIs ==
    ASSUME NEW table \in Tables
    PROVE  /\ \A g \in Counted : Times(Copied(table), Fds, g) = Times(table, Fds, g)
           /\ \A fd \in Fds : Copied(table)[fd] \in Counted => Copied(table)[fd] = table[fd]
<1>1. \A fd \in Fds : NewTable[fd] \notin Counted
  BY DEF NewTable, Terminal, NoFile, Counted, RootFiles, PipeEnds, RootFile, Reader, Writer
<1>2. ASSUME NEW g \in Counted, NEW fd \in Fds
      PROVE  Copied(table)[fd] = g <=> table[fd] = g
  BY <1>1, FileTypes DEF Copied
<1>3. ASSUME NEW g \in Counted
      PROVE  {fd \in Fds : Copied(table)[fd] = g} = {fd \in Fds : table[fd] = g}
  BY <1>2
<1> QED BY <1>2, <1>3, Zenon DEF Times

-----------------------------------------------------------------------------
(* The inductive invariant.                                                *)

\* The tables without what an exit has closed already.
Held == [p \in Procs |-> Cleared(files[p], closed[p])]

\* What is in a table, in the map, deleted or closed again has been made, a pipe with both
\* its ends; and what an exit has closed is not in the map.
AllMade ==
    /\ \A e \in PipeEnds : e \in made <=> OtherEnd(e) \in made
    /\ \A p \in Procs, fd \in Fds : files[p][fd] \in Counted => files[p][fd] \in made
    /\ deleted \subseteq made /\ fileMap \subseteq made
    /\ \A e \in PipeEnds \ made : again[e] = 0
    /\ \A p \in Procs : \A fd \in closed[p] : files[p][fd] \notin fileMap

\* A process in a dup keeps its descriptor, and nobody has changed the count that it
\* has read, or there is a race. No exit has closed a file of a process that runs.
DupHolds(p) ==
    /\ dup[p] # NotInDup =>
           /\ p \in live
           /\ \E fd \in Fds : files[p][fd] = dup[p].file
           /\ dup[p].file \notin raced => dup[p].seen = count[dup[p].file]
    /\ p \in live => closed[p] = {}

\* CloseFiles is of a process that is gone, and has closed the files before the next.
ExitHolds(c) ==
    closing[c] # NotClosing =>
        /\ dup[c] = NotInDup /\ closing[c].of \notin live
        /\ \A fd \in Fds : fd < closing[c].next => Held[closing[c].of][fd] = NoFile

EndCounted(e) ==
    e \in made /\ e \notin raced => count[e] = Descriptors(e) + unheld[e] - again[e]

EndDeleted(e) ==
    /\ e \in made /\ e \notin raced /\ OtherEnd(e) \notin raced
    /\ again[e] = 0 /\ again[OtherEnd(e)] = 0
    => (e \in deleted <=> count[e] = 0 /\ count[OtherEnd(e)] = 0)

\* While a file is in the map none of its descriptors was closed; the one that is closed
\* first takes it out.
RootCounted(f) ==
    f \notin raced =>
        /\ f \in fileMap => Descriptors(f) <= count[f] /\ f \notin deleted
        /\ f \in deleted => Descriptors(f) = 0

Inv ==
    /\ TypeOK
    /\ AllMade
    /\ \A p \in Procs : DupHolds(p) /\ ExitHolds(p)
    /\ \A e \in PipeEnds : EndCounted(e) /\ EndDeleted(e)
    /\ \A f \in RootFiles : RootCounted(f)

LEMMA HeldIs ==
    ASSUME TypeOK
    PROVE  /\ Held \in [Procs -> Tables] /\ files \in [Procs -> Tables]
           /\ \A p \in Procs : closed[p] = {} => Held[p] = files[p]
           /\ \A p \in Procs, fd \in Fds :
                  Held[p][fd] = IF fd \in closed[p] THEN NoFile ELSE files[p][fd]
<1>1. files \in [Procs -> Tables]
  BY DEF TypeOK, Tables
<1>2. Held \in [Procs -> Tables]
  BY <1>1 DEF Held, Cleared, Tables
<1>3. ASSUME NEW p \in Procs, closed[p] = {} PROVE Held[p] = files[p]
  BY <1>1, <1>3 DEF Held, Cleared, Tables
<1> QED BY <1>1, <1>2, <1>3 DEF Held, Cleared

LEMMA DescriptorsAre ==
    /\ \A f \in Counted : Descriptors(f) = Cardinality(DescOf(Held, f))
    /\ \A f \in Counted : Descriptors(f)' = Cardinality(DescOf(Held', f))
    /\ \A f \in Counted : Descriptors(f) \in Nat
<1>1. ASSUME NEW f \in Counted
      PROVE  DescOf(Held, f) = {x \in Procs \X Fds : files[x[1]][x[2]] = f /\ x[2] \notin closed[x[1]]}
  BY FileTypes DEF DescOf, Held, Cleared
<1>2. ASSUME NEW f \in Counted
      PROVE  DescOf(Held', f) =
                 {x \in Procs \X Fds : files'[x[1]][x[2]] = f /\ x[2] \notin closed'[x[1]]}
  BY FileTypes DEF DescOf, Held, Cleared
<1>3. ASSUME NEW f \in Counted PROVE Descriptors(f) = Cardinality(DescOf(Held, f))
  BY <1>1, Zenon DEF Descriptors
<1>4. ASSUME NEW f \in Counted PROVE Descriptors(f)' = Cardinality(DescOf(Held', f))
  BY <1>2, Zenon DEF Descriptors
<1>5. ASSUME NEW f \in Counted PROVE Descriptors(f) \in Nat
  BY <1>3, DescFinite
<1> QED BY <1>3, <1>4, <1>5, Zenon

LEMMA SomeDescriptor ==
    ASSUME NEW p \in Procs, NEW fd \in Fds, Held[p][fd] \in Counted
    PROVE  Descriptors(Held[p][fd]) > 0
<1> DEFINE f == Held[p][fd]
<1>1. <<p, fd>> \in DescOf(Held, f)
  BY DEF DescOf
<1>2. IsFiniteSet(DescOf(Held, f)) /\ f \in Counted
  BY DescFinite
<1> HIDE DEF f
<1>3. Cardinality(DescOf(Held, f)) # 0
  BY <1>1, <1>2, FS_EmptySet
<1>4. Descriptors(f) # 0 /\ Descriptors(f) \in Nat
  BY <1>2, <1>3, DescriptorsAre
<1> QED BY <1>4 DEF f

LEMMA NoDescriptor ==
    ASSUME TypeOK, NEW f \in Counted, \A p \in Procs, fd \in Fds : files[p][fd] # f
    PROVE  Descriptors(f) = 0
<1>1. DescOf(Held, f) = {}
  BY HeldIs, FileTypes DEF DescOf
<1> QED BY <1>1, FS_EmptySet, DescriptorsAre

LEMMA InvMeans == Inv => PipeEndsAgree /\ NoDangling
<1> SUFFICES ASSUME Inv PROVE PipeEndsAgree /\ NoDangling
  OBVIOUS
<1>1. PipeEndsAgree
  BY DEF Inv, PipeEndsAgree, EndCounted, EndDeleted
<1>2. ASSUME NEW p \in Procs, NEW fd \in Fds \ closed[p],
             files[p][fd] \in deleted, files[p][fd] \notin raced,
             files[p][fd] \in PipeEnds =>
                 /\ OtherEnd(files[p][fd]) \notin raced
                 /\ again[files[p][fd]] = 0 /\ again[OtherEnd(files[p][fd])] = 0
      PROVE  FALSE
  <2> DEFINE f == files[p][fd]
  <2>1. f \in Counted /\ f \in made /\ Held[p][fd] = f
    BY <1>2, HeldIs DEF Inv, TypeOK, AllMade
  <2>2. Descriptors(f) > 0 /\ Descriptors(f) \in Nat
    BY <2>1, SomeDescriptor, DescriptorsAre
  <2>3. /\ f \in deleted /\ f \notin raced
        /\ f \in PipeEnds => OtherEnd(f) \notin raced /\ again[f] = 0 /\ again[OtherEnd(f)] = 0
    BY <1>2
  <2> HIDE DEF f
  <2>4. CASE f \in PipeEnds
    <3>1. count[f] = Descriptors(f) + unheld[f] - 0 /\ unheld[f] \in Nat
      BY <2>1, <2>3, <2>4 DEF Inv, EndCounted, TypeOK
    <3>2. count[f] = 0
      BY <2>1, <2>3, <2>4 DEF Inv, EndDeleted
    <3> QED BY <2>2, <3>1, <3>2
  <2>5. CASE f \in RootFiles
    BY <2>2, <2>3, <2>5 DEF Inv, RootCounted
  <2> QED BY <2>1, <2>4, <2>5 DEF Counted
<1>3. \A e \in PipeEnds : again[e] \in Nat /\ OtherEnd(e) \in PipeEnds
  BY FileTypes DEF Inv, TypeOK
<1>4. \A e \in PipeEnds : ~ (again[e] > 0) => again[e] = 0
  BY <1>3
<1>5. NoDangling
  BY <1>2, <1>3, <1>4 DEF NoDangling
<1> QED BY <1>1, <1>5

LEMMA Start == Init => Inv
<1> SUFFICES ASSUME Init PROVE Inv
  OBVIOUS
<1>1. TypeOK
  BY TypeStart
<1>2. \A p \in Procs, fd \in Fds : files[p][fd] \notin Counted
  BY FileTypes DEF Init, NewTable, NoFiles, Terminal, NoFile, Counted, RootFiles, PipeEnds,
                   RootFile, Reader, Writer
<1>3. \A p \in Procs : DupHolds(p) /\ ExitHolds(p)
  BY DEF Init, DupHolds, ExitHolds
<1>4. \A e \in PipeEnds : EndCounted(e) /\ EndDeleted(e)
  BY DEF Init, EndCounted, EndDeleted
<1>5. \A f \in RootFiles : RootCounted(f)
  BY DEF Init, RootCounted
<1>6. AllMade
  BY <1>2 DEF Init, AllMade
<1> QED BY <1>1, <1>3, <1>4, <1>5, <1>6 DEF Inv

-----------------------------------------------------------------------------
(* What the steps have in common.                                          *)

\* The processes that have nothing to do with a step: x is the one whose table, or whose
\* place in a dup, may change.
LEMMA OthersStay ==
    ASSUME Inv, NEW x \in Procs,
           \A q \in Procs \ {x} : /\ files'[q] = files[q] /\ closed'[q] = closed[q]
                                  /\ dup'[q] = dup[q] /\ (q \in live' <=> q \in live),
           raced \subseteq raced',
           \A q \in Procs \ {x} : dup[q] # NotInDup /\ dup[q].file \notin raced' =>
               count'[dup[q].file] = count[dup[q].file]
    PROVE  \A q \in Procs \ {x} : DupHolds(q)'
<1> SUFFICES ASSUME NEW q \in Procs, q # x PROVE DupHolds(q)'
  OBVIOUS
<1>1. DupHolds(q)
  BY DEF Inv
<1> QED BY <1>1 DEF DupHolds

\* Nor does a step of a process that runs, and makes no exit, concern the exits that there are.
LEMMA ExitsStay ==
    ASSUME Inv, NEW p \in Procs, p \in live, closing[p] = NotClosing, TypeOK',
           \A q \in Procs \ {p} : files'[q] = files[q] /\ dup'[q] = dup[q],
           closed' = closed, closing' = closing, live' = live
    PROVE  \A c \in Procs : ExitHolds(c)'
<1> SUFFICES ASSUME NEW c \in Procs, closing[c] # NotClosing PROVE ExitHolds(c)'
  BY DEF ExitHolds
<1> DEFINE q == closing[c].of
<1>1. ExitHolds(c) /\ TypeOK /\ c # p
  BY DEF Inv
<1>2. q \in Procs /\ q # p
  BY <1>1 DEF ExitHolds, TypeOK
<1>3. Held'[q] = Held[q]
  BY <1>2 DEF Held
<1> QED BY <1>1, <1>3 DEF ExitHolds

LEMMA Apart ==
    /\ RootFiles \cap PipeEnds = {}
    /\ \A e \in PipeEnds : OtherEnd(e) \in PipeEnds /\ OtherEnd(OtherEnd(e)) = e /\ OtherEnd(e) # e
    /\ \A k \in Pipes : OtherEnd(Reader(k)) = Writer(k) /\ OtherEnd(Writer(k)) = Reader(k)
    /\ Terminal \notin Counted /\ NoFile \notin Counted /\ NoFile \notin Files
BY DEF RootFiles, PipeEnds, Counted, Files, RootFile, Reader, Writer, OtherEnd, Terminal, NoFile

\* When only the table of a process that runs changes, to t.
LEMMA TableChanges ==
    ASSUME Inv, TypeOK', NEW p \in Procs, p \in live, NEW t \in Tables,
           files' = [files EXCEPT ![p] = t], closed' = closed
    PROVE  /\ Held[p] = files[p] /\ Changed(Held', Held, p, t)
           /\ \A q \in Procs \ {p} : files'[q] = files[q]
           /\ \A fd \in Fds : files'[p][fd] = t[fd]
           /\ \A q \in Procs : \A fd \in closed'[q] : files'[q][fd] = files[q][fd]
<1>1. TypeOK /\ closed[p] = {}
  BY DEF Inv, DupHolds
<1>2. files \in [Procs -> Tables] /\ Held \in [Procs -> Tables] /\ Held[p] = files[p]
  BY <1>1, HeldIs
<1>3. files'[p] = t /\ \A q \in Procs \ {p} : files'[q] = files[q]
  BY <1>2
<1>4. Held'[p] = t
  BY <1>1, <1>3 DEF Held, Cleared, Tables
<1>5. \A q \in Procs \ {p} : Held'[q] = Held[q]
  BY <1>3 DEF Held
<1>6. files' \in [Procs -> Tables]
  BY <1>2
<1>7. Held' \in [Procs -> Tables]
  BY <1>1, <1>6 DEF Held, Cleared, Tables
<1> QED BY <1>1, <1>2, <1>3, <1>4, <1>5, <1>7 DEF Changed

\* What p's table has after AddFile of g, and what the counts of descriptors are then.
Got(p, g, u) ==
    /\ u \in {0, 1}
    /\ \A f \in Counted : Descriptors(f)' = Descriptors(f) + (IF f = g THEN 1 - u ELSE 0)
    /\ \A q \in Procs \ {p} : files'[q] = files[q]
    /\ \A fd \in Fds : \/ files'[p][fd] = files[p][fd]
                       \/ files[p][fd] = NoFile /\ files'[p][fd] = g
    /\ \A q \in Procs : \A fd \in closed'[q] : files'[q][fd] = files[q][fd]

LEMMA GotFile ==
    ASSUME Inv, TypeOK', NEW p \in Procs, p \in live, NEW g \in Files,
           files' = [files EXCEPT ![p] = Added(files[p], g)], closed' = closed
    PROVE  Got(p, g, IsUnheld(files[p]))
<1> DEFINE t == Added(files[p], g)
<1>1. files \in [Procs -> Tables] /\ files[p] \in Tables
  BY DEF Inv, TypeOK, Tables
<1>2. t \in Tables
  BY <1>1, AddedType
<1>3. /\ \A f : f # NoFile => Times(t, Fds, f) =
                    Times(files[p], Fds, f) + (IF f = g THEN 1 - IsUnheld(files[p]) ELSE 0)
      /\ \A fd \in Fds : t[fd] = files[p][fd] \/ (files[p][fd] = NoFile /\ t[fd] = g)
  BY <1>1, AddedIs
<1>4. files' = [files EXCEPT ![p] = t]
  OBVIOUS
<1> HIDE DEF t
<1>5. /\ Held[p] = files[p] /\ Changed(Held', Held, p, t)
      /\ \A q \in Procs \ {p} : files'[q] = files[q]
      /\ \A fd \in Fds : files'[p][fd] = t[fd]
      /\ \A q \in Procs : \A fd \in closed'[q] : files'[q][fd] = files[q][fd]
  BY <1>2, <1>4, TableChanges
<1>6. ASSUME NEW f \in Counted
      PROVE  Descriptors(f)' = Descriptors(f) + (IF f = g THEN 1 - IsUnheld(files[p]) ELSE 0)
  <2>1. Cardinality(DescOf(Held', f)) =
            Cardinality(DescOf(Held, f)) - Times(files[p], Fds, f) + Times(t, Fds, f)
    BY <1>5, DescChanged
  <2>2. f # NoFile
    BY Apart
  <2>3. Times(files[p], Fds, f) \in Nat /\ Descriptors(f) \in Nat
    BY TimesFinite, DescriptorsAre
  <2>4. IsUnheld(files[p]) \in {0, 1}
    BY DEF IsUnheld
  <2>5. Descriptors(f)' = Descriptors(f) - Times(files[p], Fds, f) + Times(t, Fds, f)
    BY <2>1, DescriptorsAre, Zenon
  <2> QED BY <1>3, <2>2, <2>3, <2>4, <2>5
<1>7. IsUnheld(files[p]) \in {0, 1}
  BY DEF IsUnheld
<1> QED BY <1>3, <1>5, <1>6, <1>7 DEF Got

LEMMA HasAtMost ==
    ASSUME TypeOK, NEW p \in Procs, NEW f \in Counted
    PROVE  Times(Held[p], Fds, f) <= Descriptors(f)
<1>1. Changed(Held, Held, p, Held[p])
  BY HeldIs DEF Changed
<1> QED BY <1>1, DescChanged, DescriptorsAre

-----------------------------------------------------------------------------
LEMMA OpenKeeps ==
    ASSUME Inv, TypeOK', NEW p \in Procs, NEW n \in Opens, Open(p, n)
    PROVE  Inv'
<1> DEFINE f == RootFile(n)
<1>1. /\ TypeOK /\ AllMade /\ f \in RootFiles /\ f \in Counted /\ f \in Files /\ f \notin PipeEnds
      /\ f \notin made /\ f \notin deleted
  BY FileTypes, Apart DEF Inv, Open, AllMade
<1>2. /\ raced = {} /\ p \in live /\ dup[p] = NotInDup /\ closing[p] = NotClosing
      /\ made' = made \cup {f} /\ fileMap' = fileMap \cup {f}
      /\ count' = [count EXCEPT ![f] = 1]
      /\ files' = [files EXCEPT ![p] = Added(files[p], f)]
      /\ UNCHANGED <<live, deleted, dup, closing, closed, again, unheld, raced>>
  BY DEF Open, RunsLocked, Runs, Idle, ProcessorFree, exitVars
<1> HIDE DEF f
<1>3. PICK u : Got(p, f, u)
  BY <1>1, <1>2, GotFile
<1>4. Descriptors(f) = 0
  BY <1>1, NoDescriptor DEF AllMade
<1>5. count'[f] = 1 /\ \A g \in Counted \ {f} : count'[g] = count[g]
  BY <1>1, <1>2 DEF TypeOK
<1>6. AllMade'
  <2>1. \A e \in PipeEnds : e \in made' <=> OtherEnd(e) \in made'
    BY <1>1, <1>2, Apart DEF AllMade
  <2>2. \A q \in Procs, fd \in Fds : files'[q][fd] \in Counted => files'[q][fd] \in made'
    BY <1>1, <1>2, <1>3 DEF AllMade, Got
  <2>3. deleted' \subseteq made' /\ fileMap' \subseteq made'
    BY <1>1, <1>2 DEF AllMade
  <2>4. ASSUME NEW q \in Procs, NEW fd \in closed'[q] PROVE files'[q][fd] \notin fileMap'
    <3>1. files'[q][fd] = files[q][fd] /\ fd \in closed[q] /\ fd \in Fds
      BY <1>1, <1>2, <1>3 DEF Got, TypeOK
    <3>2. files[q][fd] # f
      BY <1>1, <3>1 DEF AllMade
    <3> QED BY <1>1, <1>2, <3>1, <3>2 DEF AllMade
  <2>5. \A e \in PipeEnds \ made' : again'[e] = 0
    BY <1>1, <1>2 DEF AllMade
  <2> QED BY <2>1, <2>2, <2>3, <2>4, <2>5 DEF AllMade
<1>7. ASSUME NEW q \in Procs, dup[q] # NotInDup
      PROVE  dup[q].file \in made
  <2>1. dup[q].file \in Counted
    BY <1>1, <1>7 DEF TypeOK
  <2> QED BY <1>1, <1>7, <2>1 DEF Inv, DupHolds, AllMade
<1>8. ASSUME NEW q \in Procs PROVE DupHolds(q)' /\ ExitHolds(q)'
  <2>1. \A r \in Procs : dup[r] # NotInDup => count'[dup[r].file] = count[dup[r].file]
    BY <1>1, <1>5, <1>7 DEF TypeOK
  <2>2. DupHolds(p)'
    BY <1>2 DEF Inv, DupHolds
  <2>3. \A r \in Procs \ {p} : DupHolds(r)'
    BY <1>2, <1>3, <2>1, OthersStay DEF Got
  <2>4. ExitHolds(q)'
    BY <1>2, <1>3, ExitsStay DEF Got
  <2> QED BY <2>2, <2>3, <2>4
<1>9. ASSUME NEW e \in PipeEnds PROVE EndCounted(e)' /\ EndDeleted(e)'
  <2>1. EndCounted(e) /\ EndDeleted(e)
    BY DEF Inv
  <2>2. e # f /\ OtherEnd(e) # f /\ e \in Counted /\ OtherEnd(e) \in Counted
    BY <1>1, Apart, FileTypes
  <2>3. count'[e] = count[e] /\ count'[OtherEnd(e)] = count[OtherEnd(e)]
    BY <1>5, <2>2
  <2>4. Descriptors(e)' = Descriptors(e) + 0 /\ Descriptors(e) \in Nat
    BY <1>3, <2>2, DescriptorsAre DEF Got
  <2>5. EndCounted(e)'
    BY <1>2, <2>1, <2>2, <2>3, <2>4 DEF EndCounted
  <2>6. EndDeleted(e)'
    BY <1>2, <2>1, <2>2, <2>3 DEF EndDeleted
  <2> QED BY <2>5, <2>6
<1>10. ASSUME NEW g \in RootFiles PROVE RootCounted(g)'
  <2>1. RootCounted(g) /\ g \in Counted
    BY FileTypes DEF Inv
  <2>2. CASE g = f
    <3>1. Descriptors(g)' <= 1
      BY <1>1, <1>3, <1>4, <2>2 DEF Got
    <3> QED BY <1>1, <1>2, <1>5, <2>2, <3>1 DEF RootCounted
  <2>3. CASE g # f
    <3>1. Descriptors(g)' = Descriptors(g) + 0 /\ Descriptors(g) \in Nat
      BY <1>3, <2>1, <2>3, DescriptorsAre DEF Got
    <3> QED BY <1>2, <1>5, <2>1, <2>3, <3>1 DEF RootCounted
  <2> QED BY <2>2, <2>3
<1> QED BY <1>6, <1>8, <1>9, <1>10 DEF Inv

\* Both ends of a new pipe: one of them, or both, may find the table full.
LEMMA MakePipeKeeps ==
    ASSUME Inv, TypeOK', NEW p \in Procs, NEW k \in Pipes, MakePipe(p, k)
    PROVE  Inv'
<1> DEFINE r == Reader(k)
           w == Writer(k)
           t == Added(files[p], r)
           s == Added(t, w)
<1>1. /\ TypeOK /\ AllMade /\ r \in PipeEnds /\ w \in PipeEnds /\ r # w
      /\ OtherEnd(r) = w /\ OtherEnd(w) = r
      /\ r \in Counted /\ w \in Counted /\ r \in Files /\ w \in Files
      /\ r \notin made /\ w \notin made /\ r \notin deleted /\ w \notin deleted
  BY FileTypes, Apart DEF Inv, MakePipe, AllMade
<1>2. /\ raced = {} /\ p \in live /\ dup[p] = NotInDup /\ closing[p] = NotClosing
      /\ made' = made \cup {r, w}
      /\ count' = [count EXCEPT ![r] = 1, ![w] = 1]
      /\ files' = [files EXCEPT ![p] = s]
      /\ unheld' = [unheld EXCEPT ![r] = IsUnheld(files[p]), ![w] = IsUnheld(t)]
      /\ UNCHANGED <<live, deleted, fileMap, dup, closing, closed, again, raced>>
  BY DEF MakePipe, RunsLocked, Runs, Idle, ProcessorFree, exitVars
<1>3. files \in [Procs -> Tables] /\ files[p] \in Tables /\ t \in Tables /\ s \in Tables
  BY <1>1, AddedType DEF TypeOK, Tables
<1>4. /\ \A f : f # NoFile => Times(t, Fds, f) =
                    Times(files[p], Fds, f) + (IF f = r THEN 1 - IsUnheld(files[p]) ELSE 0)
      /\ \A fd \in Fds : t[fd] = files[p][fd] \/ (files[p][fd] = NoFile /\ t[fd] = r)
  BY <1>1, <1>3, AddedIs
<1>5. /\ \A f : f # NoFile => Times(s, Fds, f) =
                    Times(t, Fds, f) + (IF f = w THEN 1 - IsUnheld(t) ELSE 0)
      /\ \A fd \in Fds : s[fd] = t[fd] \/ (t[fd] = NoFile /\ s[fd] = w)
  BY <1>1, <1>3, AddedIs
<1> HIDE DEF r, w, t, s
<1>6. /\ Held[p] = files[p] /\ Changed(Held', Held, p, s)
      /\ \A q \in Procs \ {p} : files'[q] = files[q]
      /\ \A fd \in Fds : files'[p][fd] = s[fd]
      /\ \A q \in Procs : \A fd \in closed'[q] : files'[q][fd] = files[q][fd]
  BY <1>2, <1>3, TableChanges
<1>7. IsUnheld(files[p]) \in {0, 1} /\ IsUnheld(t) \in {0, 1}
  BY DEF IsUnheld
<1>8. ASSUME NEW f \in Counted
      PROVE  Descriptors(f)' = Descriptors(f) + (IF f = r THEN 1 - IsUnheld(files[p]) ELSE 0)
                                              + (IF f = w THEN 1 - IsUnheld(t) ELSE 0)
  <2>1. Cardinality(DescOf(Held', f)) =
            Cardinality(DescOf(Held, f)) - Times(files[p], Fds, f) + Times(s, Fds, f)
    BY <1>6, DescChanged
  <2>2. f # NoFile
    BY Apart
  <2>3. Times(files[p], Fds, f) \in Nat /\ Descriptors(f) \in Nat
    BY TimesFinite, DescriptorsAre
  <2>4. Descriptors(f)' = Descriptors(f) - Times(files[p], Fds, f) + Times(s, Fds, f)
    BY <2>1, DescriptorsAre, Zenon
  <2> QED BY <1>4, <1>5, <1>7, <2>2, <2>3, <2>4
<1>9. /\ Descriptors(r) = 0 /\ Descriptors(w) = 0
      /\ again'[r] = 0 /\ again'[w] = 0
  BY <1>1, <1>2, NoDescriptor DEF AllMade
<1>10. count'[r] = 1 /\ count'[w] = 1 /\ \A g \in Counted \ {r, w} : count'[g] = count[g]
  BY <1>1, <1>2 DEF TypeOK
<1>11. /\ unheld'[r] = IsUnheld(files[p]) /\ unheld'[w] = IsUnheld(t)
       /\ \A g \in PipeEnds \ {r, w} : unheld'[g] = unheld[g]
  BY <1>1, <1>2 DEF TypeOK
<1>12. \A q \in Procs \ {p} : files'[q] = files[q]
  BY <1>6
<1>13. AllMade'
  <2>1. \A e \in PipeEnds : e \in made' <=> OtherEnd(e) \in made'
    BY <1>1, <1>2, Apart DEF AllMade
  <2>2. ASSUME NEW q \in Procs, NEW fd \in Fds, files'[q][fd] \in Counted
        PROVE  files'[q][fd] \in made'
    <3>1. CASE q = p
      BY <1>1, <1>2, <1>4, <1>5, <1>6, <2>2, <3>1 DEF AllMade
    <3>2. CASE q # p
      BY <1>1, <1>2, <1>12, <2>2, <3>2 DEF AllMade
    <3> QED BY <3>1, <3>2
  <2>3. deleted' \subseteq made' /\ fileMap' \subseteq made'
    BY <1>1, <1>2 DEF AllMade
  <2>4. \A q \in Procs : \A fd \in closed'[q] : files'[q][fd] \notin fileMap'
    BY <1>1, <1>2, <1>6 DEF AllMade
  <2>5. \A e \in PipeEnds \ made' : again'[e] = 0
    BY <1>1, <1>2 DEF AllMade
  <2> QED BY <2>1, <2>2, <2>3, <2>4, <2>5 DEF AllMade
<1>14. ASSUME NEW q \in Procs, dup[q] # NotInDup
       PROVE  dup[q].file \in made
  <2>1. dup[q].file \in Counted
    BY <1>1, <1>14 DEF TypeOK
  <2> QED BY <1>1, <1>14, <2>1 DEF Inv, DupHolds, AllMade
<1>15. ASSUME NEW q \in Procs PROVE DupHolds(q)' /\ ExitHolds(q)'
  <2>1. \A x \in Procs : dup[x] # NotInDup => count'[dup[x].file] = count[dup[x].file]
    BY <1>1, <1>10, <1>14 DEF TypeOK
  <2>2. DupHolds(p)'
    BY <1>2 DEF Inv, DupHolds
  <2>3. \A x \in Procs \ {p} : DupHolds(x)'
    BY <1>2, <1>12, <2>1, OthersStay
  <2>4. ExitHolds(q)'
    BY <1>2, <1>12, ExitsStay
  <2> QED BY <2>2, <2>3, <2>4
<1>16. ASSUME NEW e \in PipeEnds PROVE EndCounted(e)' /\ EndDeleted(e)'
  <2>1. EndCounted(e) /\ EndDeleted(e) /\ e \in Counted /\ OtherEnd(e) \in Counted
    BY FileTypes DEF Inv
  <2>2. CASE e \in {r, w}
    <3>1. EndCounted(e)'
      BY <1>1, <1>7, <1>8, <1>9, <1>10, <1>11, <2>2 DEF EndCounted
    <3>2. EndDeleted(e)'
      BY <1>1, <1>2, <1>10, <2>2 DEF EndDeleted
    <3> QED BY <3>1, <3>2
  <2>3. CASE e \notin {r, w}
    <3>1. OtherEnd(e) \notin {r, w}
      BY <1>1, <2>3, Apart
    <3>2. Descriptors(e)' = Descriptors(e) + 0 + 0 /\ Descriptors(e) \in Nat
      BY <1>8, <2>1, <2>3, DescriptorsAre
    <3>3. Descriptors(e)' = Descriptors(e) /\ count'[e] = count[e] /\ unheld'[e] = unheld[e]
      BY <1>10, <1>11, <2>1, <2>3, <3>2
    <3>4. e \in made' => e \in made
      BY <1>2, <2>3
    <3>5. EndCounted(e)'
      BY <1>2, <2>1, <3>3, <3>4 DEF EndCounted
    <3>6. EndDeleted(e)'
      BY <1>2, <1>10, <2>1, <2>3, <3>1 DEF EndDeleted
    <3> QED BY <3>5, <3>6
  <2> QED BY <2>2, <2>3
<1>17. ASSUME NEW g \in RootFiles PROVE RootCounted(g)'
  <2>1. RootCounted(g) /\ g \in Counted /\ g \notin {r, w}
    BY <1>1, FileTypes, Apart DEF Inv
  <2>2. Descriptors(g)' = Descriptors(g) + 0 + 0 /\ Descriptors(g) \in Nat
    BY <1>8, <2>1, DescriptorsAre
  <2>3. Descriptors(g)' = Descriptors(g) /\ count'[g] = count[g]
    BY <1>10, <2>1, <2>2
  <2> QED BY <1>2, <2>1, <2>3 DEF RootCounted
<1> QED BY <1>13, <1>15, <1>16, <1>17 DEF Inv

\* The second half of a dup: the count that was read, unless there is a race, is the count.
LEMMA EndDupKeeps ==
    ASSUME Inv, TypeOK', NEW p \in Procs, EndDup(p)
    PROVE  Inv'
<1> DEFINE f == dup[p].file
<1>1. /\ TypeOK /\ AllMade /\ dup[p] # NotInDup /\ f \in Counted /\ f \in Files /\ DupHolds(p)
  BY FileTypes DEF Inv, EndDup, TypeOK
<1>2. /\ dup' = [dup EXCEPT ![p] = NotInDup]
      /\ count' = [count EXCEPT ![f] = dup[p].seen + 1]
      /\ files' = [files EXCEPT ![p] = Added(files[p], f)]
      /\ unheld' = IF f \in PipeEnds
                   THEN [unheld EXCEPT ![f] = @ + IsUnheld(files[p])] ELSE unheld
      /\ raced' = raced \cup {g \in {f} : \E q \in Procs \ {p} : dup[q].file = g}
      /\ UNCHANGED <<live, made, deleted, fileMap, closing, closed, again>>
  BY DEF EndDup, Races, exitVars
<1>3. PICK fd \in Fds : files[p][fd] = f
  BY <1>1 DEF DupHolds
<1>4. f \notin raced => dup[p].seen = count[f]
  BY <1>1 DEF DupHolds
<1> HIDE DEF f
<1>5. f \in made /\ Descriptors(f) > 0
  <2>1. Held[p] = files[p]
    BY <1>1, HeldIs DEF DupHolds
  <2> QED BY <1>1, <1>3, <2>1, SomeDescriptor DEF AllMade
<1> DEFINE u == IsUnheld(files[p])
<1>6. Got(p, f, u) /\ u \in {0, 1} /\ p \in live /\ closing[p] = NotClosing
  <2>1. p \in live /\ closing[p] = NotClosing
    BY <1>1 DEF Inv, DupHolds, ExitHolds
  <2> QED BY <1>1, <1>2, <2>1, GotFile DEF Got
<1>7. count'[f] = dup[p].seen + 1 /\ \A g \in Counted \ {f} : count'[g] = count[g]
  BY <1>1, <1>2 DEF TypeOK
<1>8. \A e \in PipeEnds : unheld'[e] = IF e = f THEN unheld[e] + u ELSE unheld[e]
  BY <1>1, <1>2 DEF TypeOK
<1> HIDE DEF u
<1>9. raced \subseteq raced' /\ \A q \in Procs \ {p} : dup[q].file = f => f \in raced'
  BY <1>2
<1>10. AllMade'
  <2>1. \A q \in Procs, x \in Fds : files'[q][x] \in Counted => files'[q][x] \in made'
    BY <1>1, <1>2, <1>5, <1>6 DEF AllMade, Got
  <2>2. \A q \in Procs : \A x \in closed'[q] : files'[q][x] \notin fileMap'
    BY <1>1, <1>2, <1>6 DEF AllMade, Got
  <2> QED BY <1>1, <1>2, <2>1, <2>2 DEF AllMade
<1>11. ASSUME NEW q \in Procs PROVE DupHolds(q)' /\ ExitHolds(q)'
  <2>1. dup'[p] = NotInDup /\ \A x \in Procs \ {p} : dup'[x] = dup[x]
    BY <1>1, <1>2 DEF TypeOK
  <2>2. \A x \in Procs \ {p} : dup[x] # NotInDup /\ dup[x].file \notin raced' =>
            count'[dup[x].file] = count[dup[x].file]
    BY <1>1, <1>7, <1>9 DEF TypeOK
  <2>3. ExitHolds(q)'
    BY <1>2, <1>6, <2>1, ExitsStay DEF Got
  <2>4. DupHolds(p)'
    BY <1>1, <1>2, <2>1 DEF DupHolds
  <2>5. \A x \in Procs \ {p} : DupHolds(x)'
    BY <1>2, <1>6, <1>9, <2>1, <2>2, OthersStay DEF Got
  <2> QED BY <2>3, <2>4, <2>5
<1>12. ASSUME f \notin raced'
       PROVE  count'[f] = count[f] + 1 /\ count[f] \in Int
  BY <1>1, <1>4, <1>7, <1>9, <1>12 DEF TypeOK
<1>13. ASSUME f \in PipeEnds, f \notin raced, again[f] = 0 PROVE count[f] > 0
  <2>1. count[f] = Descriptors(f) + unheld[f] - 0 /\ unheld[f] \in Nat
    BY <1>1, <1>5, <1>13 DEF Inv, EndCounted, TypeOK
  <2> QED BY <1>1, <1>5, <2>1, DescriptorsAre
<1>14. ASSUME NEW e \in PipeEnds PROVE EndCounted(e)' /\ EndDeleted(e)'
  <2>1. /\ EndCounted(e) /\ EndDeleted(e) /\ e \in Counted
        /\ OtherEnd(e) \in PipeEnds /\ OtherEnd(e) \in Counted /\ OtherEnd(e) # e
    BY FileTypes, Apart DEF Inv
  <2>2. Descriptors(e)' = Descriptors(e) + (IF e = f THEN 1 - u ELSE 0) /\ Descriptors(e) \in Nat
    BY <1>6, <2>1, DescriptorsAre DEF Got
  <2>3. unheld[e] \in Nat /\ again[e] \in Nat /\ again' = again
    BY <1>1, <1>2 DEF TypeOK
  <2>4. ASSUME e \in made', e \notin raced'
        PROVE  count'[e] = Descriptors(e)' + unheld'[e] - again'[e]
    <3>1. count[e] = Descriptors(e) + unheld[e] - again[e]
      BY <1>2, <1>9, <2>1, <2>4 DEF EndCounted
    <3>2. CASE e = f
      BY <1>6, <1>8, <1>12, <2>2, <2>3, <2>4, <3>1, <3>2
    <3>3. CASE e # f
      BY <1>7, <1>8, <2>1, <2>2, <2>3, <3>1, <3>3
    <3> QED BY <3>2, <3>3
  <2>5. ASSUME e \in made', e \notin raced', OtherEnd(e) \notin raced',
               again'[e] = 0, again'[OtherEnd(e)] = 0
        PROVE  e \in deleted' <=> count'[e] = 0 /\ count'[OtherEnd(e)] = 0
    <3>1. e \in deleted <=> count[e] = 0 /\ count[OtherEnd(e)] = 0
      BY <1>2, <1>9, <2>1, <2>5 DEF EndDeleted
    <3>2. CASE f \in {e, OtherEnd(e)}
      <4>1. count[f] > 0 /\ count'[f] = count[f] + 1 /\ count[f] \in Int
        BY <1>2, <1>9, <1>12, <1>13, <2>1, <2>5, <3>2
      <4>2. count[f] # 0 /\ count'[f] # 0
        BY <4>1
      <4> QED BY <1>2, <3>1, <3>2, <4>2
    <3>3. CASE f \notin {e, OtherEnd(e)}
      BY <1>2, <1>7, <2>1, <3>1, <3>3
    <3> QED BY <3>2, <3>3
  <2> QED BY <2>4, <2>5 DEF EndCounted, EndDeleted
<1>15. ASSUME NEW g \in RootFiles PROVE RootCounted(g)'
  <2>1. RootCounted(g) /\ g \in Counted
    BY FileTypes DEF Inv
  <2>2. Descriptors(g)' = Descriptors(g) + (IF g = f THEN 1 - u ELSE 0) /\ Descriptors(g) \in Nat
    BY <1>6, <2>1, DescriptorsAre DEF Got
  <2> SUFFICES ASSUME g \notin raced'
               PROVE  /\ g \in fileMap' => Descriptors(g)' <= count'[g] /\ g \notin deleted'
                      /\ g \in deleted' => Descriptors(g)' = 0
    BY DEF RootCounted
  <2>3. /\ g \in fileMap => Descriptors(g) <= count[g] /\ g \notin deleted
        /\ g \in deleted => Descriptors(g) = 0
    BY <1>9, <2>1 DEF RootCounted
  <2>4. count[g] \in Int /\ fileMap' = fileMap /\ deleted' = deleted
    BY <1>1, <1>2, <2>1 DEF TypeOK
  <2>5. CASE g = f
    <3>1. g \notin deleted
      BY <1>5, <2>3, <2>5
    <3>2. g \in fileMap => Descriptors(g)' <= count'[g]
      BY <1>6, <1>12, <2>2, <2>3, <2>4, <2>5
    <3> QED BY <2>4, <3>1, <3>2
  <2>6. CASE g # f
    <3>1. count'[g] = count[g] /\ Descriptors(g)' = Descriptors(g)
      BY <1>7, <2>1, <2>2, <2>6
    <3> QED BY <2>3, <2>4, <3>1
  <2> QED BY <2>5, <2>6
<1> QED BY <1>10, <1>11, <1>14, <1>15 DEF Inv

LEMMA StartDupKeeps ==
    ASSUME Inv, TypeOK', NEW p \in Procs, NEW fd \in Fds, StartDup(p, fd)
    PROVE  Inv'
<1> DEFINE f == files[p][fd]
<1>1. /\ raced = {} /\ p \in live /\ dup[p] = NotInDup /\ closing[p] = NotClosing
      /\ dup' = [dup EXCEPT ![p] = [file |-> f, seen |-> count[f]]]
      /\ UNCHANGED <<live, files, count, made, deleted, fileMap, closing, closed, again, unheld, raced>>
  BY DEF StartDup, Runs, Idle, ProcessorFree, exitVars
<1>2. dup'[p] = [file |-> f, seen |-> count[f]] /\ \A q \in Procs \ {p} : dup'[q] = dup[q]
  BY <1>1 DEF Inv, TypeOK
<1>3. \A g : Descriptors(g)' = Descriptors(g)
  BY <1>1 DEF Descriptors
<1>4. DupHolds(p)'
  BY <1>1, <1>2 DEF Inv, DupHolds
<1>5. \A q \in Procs \ {p} : DupHolds(q)'
  BY <1>1, <1>2, OthersStay
<1>6. \A q \in Procs : ExitHolds(q)'
  BY <1>1, <1>2, ExitsStay
<1>7. AllMade'
  BY <1>1 DEF Inv, AllMade
<1>8. \A e \in PipeEnds : EndCounted(e)' /\ EndDeleted(e)'
  BY <1>1, <1>3 DEF Inv, EndCounted, EndDeleted
<1>9. \A g \in RootFiles : RootCounted(g)'
  BY <1>1, <1>3 DEF Inv, RootCounted
<1> QED BY <1>4, <1>5, <1>6, <1>7, <1>8, <1>9 DEF Inv

LEMMA DupTerminalKeeps ==
    ASSUME Inv, TypeOK', NEW p \in Procs, NEW fd \in Fds, DupTerminal(p, fd)
    PROVE  Inv'
<1>1. /\ raced = {} /\ p \in live /\ dup[p] = NotInDup /\ closing[p] = NotClosing /\ TypeOK /\ AllMade
      /\ files' = [files EXCEPT ![p] = Added(files[p], Terminal)]
      /\ UNCHANGED <<live, count, made, deleted, fileMap, dup, closing, closed, again, unheld, raced>>
  BY DEF DupTerminal, Runs, Idle, ProcessorFree, exitVars, Inv
<1>2. Terminal \in Files /\ Terminal \notin Counted
  BY FileTypes, Apart
<1>3. PICK u : Got(p, Terminal, u)
  BY <1>1, <1>2, GotFile
<1>4. \A g \in Counted : Descriptors(g)' = Descriptors(g)
  <2>1. \A g \in Counted : Descriptors(g)' = Descriptors(g) + 0 /\ Descriptors(g) \in Nat
    BY <1>2, <1>3, DescriptorsAre DEF Got
  <2> QED BY <2>1
<1>5. DupHolds(p)'
  BY <1>1 DEF Inv, DupHolds
<1>6. \A q \in Procs \ {p} : DupHolds(q)'
  BY <1>1, <1>3, OthersStay DEF Got
<1>7. \A q \in Procs : ExitHolds(q)'
  BY <1>1, <1>3, ExitsStay DEF Got
<1>8. AllMade'
  <2>1. \A q \in Procs, x \in Fds : files'[q][x] \in Counted => files'[q][x] \in made'
    BY <1>1, <1>2, <1>3 DEF AllMade, Got
  <2>2. \A q \in Procs : \A x \in closed'[q] : files'[q][x] \notin fileMap'
    BY <1>1, <1>3 DEF AllMade, Got
  <2> QED BY <1>1, <2>1, <2>2 DEF AllMade
<1>9. \A e \in PipeEnds : EndCounted(e)' /\ EndDeleted(e)'
  BY <1>1, <1>4, FileTypes DEF Inv, EndCounted, EndDeleted
<1>10. \A g \in RootFiles : RootCounted(g)'
  BY <1>1, <1>4, FileTypes DEF Inv, RootCounted
<1> QED BY <1>5, <1>6, <1>7, <1>8, <1>9, <1>10 DEF Inv

-----------------------------------------------------------------------------
LEMMA HeldTimes ==
    ASSUME TypeOK, NEW q \in Procs, NEW f \in Counted
    PROVE  Times(files[q], Fds \ closed[q], f) = Times(Held[q], Fds, f)
<1>1. {fd \in Fds : Held[q][fd] = f} = {fd \in Fds \ closed[q] : files[q][fd] = f}
  BY HeldIs, Apart
<1> QED BY <1>1, Zenon DEF Times

\* The child's new table replaces what an exit that failed had left to it; each count grows
\* by the descriptors that the child gets.
LEMMA ForkKeeps ==
    ASSUME Inv, TypeOK', NEW p \in Procs, NEW child \in Procs, Fork(p, child)
    PROVE  Inv'
<1> DEFINE t == Copied(files[p])
           T(f) == Times(files[p], Fds, f)
           L(f) == Times(Held[child], Fds, f)
<1>1. /\ raced = {} /\ p \in live /\ dup[p] = NotInDup /\ TypeOK /\ AllMade
      /\ child \notin live /\ child # p
      /\ dup[child] = NotInDup /\ \A c \in Procs : closing[c].of # child
      /\ live' = live \cup {child}
      /\ files' = [files EXCEPT ![child] = t]
      /\ count' = Shared(files[p])
      /\ closed' = [closed EXCEPT ![child] = {}]
      /\ raced' = {f \in Counted : count'[f] # count[f] /\ \E q \in Procs \ {p} : dup[q].file = f}
      /\ UNCHANGED <<made, deleted, fileMap, dup, closing, again>>
  BY DEF Fork, RunsLocked, Runs, Idle, ProcessorFree, Races, Inv
<1>2. \A e \in PipeEnds : unheld'[e] = unheld[e] + L(e)
  <2>1. \A e \in PipeEnds :
            unheld'[e] = unheld[e] + Times(files[child], Fds \ closed[child], e)
    BY DEF Fork
  <2> QED BY <1>1, <2>1, HeldTimes, FileTypes
<1>3. /\ files \in [Procs -> Tables] /\ files[p] \in Tables /\ Held[p] = files[p]
      /\ Held \in [Procs -> Tables] /\ t \in Tables
  <2>1. Held[p] = files[p]
    BY <1>1, HeldIs DEF Inv, DupHolds
  <2> QED BY <1>1, <2>1, HeldIs, NewTableType DEF Copied, Tables
<1>4. /\ \A g \in Counted : Times(t, Fds, g) = T(g)
      /\ \A fd \in Fds : t[fd] \in Counted => t[fd] = files[p][fd]
  BY <1>3, CopiedIs
<1> HIDE DEF t
<1>5. /\ files'[child] = t /\ closed'[child] = {}
      /\ \A q \in Procs \ {child} : files'[q] = files[q] /\ closed'[q] = closed[q]
  BY <1>1, <1>3 DEF TypeOK
<1>6. Changed(Held', Held, child, t)
  <2>1. Held' \in [Procs -> Tables]
    BY DEF TypeOK, Held, Cleared, Tables
  <2>2. Held'[child] = t
    BY <1>3, <1>5 DEF Held, Cleared, Tables
  <2>3. \A q \in Procs \ {child} : Held'[q] = Held[q]
    BY <1>5 DEF Held
  <2> QED BY <1>3, <2>1, <2>2, <2>3 DEF Changed
<1>7. ASSUME NEW f \in Counted
      PROVE  /\ count'[f] = count[f] + T(f)
             /\ Descriptors(f)' = Descriptors(f) - L(f) + T(f)
             /\ T(f) \in Nat /\ L(f) \in Nat /\ Descriptors(f) \in Nat /\ count[f] \in Int
             /\ T(f) <= Descriptors(f) /\ L(f) <= Descriptors(f)
  <2>1. Cardinality(DescOf(Held', f)) =
            Cardinality(DescOf(Held, f)) - Times(Held[child], Fds, f) + Times(t, Fds, f)
    BY <1>6, DescChanged
  <2>2. /\ T(f) \in Nat /\ L(f) \in Nat /\ Descriptors(f) \in Nat /\ count[f] \in Int
    BY <1>1, TimesFinite, DescriptorsAre DEF TypeOK
  <2>3. T(f) <= Descriptors(f) /\ L(f) <= Descriptors(f)
    BY <1>1, <1>3, HasAtMost
  <2>4. Descriptors(f)' = Descriptors(f) - Times(Held[child], Fds, f) + Times(t, Fds, f)
    BY <2>1, DescriptorsAre, Zenon
  <2>5. count'[f] = count[f] + T(f)
    BY <1>1 DEF Shared
  <2>6. Times(t, Fds, f) = T(f)
    BY <1>4
  <2>7. Descriptors(f)' = Descriptors(f) - L(f) + T(f)
    BY <2>4, <2>6
  <2> QED BY <2>2, <2>3, <2>5, <2>7
<1> HIDE DEF T, L
<1>8. AllMade'
  <2>1. ASSUME NEW q \in Procs, NEW fd \in Fds, files'[q][fd] \in Counted
        PROVE  files'[q][fd] \in made'
    <3>1. CASE q = child
      BY <1>1, <1>4, <1>5, <2>1, <3>1 DEF AllMade
    <3>2. CASE q # child
      BY <1>1, <1>5, <2>1, <3>2 DEF AllMade
    <3> QED BY <3>1, <3>2
  <2>2. ASSUME NEW q \in Procs, NEW fd \in closed'[q] PROVE files'[q][fd] \notin fileMap'
    <3>1. q # child
      BY <1>5, <2>2
    <3> QED BY <1>1, <1>5, <2>2, <3>1 DEF AllMade
  <2> QED BY <1>1, <2>1, <2>2 DEF AllMade
<1>9. DupHolds(child)'
  BY <1>1, <1>5 DEF DupHolds
<1>10. \A q \in Procs \ {child} : DupHolds(q)'
  <2>1. \A q \in Procs \ {child} : /\ files'[q] = files[q] /\ closed'[q] = closed[q]
                                   /\ dup'[q] = dup[q] /\ (q \in live' <=> q \in live)
    BY <1>1, <1>5
  <2>2. ASSUME NEW q \in Procs, dup[q] # NotInDup, dup[q].file \notin raced'
        PROVE  count'[dup[q].file] = count[dup[q].file]
    <3>1. q # p /\ dup[q].file \in Counted
      BY <1>1, <2>2 DEF TypeOK
    <3> QED BY <1>1, <2>2, <3>1
  <2> QED BY <1>1, <2>1, <2>2, OthersStay
<1>11. ASSUME NEW c \in Procs, closing[c] # NotClosing PROVE ExitHolds(c)'
  <2>1. /\ ExitHolds(c) /\ closing[c].of \in Procs \ {child}
    BY <1>1, <1>11 DEF Inv, TypeOK
  <2>2. Held'[closing[c].of] = Held[closing[c].of]
    BY <1>6, <2>1 DEF Changed
  <2> QED BY <1>1, <2>1, <2>2 DEF ExitHolds
<1>12. \A c \in Procs : ExitHolds(c)'
  BY <1>1, <1>11 DEF ExitHolds
<1>13. ASSUME NEW e \in PipeEnds, e \in made
       PROVE  /\ count[e] = Descriptors(e) + unheld[e] - again[e]
              /\ unheld[e] \in Nat /\ again[e] \in Nat
              /\ unheld'[e] = unheld[e] + L(e) /\ again'[e] = again[e]
              /\ count'[e] = count[e] + T(e)
              /\ Descriptors(e)' = Descriptors(e) - L(e) + T(e)
              /\ T(e) \in Nat /\ L(e) \in Nat /\ Descriptors(e) \in Nat
              /\ T(e) <= Descriptors(e) /\ L(e) <= Descriptors(e)
  <2>1. e \in Counted /\ EndCounted(e)
    BY FileTypes DEF Inv
  <2>2. count[e] = Descriptors(e) + unheld[e] - again[e] /\ unheld[e] \in Nat /\ again[e] \in Nat
    BY <1>1, <1>13, <2>1 DEF EndCounted, TypeOK
  <2> QED BY <1>1, <1>2, <1>7, <2>1, <2>2
<1>14. ASSUME NEW e \in PipeEnds PROVE EndCounted(e)' /\ EndDeleted(e)'
  <2> DEFINE o == OtherEnd(e)
  <2>1. ASSUME e \in made' PROVE count'[e] = Descriptors(e)' + unheld'[e] - again'[e]
    BY <1>1, <1>13, <2>1
  <2>2. ASSUME e \in made', again'[e] = 0, again'[o] = 0
        PROVE  e \in deleted' <=> count'[e] = 0 /\ count'[o] = 0
    <3>1. o \in PipeEnds /\ o \in made /\ e \in made
      BY <1>1, <2>2, FileTypes DEF AllMade
    <3>2. e \in deleted <=> count[e] = 0 /\ count[o] = 0
      BY <1>1, <2>2, <3>1 DEF Inv, EndDeleted
    <3> HIDE DEF o
    <3>3. ASSUME NEW x \in {e, o} PROVE count'[x] = 0 <=> count[x] = 0
      <4>1. x \in PipeEnds /\ x \in made /\ again'[x] = 0
        BY <2>2, <3>1, <3>3
      <4>2. /\ count[x] = Descriptors(x) + unheld[x] - again[x]
            /\ unheld[x] \in Nat /\ again'[x] = again[x]
            /\ count'[x] = count[x] + T(x)
            /\ T(x) \in Nat /\ Descriptors(x) \in Nat /\ T(x) <= Descriptors(x)
        BY <1>13, <4>1
      <4> QED BY <4>1, <4>2
    <3> QED BY <1>1, <3>2, <3>3
  <2> QED BY <2>1, <2>2 DEF EndCounted, EndDeleted
<1>15. ASSUME NEW g \in RootFiles PROVE RootCounted(g)'
  <2>1. RootCounted(g) /\ g \in Counted
    BY FileTypes DEF Inv
  <2>2. /\ g \in fileMap => Descriptors(g) <= count[g] /\ g \notin deleted
        /\ g \in deleted => Descriptors(g) = 0
    BY <1>1, <2>1 DEF RootCounted
  <2>3. /\ g \in fileMap => Descriptors(g)' <= count'[g] /\ g \notin deleted
        /\ g \in deleted => Descriptors(g)' = 0
    BY <1>7, <2>1, <2>2
  <2> QED BY <1>1, <2>3 DEF RootCounted
<1> QED BY <1>8, <1>9, <1>10, <1>12, <1>14, <1>15 DEF Inv
-----------------------------------------------------------------------------
\* The close of a descriptor of q, by q or by p that ends q: what becomes of the counts.
\* It is closed for the first time, or again after an exit that failed.
ClosedFirst(q, fd) ==
    fd \notin closed[q] /\ Changed(Held', Held, q, Cleared(Held[q], {fd})) /\ again' = again
ClosedAgain(q, fd) ==
    LET f == files[q][fd] IN
    /\ fd \in closed[q] /\ Held' = Held
    /\ again' = IF f \in PipeEnds THEN [again EXCEPT ![f] = @ + 1] ELSE again

LEMMA ClosesCounts ==
    ASSUME Inv, raced = {}, NEW p \in Procs, dup[p] = NotInDup, NEW q \in Procs, NEW fd \in Fds,
           files[q][fd] # NoFile, Closes(p, files[q][fd]),
           ClosedFirst(q, fd) \/ ClosedAgain(q, fd),
           UNCHANGED <<made, unheld>>
    PROVE  /\ \A e \in PipeEnds : EndCounted(e)' /\ EndDeleted(e)'
           /\ \A g \in RootFiles : RootCounted(g)'
           /\ deleted' \subseteq made
           /\ \A x \in Procs : dup[x] # NotInDup /\ dup[x].file \notin raced' =>
                                   count'[dup[x].file] = count[dup[x].file]
<1> DEFINE f == files[q][fd]
           first == fd \notin closed[q]
           one(g) == IF g = f THEN 1 ELSE 0
<1>1. /\ TypeOK /\ AllMade /\ f \in Files /\ f \notin deleted /\ f # NoFile
      /\ fileMap \subseteq RootFiles
      /\ \A g \in Counted : count'[g] = IF g = f /\ g \in PipeEnds \cup fileMap
                                        THEN count[g] - 1 ELSE count[g]
      /\ deleted' = deleted \cup Gone(f) /\ fileMap' = fileMap \ {f}
      /\ raced' = {g \in (PipeEnds \cup fileMap) \cap {f} : \E x \in Procs \ {p} : dup[x].file = g}
  BY DEF Inv, Closes, Races, TypeOK
<1>2. f \in Counted => f \in made
  BY <1>1 DEF AllMade
<1>3. first => Held[q][fd] = f
  BY <1>1, HeldIs
<1>4. first /\ f \in Counted => Descriptors(f) > 0
  BY <1>3, SomeDescriptor
<1>5. ASSUME NEW g \in Counted
      PROVE  /\ Descriptors(g) \in Nat
             /\ Descriptors(g)' = Descriptors(g) - (IF first THEN one(g) ELSE 0)
  <2>1. Descriptors(g) \in Nat /\ g # NoFile
    BY DescriptorsAre, Apart
  <2>2. CASE first
    <3> DEFINE h == Held[q]
               k == Cleared(h, {fd})
    <3>1. Cardinality(DescOf(Held', g)) =
              Cardinality(DescOf(Held, g)) - Times(h, Fds, g) + Times(k, Fds, g)
      BY <2>2, DescChanged DEF ClosedFirst, ClosedAgain
    <3>2. Descriptors(g)' = Descriptors(g) - Times(h, Fds, g) + Times(k, Fds, g)
      BY <3>1, DescriptorsAre, Zenon
    <3>3. h \in Tables
      BY <1>1, HeldIs
    <3>4. Times(k, Fds, g) = Times(h, Fds, g) - Times(h, {fd}, g)
      BY <2>1, <3>3, ClearedIs
    <3>5. Times(h, {fd}, g) = one(g)
      <4>1. CASE g = f
        <5>1. {x \in {fd} : h[x] = g} = {fd}
          BY <1>3, <2>2, <4>1
        <5> QED BY <4>1, <5>1, FS_Singleton DEF Times
      <4>2. CASE g # f
        <5>1. {x \in {fd} : h[x] = g} = {}
          BY <1>3, <2>2, <4>2
        <5> QED BY <4>2, <5>1, FS_EmptySet DEF Times
      <4> QED BY <4>1, <4>2
    <3>6. Times(h, Fds, g) \in Nat
      BY TimesFinite
    <3> HIDE DEF h, k
    <3> QED BY <2>1, <2>2, <3>2, <3>4, <3>5, <3>6
  <2>3. CASE ~first
    <3>1. Held' = Held
      BY <2>3 DEF ClosedFirst, ClosedAgain
    <3>2. Cardinality(DescOf(Held', g)) = Cardinality(DescOf(Held, g))
      BY <3>1 DEF DescOf
    <3>3. Descriptors(g)' = Descriptors(g)
      BY <3>2, DescriptorsAre, Zenon
    <3> QED BY <2>1, <2>3, <3>3
  <2> QED BY <2>2, <2>3
<1>6. ASSUME NEW e \in PipeEnds
      PROVE  /\ again[e] \in Nat /\ unheld[e] \in Nat /\ count[e] \in Int /\ unheld'[e] = unheld[e]
             /\ again'[e] = again[e] + (IF first THEN 0 ELSE one(e))
             /\ count'[e] = count[e] - one(e)
  <2>1. e \in Counted /\ again[e] \in Nat /\ unheld[e] \in Nat /\ count[e] \in Int
    BY <1>1, FileTypes DEF TypeOK
  <2>2. again'[e] = again[e] + (IF first THEN 0 ELSE one(e))
    <3>1. CASE first
      BY <2>1, <3>1 DEF ClosedFirst, ClosedAgain
    <3>2. CASE ~first
      BY <1>1, <2>1, <3>2 DEF ClosedFirst, ClosedAgain, TypeOK
    <3> QED BY <3>1, <3>2
  <2> QED BY <1>1, <2>1, <2>2
<1>7. ASSUME NEW e \in PipeEnds
      PROVE  e \in Gone(f) <=> /\ f \in {e, OtherEnd(e)}
                               /\ count[f] = 1 /\ count[OtherEnd(f)] = 0
  BY <1>1, Apart DEF Gone
<1>8. ASSUME NEW g \in RootFiles
      PROVE  g \in Gone(f) <=> g \in fileMap /\ g = f /\ count[f] = 1
  BY Apart DEF Gone
<1>9. ASSUME NEW e \in PipeEnds PROVE EndCounted(e)' /\ EndDeleted(e)'
  <2> DEFINE o == OtherEnd(e)
  <2>1. /\ EndCounted(e) /\ EndDeleted(e) /\ e \in Counted
        /\ o \in PipeEnds /\ o # e /\ OtherEnd(o) = e /\ e # NoFile
    BY FileTypes, Apart DEF Inv
  <2>2. ASSUME e \in made' PROVE count'[e] = Descriptors(e)' + unheld'[e] - again'[e]
    <3>1. count[e] = Descriptors(e) + unheld[e] - again[e]
      BY <2>1, <2>2 DEF EndCounted
    <3>2. one(e) \in {0, 1}
      OBVIOUS
    <3>3. /\ Descriptors(e) \in Nat
          /\ Descriptors(e)' = Descriptors(e) - (IF first THEN one(e) ELSE 0)
      BY <1>5, <2>1
    <3>4. /\ again[e] \in Nat /\ unheld[e] \in Nat /\ count[e] \in Int /\ unheld'[e] = unheld[e]
          /\ again'[e] = again[e] + (IF first THEN 0 ELSE one(e))
          /\ count'[e] = count[e] - one(e)
      BY <1>6
    <3> HIDE DEF one, first
    <3> QED BY <3>1, <3>2, <3>3, <3>4
  <2>3. ASSUME e \in made', again'[e] = 0, again'[o] = 0
        PROVE  e \in deleted' <=> count'[e] = 0 /\ count'[o] = 0
    <3>1. e \in made /\ o \in made
      BY <1>1, <2>1, <2>3 DEF AllMade
    <3>2. again[e] = 0 /\ again[o] = 0
      BY <1>6, <2>1, <2>3
    <3>3. e \in deleted <=> count[e] = 0 /\ count[o] = 0
      BY <2>1, <3>1, <3>2 DEF EndDeleted
    <3>4. o \in deleted <=> count[e] = 0 /\ count[o] = 0
      BY <2>1, <3>1, <3>2 DEF Inv, EndDeleted
    <3>5. CASE f \in {e, o}
      <4>1. first
        BY <1>6, <2>1, <2>3, <3>2, <3>5
      <4>2. f \in PipeEnds /\ f \in Counted /\ f \in made /\ again[f] = 0
            /\ OtherEnd(f) \in {e, o} /\ OtherEnd(f) # f
        BY <2>1, <3>1, <3>2, <3>5, FileTypes
      <4>3. count[f] = Descriptors(f) + unheld[f] - 0 /\ unheld[f] \in Nat
        BY <1>6, <4>2 DEF Inv, EndCounted
      <4>4. count[f] >= 1 /\ count[f] \in Int
        BY <1>4, <1>5, <4>1, <4>2, <4>3
      <4>5. count'[f] = count[f] - 1 /\ count'[OtherEnd(f)] = count[OtherEnd(f)] - 0
            /\ count[OtherEnd(f)] \in Int
        BY <1>6, <2>1, <4>2
      <4>6. e \in deleted' <=> count[f] = 1 /\ count[OtherEnd(f)] = 0
        BY <1>1, <1>7, <3>3, <3>4, <3>5
      <4>7. count'[f] = 0 /\ count'[OtherEnd(f)] = 0 <=> count[f] = 1 /\ count[OtherEnd(f)] = 0
        BY <4>4, <4>5
      <4>8. count'[e] = 0 /\ count'[o] = 0 <=> count'[f] = 0 /\ count'[OtherEnd(f)] = 0
        BY <2>1, <3>5
      <4> QED BY <4>6, <4>7, <4>8
    <3>6. CASE f \notin {e, o}
      <4>1. count'[e] = count[e] - 0 /\ count'[o] = count[o] - 0
            /\ count[e] \in Int /\ count[o] \in Int
        BY <1>6, <2>1, <3>6
      <4>2. e \in deleted' <=> e \in deleted
        BY <1>1, <1>7, <3>6
      <4> QED BY <3>3, <4>1, <4>2
    <3> QED BY <3>5, <3>6
  <2> QED BY <2>2, <2>3 DEF EndCounted, EndDeleted
<1>10. ASSUME NEW g \in RootFiles PROVE RootCounted(g)'
  <2>1. /\ g \in Counted /\ g \notin PipeEnds /\ count[g] \in Int
        /\ g \in fileMap => Descriptors(g) <= count[g] /\ g \notin deleted
        /\ g \in deleted => Descriptors(g) = 0
    BY <1>1, FileTypes, Apart DEF Inv, RootCounted, TypeOK
  <2>2. CASE g = f
    <3>1. ASSUME g \in deleted' PROVE Descriptors(g)' = 0
      <4>1. g \in fileMap /\ count[g] = 1
        BY <1>1, <1>8, <2>2, <3>1
      <4>2. first
        BY <1>1, <2>2, <4>1 DEF AllMade
      <4>3. Descriptors(g)' = Descriptors(g) - 1 /\ Descriptors(g) \in Nat /\ Descriptors(g) > 0
        BY <1>4, <1>5, <2>1, <2>2, <4>2
      <4> QED BY <2>1, <4>1, <4>3
    <3>2. g \notin fileMap'
      BY <1>1, <2>2
    <3> QED BY <3>1, <3>2 DEF RootCounted
  <2>3. CASE g # f
    <3>1. Descriptors(g)' = Descriptors(g) - 0 /\ Descriptors(g) \in Nat
      BY <1>5, <2>1, <2>3
    <3>2. count'[g] = count[g] /\ (g \in fileMap' <=> g \in fileMap) /\ (g \in deleted' <=> g \in deleted)
      BY <1>1, <1>8, <2>1, <2>3
    <3> QED BY <2>1, <3>1, <3>2 DEF RootCounted
  <2> QED BY <2>2, <2>3
<1>11. deleted' \subseteq made
  <2>1. ASSUME NEW g \in Gone(f) PROVE g \in made
    <3>1. g \in fileMap => g \in made
      BY <1>1 DEF AllMade
    <3>2. g \notin fileMap => g \in PipeEnds /\ f \in {g, OtherEnd(g)}
      BY <2>1 DEF Gone
    <3>3. g \in PipeEnds /\ f \in {g, OtherEnd(g)} => g \in made
      BY <1>1, <1>2, FileTypes DEF AllMade
    <3> QED BY <3>1, <3>2, <3>3
  <2> QED BY <1>1, <2>1 DEF AllMade
<1>12. ASSUME NEW x \in Procs, dup[x] # NotInDup, dup[x].file \notin raced'
       PROVE  count'[dup[x].file] = count[dup[x].file]
  <2>1. x # p /\ dup[x].file \in Counted
    BY <1>1, <1>12 DEF TypeOK
  <2> QED BY <1>1, <1>12, <2>1
<1> QED BY <1>9, <1>10, <1>11, <1>12
LEMMA CloseKeeps ==
    ASSUME Inv, TypeOK', NEW p \in Procs, NEW fd \in Fds, Close(p, fd)
    PROVE  Inv'
<1> DEFINE f == files[p][fd]
           t == Cleared(files[p], {fd})
<1>1. /\ raced = {} /\ p \in live /\ dup[p] = NotInDup /\ closing[p] = NotClosing
      /\ TypeOK /\ AllMade /\ f # NoFile /\ Closes(p, f)
      /\ files' = [files EXCEPT ![p][fd] = NoFile]
      /\ UNCHANGED <<live, made, dup, closing, closed, again, unheld>>
  BY DEF Close, RunsLocked, Runs, Idle, ProcessorFree, exitVars, Inv
<1>2. files \in [Procs -> Tables] /\ files[p] \in Tables /\ closed[p] = {} /\ Held[p] = files[p]
  BY <1>1, HeldIs DEF Inv, DupHolds
<1>3. t \in Tables /\ files' = [files EXCEPT ![p] = t]
  BY <1>1, <1>2 DEF Cleared, Tables
<1>4. \A x \in Fds : t[x] = NoFile \/ t[x] = files[p][x]
  BY DEF Cleared
<1>5. /\ Changed(Held', Held, p, t)
      /\ \A q \in Procs \ {p} : files'[q] = files[q]
      /\ \A x \in Fds : files'[p][x] = t[x]
      /\ \A q \in Procs : \A x \in closed'[q] : files'[q][x] = files[q][x]
  BY <1>1, <1>3, TableChanges
<1>6. ClosedFirst(p, fd)
  BY <1>1, <1>2, <1>5 DEF ClosedFirst
<1>7. /\ \A e \in PipeEnds : EndCounted(e)' /\ EndDeleted(e)'
      /\ \A g \in RootFiles : RootCounted(g)'
      /\ deleted' \subseteq made
      /\ \A x \in Procs : dup[x] # NotInDup /\ dup[x].file \notin raced' =>
                              count'[dup[x].file] = count[dup[x].file]
  BY <1>1, <1>6, ClosesCounts
<1> HIDE DEF t
<1>8. fileMap' \subseteq fileMap
  BY <1>1 DEF Closes
<1>9. AllMade'
  <2>1. ASSUME NEW q \in Procs, NEW x \in Fds, files'[q][x] \in Counted
        PROVE  files'[q][x] \in made'
    <3>1. CASE q = p
      BY <1>1, <1>4, <1>5, <2>1, <3>1, Apart DEF AllMade
    <3>2. CASE q # p
      BY <1>1, <1>5, <2>1, <3>2 DEF AllMade
    <3> QED BY <3>1, <3>2
  <2>2. \A q \in Procs : \A x \in closed'[q] : files'[q][x] \notin fileMap'
    BY <1>1, <1>5, <1>8 DEF AllMade
  <2> QED BY <1>1, <1>7, <1>8, <2>1, <2>2 DEF AllMade
<1>10. DupHolds(p)'
  BY <1>1, <1>2 DEF DupHolds
<1>11. \A q \in Procs \ {p} : DupHolds(q)'
  BY <1>1, <1>5, <1>7, OthersStay
<1>12. \A c \in Procs : ExitHolds(c)'
  BY <1>1, <1>5, ExitsStay
<1> QED BY <1>7, <1>9, <1>10, <1>11, <1>12 DEF Inv

\* The process that is to be ended is no longer one that there is, and none of its files
\* has been closed.
LEMMA ExitKeeps ==
    ASSUME Inv, TypeOK', NEW p \in Procs, NEW q \in Procs, Exit(p, q)
    PROVE  Inv'
<1>1. /\ raced = {} /\ dup[p] = NotInDup /\ dup[q] = NotInDup /\ TypeOK
      /\ live' = live \ {q}
      /\ closing' = [closing EXCEPT ![p] = [of |-> q, next |-> 0]]
      /\ UNCHANGED <<files, count, made, deleted, fileMap, dup, closed, unheld, again, raced>>
  BY DEF Exit, RunsLocked, Runs, Idle, ProcessorFree, Inv
<1>2. \A g : Descriptors(g)' = Descriptors(g)
  BY <1>1 DEF Descriptors
<1>3. DupHolds(q)'
  BY <1>1 DEF DupHolds
<1>4. \A x \in Procs \ {q} : DupHolds(x)'
  BY <1>1, OthersStay
<1>5. ASSUME NEW c \in Procs PROVE ExitHolds(c)'
  <2>1. CASE c = p
    <3>1. closing'[c] = [of |-> q, next |-> 0]
      BY <1>1, <2>1 DEF TypeOK
    <3>2. \A fd \in Fds : ~ (fd < 0)
      BY FileTablesAssumption DEF Fds
    <3> QED BY <1>1, <2>1, <3>1, <3>2 DEF ExitHolds
  <2>2. CASE c # p
    <3>1. closing'[c] = closing[c] /\ Held' = Held
      BY <1>1, <2>2 DEF TypeOK, Held
    <3> QED BY <1>1, <3>1 DEF Inv, ExitHolds
  <2> QED BY <2>1, <2>2
<1>6. AllMade'
  BY <1>1 DEF Inv, AllMade
<1>7. \A e \in PipeEnds : EndCounted(e)' /\ EndDeleted(e)'
  BY <1>1, <1>2 DEF Inv, EndCounted, EndDeleted
<1>8. \A g \in RootFiles : RootCounted(g)'
  BY <1>1, <1>2 DEF Inv, RootCounted
<1> QED BY <1>3, <1>4, <1>5, <1>6, <1>7, <1>8 DEF Inv

\* One turn of CloseFiles: p ends q.
LEMMA CloseNextKeeps ==
    ASSUME Inv, TypeOK', NEW p \in Procs, CloseNext(p)
    PROVE  Inv'
<1>0. PICK q \in Procs : q = closing[p].of
  BY DEF CloseNext, InExit, Inv, TypeOK
<1> DEFINE fd == closing[p].next
           f == files[q][fd]
<1>1. /\ raced = {} /\ closing[p] # NotClosing /\ TypeOK /\ AllMade /\ fd \in Fds /\ fd \in Int
      /\ closing' = [closing EXCEPT ![p].next = @ + 1]
      /\ UNCHANGED <<live, files, made, dup, unheld>>
  BY FileTablesAssumption DEF CloseNext, InExit, ProcessorFree, Inv, Fds
<1>2. IF f = NoFile
      THEN UNCHANGED <<count, deleted, fileMap, closed, again, raced>>
      ELSE /\ Closes(p, f)
           /\ closed' = [closed EXCEPT ![q] = @ \cup {fd}]
           /\ again' = IF f \in PipeEnds /\ fd \in closed[q]
                       THEN [again EXCEPT ![f] = @ + 1] ELSE again
  BY <1>0 DEF CloseNext
<1>3. ExitHolds(p) /\ q \in Procs /\ closing[p] \in [of : Procs, next : 0 .. MaxOpenFiles]
  BY <1>1 DEF Inv, TypeOK
<1>4. dup[p] = NotInDup /\ q \notin live /\ \A x \in Fds : x < fd => Held[q][x] = NoFile
  BY <1>0, <1>1, <1>3 DEF ExitHolds
<1>5. /\ closing'[p] = [of |-> q, next |-> fd + 1]
      /\ \A c \in Procs \ {p} : closing'[c] = closing[c]
  BY <1>0, <1>1, <1>3 DEF TypeOK
<1>6. DupHolds(q)'
  BY <1>1, <1>3, <1>4 DEF Inv, DupHolds
<1>7. Held[q][fd] = NoFile \/ f # NoFile
  BY <1>1, <1>3, HeldIs
<1> HIDE DEF fd, f
<1>8. ASSUME \A r \in Procs, x \in Fds : Held[r][x] = NoFile => Held'[r][x] = NoFile,
             Held'[q][fd] = NoFile
      PROVE  \A c \in Procs : ExitHolds(c)'
  <2>1. ExitHolds(p)'
    <3>1. ASSUME NEW x \in Fds, x < fd + 1 PROVE Held'[q][x] = NoFile
      <4>1. x < fd \/ x = fd
        BY <1>1, <3>1, FileTablesAssumption DEF Fds
      <4> QED BY <1>3, <1>4, <1>8, <4>1
    <3> QED BY <1>1, <1>4, <1>5, <3>1 DEF ExitHolds
  <2>2. ASSUME NEW c \in Procs \ {p}, closing[c] # NotClosing PROVE ExitHolds(c)'
    <3>1. closing[c].of \in Procs /\ ExitHolds(c) /\ closing'[c] = closing[c]
      BY <1>1, <1>5, <2>2 DEF Inv, TypeOK
    <3> QED BY <1>1, <1>8, <2>2, <3>1 DEF ExitHolds
  <2>3. \A c \in Procs \ {p} : closing[c] = NotClosing => ExitHolds(c)'
    BY <1>5 DEF ExitHolds
  <2> QED BY <2>1, <2>2, <2>3
<1>9. CASE f = NoFile
  <2>1. UNCHANGED <<count, deleted, fileMap, closed, again, raced>>
    BY <1>2, <1>9
  <2>2. Held' = Held /\ \A g : Descriptors(g)' = Descriptors(g)
    BY <1>1, <2>1 DEF Held, Descriptors
  <2>3. \A c \in Procs : ExitHolds(c)'
    BY <1>7, <1>8, <1>9, <2>2
  <2>4. \A x \in Procs : DupHolds(x)'
    BY <1>1, <2>1 DEF Inv, DupHolds
  <2>5. AllMade'
    BY <1>1, <2>1 DEF AllMade
  <2>6. \A e \in PipeEnds : EndCounted(e)' /\ EndDeleted(e)'
    BY <1>1, <2>1, <2>2 DEF Inv, EndCounted, EndDeleted
  <2>7. \A g \in RootFiles : RootCounted(g)'
    BY <1>1, <2>1, <2>2 DEF Inv, RootCounted
  <2> QED BY <2>3, <2>4, <2>5, <2>6, <2>7 DEF Inv
<1>10. CASE f # NoFile
  <2>1. /\ Closes(p, f)
        /\ closed' = [closed EXCEPT ![q] = @ \cup {fd}]
        /\ again' = IF f \in PipeEnds /\ fd \in closed[q]
                    THEN [again EXCEPT ![f] = @ + 1] ELSE again
    BY <1>2, <1>10
  <2>2. closed'[q] = closed[q] \cup {fd} /\ \A r \in Procs \ {q} : closed'[r] = closed[r]
    BY <1>1, <1>3, <2>1 DEF TypeOK
  <2>3. /\ Held \in [Procs -> Tables] /\ Held' \in [Procs -> Tables]
        /\ \A r \in Procs, x \in Fds :
               Held'[r][x] = IF x \in closed'[r] THEN NoFile ELSE files[r][x]
    <3>1. /\ Held \in [Procs -> Tables] /\ files \in [Procs -> Tables]
      BY <1>1, HeldIs
    <3>2. Held' \in [Procs -> Tables]
      BY <1>1, <3>1 DEF Held, Cleared, Tables
    <3>3. \A r \in Procs, x \in Fds :
              Held'[r][x] = IF x \in closed'[r] THEN NoFile ELSE files[r][x]
      BY <1>1 DEF Held, Cleared
    <3> QED BY <3>1, <3>2, <3>3
  <2>4. \A r \in Procs, x \in Fds : Held[r][x] = IF x \in closed[r] THEN NoFile ELSE files[r][x]
    BY <1>1, HeldIs
  <2>5. ClosedFirst(q, fd) \/ ClosedAgain(q, fd)
    <3>1. CASE fd \in closed[q]
      <4>1. closed' = closed
        BY <1>1, <1>3, <2>1, <3>1 DEF TypeOK
      <4>2. Held' = Held
        BY <1>1, <4>1 DEF Held
      <4> QED BY <2>1, <3>1, <4>2 DEF ClosedAgain, f
    <3>2. CASE fd \notin closed[q]
      <4>1. Held'[q] = Cleared(Held[q], {fd})
        <5> DEFINE h == Held'[q]
                   k == Cleared(Held[q], {fd})
        <5>1. h \in Tables /\ k \in [Fds -> Files \cup {NoFile}]
          BY <1>3, <2>3 DEF Cleared, Tables
        <5>2. \A x \in Fds : h[x] = k[x]
          BY <1>3, <2>2, <2>3, <2>4 DEF Cleared
        <5> HIDE DEF h, k
        <5>3. h = k
          BY <5>1, <5>2 DEF Tables
        <5> QED BY <5>3 DEF h, k
      <4>2. ASSUME NEW r \in Procs \ {q} PROVE Held'[r] = Held[r]
        BY <1>1, <2>2 DEF Held
      <4>3. Changed(Held', Held, q, Cleared(Held[q], {fd}))
        BY <2>3, <4>1, <4>2 DEF Changed
      <4> QED BY <2>1, <3>2, <4>3 DEF ClosedFirst
    <3> QED BY <3>1, <3>2
  <2>6. /\ \A e \in PipeEnds : EndCounted(e)' /\ EndDeleted(e)'
        /\ \A g \in RootFiles : RootCounted(g)'
        /\ deleted' \subseteq made
        /\ \A x \in Procs : dup[x] # NotInDup /\ dup[x].file \notin raced' =>
                                count'[dup[x].file] = count[dup[x].file]
    BY <1>1, <1>3, <1>4, <1>10, <2>1, <2>5, ClosesCounts DEF f
  <2>7. AllMade'
    <3>1. fileMap' = fileMap \ {f}
      BY <2>1 DEF Closes
    <3>2. ASSUME NEW r \in Procs, NEW x \in closed'[r] PROVE files'[r][x] \notin fileMap'
      <4>1. x \in closed[r] \/ (r = q /\ x = fd)
        BY <2>2, <3>2
      <4> QED BY <1>1, <3>1, <3>2, <4>1 DEF AllMade, f
    <3>3. ASSUME NEW e \in PipeEnds \ made' PROVE again'[e] = 0
      <4>1. e \notin made /\ e # f
        BY <1>1, <1>3, <3>3, FileTypes DEF AllMade, f
      <4> QED BY <1>1, <2>1, <4>1 DEF AllMade, TypeOK
    <3> QED BY <1>1, <2>6, <3>1, <3>2, <3>3 DEF AllMade
  <2>8. \A x \in Procs \ {q} : DupHolds(x)'
    BY <1>1, <1>3, <2>2, <2>6, OthersStay
  <2>9. \A c \in Procs : ExitHolds(c)'
    BY <1>1, <1>3, <1>8, <2>2, <2>3, <2>4
  <2> QED BY <1>3, <1>6, <2>6, <2>7, <2>8, <2>9 DEF Inv
<1> QED BY <1>9, <1>10

LEMMA CloseFailsKeeps ==
    ASSUME Inv, TypeOK', NEW p \in Procs, CloseFails(p)
    PROVE  Inv'
<1>1. /\ TypeOK /\ closing' = [closing EXCEPT ![p] = NotClosing]
      /\ UNCHANGED <<live, files, count, made, deleted, fileMap, dup, closed, unheld, again, raced>>
  BY DEF CloseFails, Inv
<1>2. Held' = Held /\ \A g : Descriptors(g)' = Descriptors(g)
  BY <1>1 DEF Held, Descriptors
<1>3. \A c \in Procs : ExitHolds(c)'
  BY <1>1, <1>2 DEF Inv, ExitHolds, TypeOK
<1>4. \A x \in Procs : DupHolds(x)'
  BY <1>1 DEF Inv, DupHolds
<1>5. AllMade'
  BY <1>1 DEF Inv, AllMade
<1>6. \A e \in PipeEnds : EndCounted(e)' /\ EndDeleted(e)'
  BY <1>1, <1>2 DEF Inv, EndCounted, EndDeleted
<1>7. \A g \in RootFiles : RootCounted(g)'
  BY <1>1, <1>2 DEF Inv, RootCounted
<1> QED BY <1>3, <1>4, <1>5, <1>6, <1>7 DEF Inv

\* When all have been closed, to clear the table changes nothing of what is held.
LEMMA ClosedAllKeeps ==
    ASSUME Inv, TypeOK', NEW p \in Procs, ClosedAll(p)
    PROVE  Inv'
<1>0. PICK q \in Procs : q = closing[p].of
  BY DEF ClosedAll, InExit, Inv, TypeOK
<1>1. /\ TypeOK /\ AllMade /\ closing[p] # NotClosing /\ closing[p].next = MaxOpenFiles
      /\ closing' = [closing EXCEPT ![p] = NotClosing]
      /\ files' = [files EXCEPT ![q] = NoFiles]
      /\ closed' = [closed EXCEPT ![q] = {}]
      /\ UNCHANGED <<live, count, made, deleted, fileMap, dup, unheld, again, raced>>
  BY <1>0 DEF ClosedAll, InExit, Inv
<1>2. q \in Procs /\ ExitHolds(p)
  BY <1>1 DEF Inv, TypeOK
<1>3. q \notin live /\ \A fd \in Fds : Held[q][fd] = NoFile
  <2>1. \A fd \in Fds : fd < MaxOpenFiles
    BY FileTablesAssumption DEF Fds
  <2> QED BY <1>0, <1>1, <1>2, <2>1 DEF ExitHolds
<1>4. DupHolds(q)'
  BY <1>1, <1>2, <1>3 DEF Inv, DupHolds
<1>5. /\ files'[q] = NoFiles /\ closed'[q] = {}
      /\ \A r \in Procs \ {q} : files'[r] = files[r] /\ closed'[r] = closed[r]
  BY <1>1, <1>2 DEF TypeOK
<1>6. Held' = Held
  <2>1. Held'[q] = Held[q]
    <3> DEFINE h == Held'[q]
               k == Held[q]
    <3>1. h \in Tables /\ k \in Tables
      BY <1>1, <1>2, <1>5, HeldIs, NewTableType DEF Held, Cleared, Tables
    <3>2. \A x \in Fds : h[x] = k[x]
      BY <1>2, <1>3, <1>5 DEF Held, Cleared, NoFiles
    <3> HIDE DEF h, k
    <3>3. h = k
      BY <3>1, <3>2 DEF Tables
    <3> QED BY <3>3 DEF h, k
  <2>2. ASSUME NEW r \in Procs \ {q} PROVE Held'[r] = Held[r]
    BY <1>5 DEF Held
  <2>3. \A r \in Procs : Held'[r] = Held[r]
    BY <2>1, <2>2
  <2> QED BY <2>3 DEF Held
<1>7. \A g \in Counted : Descriptors(g)' = Descriptors(g)
  BY <1>6, DescriptorsAre DEF DescOf
<1>8. AllMade'
  <2>1. \A r \in Procs, x \in Fds : files'[r][x] \in Counted => files'[r][x] \in made'
    BY <1>1, <1>5, Apart DEF AllMade, NoFiles
  <2>2. \A r \in Procs : \A x \in closed'[r] : files'[r][x] \notin fileMap'
    BY <1>1, <1>5 DEF AllMade
  <2> QED BY <1>1, <2>1, <2>2 DEF AllMade
<1>9. \A x \in Procs \ {q} : DupHolds(x)'
  BY <1>1, <1>2, <1>5, OthersStay
<1>10. \A c \in Procs : ExitHolds(c)'
  BY <1>1, <1>6 DEF Inv, ExitHolds, TypeOK
<1>11. \A e \in PipeEnds : EndCounted(e)' /\ EndDeleted(e)'
  BY <1>1, <1>7, FileTypes DEF Inv, EndCounted, EndDeleted
<1>12. \A g \in RootFiles : RootCounted(g)'
  BY <1>1, <1>7, FileTypes DEF Inv, RootCounted
<1> QED BY <1>4, <1>8, <1>9, <1>10, <1>11, <1>12 DEF Inv

LEMMA NextKeeps == Inv /\ [Next]_vars => Inv'
<1> SUFFICES ASSUME Inv, [Next]_vars PROVE Inv'
  OBVIOUS
<1>1. TypeOK'
  BY TypeKept DEF Inv
<1>2. CASE UNCHANGED vars
  <2>1. Held' = Held /\ \A f : Descriptors(f)' = Descriptors(f)
    BY <1>2 DEF vars, exitVars, Held, Descriptors
  <2>2. \A p \in Procs : DupHolds(p)' /\ ExitHolds(p)'
    BY <1>2, <2>1 DEF vars, exitVars, Inv, DupHolds, ExitHolds
  <2>3. AllMade'
    BY <1>2 DEF vars, exitVars, Inv, AllMade
  <2>4. \A e \in PipeEnds : EndCounted(e)' /\ EndDeleted(e)'
    BY <1>2, <2>1 DEF vars, exitVars, Inv, EndCounted, EndDeleted
  <2>5. \A f \in RootFiles : RootCounted(f)'
    BY <1>2, <2>1 DEF vars, exitVars, Inv, RootCounted
  <2> QED BY <1>1, <2>2, <2>3, <2>4, <2>5 DEF Inv
<1>3. ASSUME NEW p \in Procs, NEW fd \in Fds, Close(p, fd) PROVE Inv'
  BY <1>1, <1>3, CloseKeeps
<1>4. ASSUME NEW p \in Procs, NEW q \in Procs, Exit(p, q) PROVE Inv'
  BY <1>1, <1>4, ExitKeeps
<1>5. ASSUME NEW p \in Procs, NEW n \in Opens, Open(p, n) PROVE Inv'
  BY <1>1, <1>5, OpenKeeps
<1>6. ASSUME NEW p \in Procs, NEW k \in Pipes, MakePipe(p, k) PROVE Inv'
  BY <1>1, <1>6, MakePipeKeeps
<1>7. ASSUME NEW p \in Procs, NEW fd \in Fds, StartDup(p, fd) PROVE Inv'
  BY <1>1, <1>7, StartDupKeeps
<1>8. ASSUME NEW p \in Procs, NEW fd \in Fds, DupTerminal(p, fd) PROVE Inv'
  BY <1>1, <1>8, DupTerminalKeeps
<1>9. ASSUME NEW p \in Procs, EndDup(p) PROVE Inv'
  BY <1>1, <1>9, EndDupKeeps
<1>10. ASSUME NEW p \in Procs, NEW child \in Procs, Fork(p, child) PROVE Inv'
  BY <1>1, <1>10, ForkKeeps
<1>11. ASSUME NEW p \in Procs, CloseNext(p) PROVE Inv'
  BY <1>1, <1>11, CloseNextKeeps
<1>12. ASSUME NEW p \in Procs, CloseFails(p) PROVE Inv'
  BY <1>1, <1>12, CloseFailsKeeps
<1>13. ASSUME NEW p \in Procs, ClosedAll(p) PROVE Inv'
  BY <1>1, <1>13, ClosedAllKeeps
<1> QED BY <1>2, <1>3, <1>4, <1>5, <1>6, <1>7, <1>8, <1>9, <1>10, <1>11, <1>12, <1>13 DEF Next

\* However processes open, fork, dup, close and exit, wherever CloseFiles fails and however
\* often a process is killed, the counts, the map and what has been deleted stay in the
\* relation to the tables that Inv states.
THEOREM Invariance == Spec => []Inv
<1> QED BY Start, NextKeeps, PTL DEF Spec

\* A count of a pipe end is the number of descriptors for it that are to be closed, and of
\* those that a full table refused or a failed exit left behind, less those that a second
\* kill closed again; and a pipe is deleted with the last of either end, unless an end was
\* closed again or a race of dup lost a change: for any number of processes, processors and
\* descriptors, and any number of closes that fail.
THEOREM PipeEndsCounted == Spec => []PipeEndsAgree
<1>1. Inv => PipeEndsAgree
  BY InvMeans
<1> QED BY Invariance, <1>1, PTL

\* No process has a descriptor, that is to be closed, for a pipe or a file that has been
\* deleted, wherever an exit fails, except after a race of dup and but for the pipe whose
\* end a second kill closed again.
THEOREM NothingDangles == Spec => []NoDangling
<1>1. Inv => NoDangling
  BY InvMeans
<1> QED BY Invariance, <1>1, PTL
=============================================================================
