----------------------------- MODULE PipeProofs -----------------------------
(***************************************************************************)
(* Proofs about Pipe, for any readers, writers and bytes, any size of the  *)
(* pipe, and any lengths that the calls ask for. That the two ends never   *)
(* wait for each other, and that the ring is a queue of bytes, is proved   *)
(* for calls that ask for one byte or more: with a call for none, both are *)
(* false, as the run pipe_zero_length shows.                               *)
(***************************************************************************)
EXTENDS Pipe, FiniteSetTheorems, SequenceTheorems, TLAPS

-----------------------------------------------------------------------------
(* The inductive invariant.                                                *)

\* The positions stay inside the vector: each goes back to 0 at its end.
PositionsInside ==
    Len(data) > 0 => readPos < Len(data) /\ writePos < Len(data)

\* The counts are those of the processes that have the ends open.
CountsAreOfOpen ==
    /\ readerCount = Cardinality(open \cap Readers)
    /\ writerCount = Cardinality(open \cap Writers)

\* A call is under way only of a process that has the pipe, with its request.
CallsOpen ==
    /\ DOMAIN request = Users
    /\ \A p \in Users : pc[p] # "idle" =>
           /\ p \in open
           /\ IF p \in Readers THEN request[p] \in Counts ELSE request[p] \in Buffers

PipeInv ==
    /\ TypeOK
    /\ PositionsInside
    /\ CountsAreOfOpen
    /\ CallsOpen
    /\ SleepersHaveReason

LEMMA UserFacts ==
    /\ Readers \subseteq Users /\ Writers \subseteq Users
    /\ \A p \in Users : p \in Writers <=> p \notin Readers
    /\ MaxPipeSize \in Nat \ {0}
    /\ Counts \subseteq Nat
BY PipeAssumption DEF Users

LEMMA BufferFacts ==
    ASSUME NEW b \in Buffers
    PROVE  b \in Seq(Bytes) /\ Len(b) \in Counts /\ Len(b) \in Nat
<1>1. PICK n \in Counts : b \in [1 .. n -> Bytes]
  BY DEF Buffers
<1> QED BY <1>1, PipeAssumption

\* The counts are those of finite sets, and count those who are in them.
LEMMA CountFacts ==
    ASSUME NEW S, NEW E, IsFiniteSet(E)
    PROVE  /\ Cardinality(S \cap E) \in 0 .. Cardinality(E)
           /\ \A p \in S \cap E : Cardinality(S \cap E) > 0
           /\ \A p \in S \cap E : Cardinality((S \ {p}) \cap E) = Cardinality(S \cap E) - 1
           /\ \A p \in E \ S : Cardinality((S \cup {p}) \cap E) = Cardinality(S \cap E) + 1
           /\ \A p : p \notin E => /\ (S \ {p}) \cap E = S \cap E
                                   /\ (S \cup {p}) \cap E = S \cap E
<1>1. IsFiniteSet(S \cap E) /\ Cardinality(S \cap E) <= Cardinality(E)
  BY FS_Subset
<1>2. Cardinality(S \cap E) \in Nat /\ Cardinality(E) \in Nat
  BY <1>1, FS_CardinalityType
<1>3. ASSUME NEW p \in S \cap E
      PROVE  /\ Cardinality(S \cap E) > 0
             /\ Cardinality((S \ {p}) \cap E) = Cardinality(S \cap E) - 1
  <2>1. Cardinality(S \cap E) # 0
    BY <1>1, FS_EmptySet
  <2>2. (S \ {p}) \cap E = (S \cap E) \ {p}
    OBVIOUS
  <2>3. Cardinality((S \cap E) \ {p}) = Cardinality(S \cap E) - 1
    BY <1>1, FS_RemoveElement
  <2> QED BY <1>2, <2>1, <2>2, <2>3
<1>4. ASSUME NEW p \in E \ S
      PROVE  Cardinality((S \cup {p}) \cap E) = Cardinality(S \cap E) + 1
  <2>1. (S \cup {p}) \cap E = (S \cap E) \cup {p}
    OBVIOUS
  <2>2. Cardinality((S \cap E) \cup {p}) = Cardinality(S \cap E) + 1
    BY <1>1, FS_AddElement
  <2> QED BY <2>1, <2>2
<1>5. Cardinality(S \cap E) \in 0 .. Cardinality(E)
  BY <1>1, <1>2
<1>6. ASSUME NEW p, p \notin E
      PROVE  (S \ {p}) \cap E = S \cap E /\ (S \cup {p}) \cap E = S \cap E
  BY <1>6
<1> QED BY <1>3, <1>4, <1>5, <1>6

LEMMA CountsBounded ==
    ASSUME CountsAreOfOpen
    PROVE  readerCount \in 0 .. Cardinality(Readers) /\ writerCount \in 0 .. Cardinality(Writers)
BY CountFacts, PipeAssumption DEF CountsAreOfOpen

\* What closing an end, and sharing it, does to the counts.
LEMMA CountsFollow ==
    ASSUME CountsAreOfOpen, NEW p
    PROVE  /\ p \in open /\ p \in Readers =>
                  Cardinality((open \ {p}) \cap Readers) = readerCount - 1
           /\ p \in open /\ p \in Writers =>
                  Cardinality((open \ {p}) \cap Writers) = writerCount - 1
           /\ p \notin open /\ p \in Readers =>
                  Cardinality((open \cup {p}) \cap Readers) = readerCount + 1
           /\ p \notin open /\ p \in Writers =>
                  Cardinality((open \cup {p}) \cap Writers) = writerCount + 1
           /\ p \notin Readers => /\ (open \ {p}) \cap Readers = open \cap Readers
                                  /\ (open \cup {p}) \cap Readers = open \cap Readers
           /\ p \notin Writers => /\ (open \ {p}) \cap Writers = open \cap Writers
                                  /\ (open \cup {p}) \cap Writers = open \cap Writers
<1>1. ASSUME NEW E, IsFiniteSet(E)
      PROVE  /\ p \in open /\ p \in E => Cardinality((open \ {p}) \cap E) = Cardinality(open \cap E) - 1
             /\ p \notin open /\ p \in E => Cardinality((open \cup {p}) \cap E) = Cardinality(open \cap E) + 1
  <2>1. CASE p \in open /\ p \in E
    <3>1. p \in open \cap E
      BY <2>1
    <3> QED BY <1>1, <2>1, <3>1, CountFacts
  <2>2. CASE p \notin open /\ p \in E
    <3>1. p \in E \ open
      BY <2>2
    <3>2. \A x \in E \ open :
              Cardinality((open \cup {x}) \cap E) = Cardinality(open \cap E) + 1
      BY <1>1, CountFacts
    <3> QED BY <2>2, <3>1, <3>2
  <2> QED BY <2>1, <2>2
<1>2. readerCount = Cardinality(open \cap Readers) /\ writerCount = Cardinality(open \cap Writers)
  BY DEF CountsAreOfOpen
<1>3. p \in open /\ p \in Readers => Cardinality((open \ {p}) \cap Readers) = readerCount - 1
  BY <1>1, <1>2, PipeAssumption
<1>4. p \in open /\ p \in Writers => Cardinality((open \ {p}) \cap Writers) = writerCount - 1
  BY <1>1, <1>2, PipeAssumption
<1>5. p \notin open /\ p \in Readers => Cardinality((open \cup {p}) \cap Readers) = readerCount + 1
  BY <1>1, <1>2, PipeAssumption
<1>6. p \notin open /\ p \in Writers => Cardinality((open \cup {p}) \cap Writers) = writerCount + 1
  BY <1>1, <1>2, PipeAssumption
<1> QED BY <1>3, <1>4, <1>5, <1>6, Zenon

\* Bytes are stored in place: the vector keeps its length.
LEMMA StoredFacts ==
    ASSUME NEW d \in Seq(Bytes), NEW pos \in Nat, NEW s \in Seq(Bytes)
    PROVE  /\ Stored(d, pos, s) \in Seq(Bytes)
           /\ Len(Stored(d, pos, s)) = Len(d)
           /\ \A i \in 1 .. Len(d) : Stored(d, pos, s)[i] =
                  IF i > pos /\ i <= pos + Len(s) THEN s[i - pos] ELSE d[i]
<1>1. Len(d) \in Nat /\ Len(s) \in Nat
  BY LenProperties
<1>2. \A i \in 1 .. Len(d) : i \in (pos + 1)..(pos + Len(s)) <=> i > pos /\ i <= pos + Len(s)
  BY <1>1
<1>3. \A i \in 1 .. Len(d) : i > pos /\ i <= pos + Len(s) => i - pos \in 1 .. Len(s)
  BY <1>1
<1>4. ASSUME NEW i \in 1 .. Len(d)
      PROVE  (IF i \in (pos + 1)..(pos + Len(s)) THEN s[i - pos] ELSE d[i]) \in Bytes
  BY <1>2, <1>3, ElementOfSeq
<1>5. Stored(d, pos, s) \in [1 .. Len(d) -> Bytes]
  BY <1>4 DEF Stored
<1> QED BY <1>1, <1>2, <1>5 DEF Stored

-----------------------------------------------------------------------------
(* Every action keeps the invariant.                                       *)

LEMMA InitInv == Init => PipeInv
<1> SUFFICES ASSUME Init PROVE PipeInv
  OBVIOUS
<1> USE UserFacts DEF Init
<1>1. PICK r \in Readers, w \in Writers : open = {r, w}
  OBVIOUS
<1>2. r \notin Writers /\ w \notin Readers
  BY PipeAssumption
<1>3. open \cap Readers = {r} /\ open \cap Writers = {w}
  BY <1>1, <1>2
<1>4. Cardinality(open \cap Readers) = 1 /\ Cardinality(open \cap Writers) = 1
  BY <1>3, FS_Singleton
<1>5. CountsAreOfOpen
  BY <1>4 DEF CountsAreOfOpen
<1>6. readerCount \in 0 .. Cardinality(Readers) /\ writerCount \in 0 .. Cardinality(Writers)
  BY ONLY <1>5, CountsBounded
<1>7. TypeOK
  <2>1. data \in Seq(Bytes) /\ Len(data) = 0 /\ 0 <= MaxPipeSize
    BY EmptySeq
  <2>2. readPos \in 0 .. 0 /\ writePos \in 0 .. 0
    OBVIOUS
  <2>3. open \subseteq Users
    BY <1>1
  <2> QED BY <1>6, <2>1, <2>2, <2>3 DEF TypeOK, InitialFlags
<1>8. PositionsInside /\ CallsOpen /\ SleepersHaveReason
  BY DEF PositionsInside, CallsOpen, SleepersHaveReason
<1> QED BY <1>5, <1>7, <1>8 DEF PipeInv

LEMMA CallStep ==
    ASSUME PipeInv, NEW p \in Users, CallRead(p) \/ CallWrite(p)
    PROVE  PipeInv'
<1> USE UserFacts DEF PipeInv
<1>1. /\ p \in open /\ pc[p] = "idle"
      /\ pc' = [pc EXCEPT ![p] = "ready"]
      /\ UNCHANGED <<ringVars, countVars, result>>
  BY DEF CallRead, CallWrite
<1>2. \E v : /\ request' = [request EXCEPT ![p] = v]
             /\ IF p \in Readers THEN v \in Counts ELSE v \in Buffers
  BY DEF CallRead, CallWrite
<1>3. TypeOK'
  BY <1>1 DEF TypeOK, ringVars, countVars
<1>4. PositionsInside' /\ CountsAreOfOpen'
  BY <1>1 DEF PositionsInside, CountsAreOfOpen, ringVars, countVars
<1>5. CallsOpen'
  BY <1>1, <1>2 DEF TypeOK, CallsOpen, countVars
<1>6. SleepersHaveReason'
  BY <1>1 DEF TypeOK, SleepersHaveReason, ringVars, countVars
<1> QED BY <1>3, <1>4, <1>5, <1>6

\* What remains of a call that is over, or that goes to sleep.
LEMMA CallsStay ==
    ASSUME PipeInv, NEW p \in Users, pc[p] = "ready", UNCHANGED countVars,
           \/ request' = [request EXCEPT ![p] = NoRequest(p)] /\ pc'[p] = "idle"
           \/ UNCHANGED request,
           \A q \in Users : q # p => pc'[q] = "idle" <=> pc[q] = "idle"
    PROVE  CountsAreOfOpen' /\ CallsOpen'
<1>1. CountsAreOfOpen'
  BY DEF PipeInv, CountsAreOfOpen, countVars
<1>2. CallsOpen'
  BY DEF PipeInv, CallsOpen, countVars
<1> QED BY <1>1, <1>2

LEMMA AnswerStep ==
    ASSUME PipeInv, NEW p \in Users, pc[p] = "ready", UNCHANGED ringVars, UNCHANGED countVars,
           \/ /\ request' = [request EXCEPT ![p] = NoRequest(p)]
              /\ pc' = [pc EXCEPT ![p] = "idle"]
           \/ /\ UNCHANGED request
              /\ pc' = [pc EXCEPT ![p] = "asleep"]
              /\ IF p \in Readers THEN empty /\ writerCount > 0 ELSE full /\ readerCount > 0
    PROVE  PipeInv'
<1> USE UserFacts DEF PipeInv
<1>1. TypeOK'
  BY DEF TypeOK, ringVars, countVars
<1>2. PositionsInside'
  BY DEF PositionsInside, ringVars
<1>3. CountsAreOfOpen' /\ CallsOpen'
  BY CallsStay DEF TypeOK
<1>4. SleepersHaveReason'
  BY DEF TypeOK, SleepersHaveReason, ringVars, countVars
<1> QED BY <1>1, <1>2, <1>3, <1>4

-----------------------------------------------------------------------------
(* The numbers of a read: R1 bytes up to the end of the vector, from where *)
(* it is at RP, and R2 bytes from there.                                   *)

R1(count) == IF UnreadWraps THEN Least(count, Len(data) - readPos) ELSE 0
RP(count) == IF UnreadWraps /\ readPos + R1(count) = Len(data) THEN 0
             ELSE readPos + R1(count)
R2(count) == IF RP(count) < writePos THEN Least(count - R1(count), writePos - RP(count)) ELSE 0
TakenBytes(count) ==
    SubSeq(data, readPos + 1, readPos + R1(count))
        \o SubSeq(data, RP(count) + 1, RP(count) + R2(count))

LEMMA RingNumbers ==
    ASSUME TypeOK, PositionsInside
    PROVE  /\ Len(data) \in Nat /\ Len(data) <= MaxPipeSize
           /\ readPos \in 0 .. Len(data) /\ writePos \in 0 .. Len(data)
           /\ readPos \in Nat /\ writePos \in Nat
           /\ Len(data) > 0 => readPos < Len(data) /\ writePos < Len(data)
BY LenProperties DEF TypeOK, PositionsInside

LEMMA ReadNumbers ==
    ASSUME TypeOK, PositionsInside, NEW count \in Nat
    PROVE  /\ R1(count) \in Nat /\ RP(count) \in Nat /\ R2(count) \in Nat
           /\ R1(count) + R2(count) <= count /\ readPos + R1(count) <= Len(data)
           /\ RP(count) <= Len(data)
           /\ RP(count) + R2(count) \in 0 .. Len(data)
           /\ Len(data) > 0 => RP(count) + R2(count) < Len(data)
<1>1. /\ R1(count) \in Nat /\ R1(count) <= count /\ readPos + R1(count) <= Len(data)
      /\ UnreadWraps \/ R1(count) = 0
  BY RingNumbers DEF R1, Least, UnreadWraps
<1>2. RP(count) \in Nat /\ RP(count) <= Len(data) /\ (Len(data) > 0 => RP(count) < Len(data))
  BY <1>1, RingNumbers DEF RP
<1>3. /\ R2(count) \in Nat /\ R1(count) + R2(count) <= count
      /\ RP(count) + R2(count) <= Len(data)
      /\ Len(data) > 0 => RP(count) + R2(count) < Len(data)
  BY <1>1, <1>2, RingNumbers DEF R2, Least
<1> QED BY <1>1, <1>2, <1>3

LEMMA PipeReadIs ==
    ASSUME NEW p, NEW count, PipeRead(p, count)
    PROVE  /\ readPos' = RP(count) + R2(count)
           /\ empty' = (empty \/ RP(count) + R2(count) = writePos)
           /\ result' = [result EXCEPT ![p] = TakenBytes(count)]
           /\ request' = [request EXCEPT ![p] = NoRequest(p)]
           /\ UNCHANGED <<data, writePos, countVars>>
           /\ \/ /\ TakenBytes(count) # <<>>
                 /\ full' = FALSE /\ pc' = [Woken(Writers) EXCEPT ![p] = "idle"]
              \/ /\ TakenBytes(count) = <<>>
                 /\ UNCHANGED full /\ pc' = [pc EXCEPT ![p] = "idle"]
BY DEF PipeRead, Returns, TakenBytes, R1, R2, RP

\* A read that takes bytes wakes the writers, whose reason is gone; one that takes
\* none leaves full as it is.
LEMMA PipeReadStep ==
    ASSUME PipeInv, NEW p \in Readers, pc[p] = "ready", NEW count \in Nat, PipeRead(p, count)
    PROVE  PipeInv'
<1> USE UserFacts DEF PipeInv
<1>1. /\ readPos' = RP(count) + R2(count)
      /\ empty' = (empty \/ RP(count) + R2(count) = writePos)
      /\ request' = [request EXCEPT ![p] = NoRequest(p)]
      /\ UNCHANGED <<data, writePos, countVars>>
      /\ \/ full' = FALSE /\ pc' = [Woken(Writers) EXCEPT ![p] = "idle"]
         \/ UNCHANGED full /\ pc' = [pc EXCEPT ![p] = "idle"]
  BY PipeReadIs
<1>2. /\ readPos' \in 0 .. Len(data)
      /\ Len(data) > 0 => readPos' < Len(data)
  BY <1>1, ReadNumbers
<1>3. pc' \in [Users -> {"idle", "ready", "asleep"}] /\ pc'[p] = "idle"
  BY <1>1 DEF TypeOK, Woken
<1>4. \A q \in Users : q # p => pc'[q] = pc[q] \/ (pc'[q] = "ready" /\ pc[q] = "asleep")
  BY <1>1 DEF TypeOK, Woken
<1>5. TypeOK'
  <2>1. empty' \in BOOLEAN /\ full' \in BOOLEAN
    BY <1>1, Zenon DEF TypeOK
  <2> QED BY <1>1, <1>2, <1>3, <2>1 DEF TypeOK, countVars
<1>6. PositionsInside'
  BY <1>1, <1>2 DEF PositionsInside
<1>7. CountsAreOfOpen' /\ CallsOpen'
  BY <1>1, <1>3, <1>4, CallsStay
<1>8. SleepersHaveReason'
  <2> SUFFICES ASSUME NEW q \in Users, pc'[q] = "asleep"
               PROVE  IF q \in Readers THEN empty' /\ writerCount' > 0
                                       ELSE full' /\ readerCount' > 0
    BY DEF SleepersHaveReason
  <2>1. q # p /\ pc[q] = "asleep"
    BY <1>3, <1>4
  <2>2. CASE q \in Readers
    BY <1>1, <2>1, <2>2 DEF SleepersHaveReason, countVars
  <2>3. CASE q \in Writers
    <3>1. ~ (pc' = [Woken(Writers) EXCEPT ![p] = "idle"])
      BY <2>1, <2>3 DEF Woken
    <3> QED BY <1>1, <2>1, <2>3, <3>1 DEF SleepersHaveReason, countVars
  <2> QED BY <2>2, <2>3
<1> QED BY <1>5, <1>6, <1>7, <1>8

-----------------------------------------------------------------------------
(* The numbers of a write: W1 bytes up to the end of the vector, W2 by     *)
(* which it grows, and W3 from WP, where it is after them.                 *)

Ahead == writePos >= readPos
W1(len) == IF Ahead THEN Least(len, Len(data) - writePos) ELSE 0
W2(len) == IF Ahead /\ Len(data) < MaxPipeSize
           THEN Least(len - W1(len), MaxPipeSize - (writePos + W1(len))) ELSE 0
WP(len) == IF Ahead /\ writePos + W1(len) = Len(data) THEN 0
           ELSE writePos + W1(len) + W2(len)
W3(len) == IF WP(len) < readPos THEN Least(len - W1(len) - W2(len), readPos - WP(len)) ELSE 0
Written(len) == W1(len) + W2(len) + W3(len)
Grown(d, pos, s, a, b) == Stored(d, pos, SubSeq(s, 1, a)) \o SubSeq(s, a + 1, a + b)
GrownBy(buffer) == Grown(data, writePos, buffer, W1(Len(buffer)), W2(Len(buffer)))

LEMMA WriteNumbers ==
    ASSUME TypeOK, PositionsInside, NEW len \in Nat
    PROVE  /\ W1(len) \in Nat /\ W2(len) \in Nat /\ W3(len) \in Nat /\ WP(len) \in Nat
           /\ writePos + W1(len) <= Len(data) /\ W1(len) + W2(len) <= len
           /\ Written(len) <= len
           /\ W2(len) > 0 => Ahead /\ writePos + W1(len) = Len(data)
           /\ Len(data) + W2(len) <= MaxPipeSize
           /\ WP(len) + W3(len) \in 0 .. Len(data) + W2(len)
           /\ Len(data) + W2(len) > 0 => WP(len) + W3(len) < Len(data) + W2(len)
<1> USE UserFacts, RingNumbers
<1>1. W1(len) \in Nat /\ W1(len) <= len /\ writePos + W1(len) <= Len(data)
  BY DEF W1, Least, Ahead
<1>2. /\ W2(len) \in Nat /\ W1(len) + W2(len) <= len
      /\ W2(len) > 0 => Ahead /\ writePos + W1(len) = Len(data)
      /\ Len(data) + W2(len) <= MaxPipeSize
  <2>1. W2(len) \in Nat /\ W1(len) + W2(len) <= len /\ writePos + W1(len) + W2(len) <= MaxPipeSize
    BY <1>1 DEF W2, Least
  <2>2. W2(len) > 0 => Ahead /\ len - W1(len) > 0
    BY <1>1 DEF W2, Least
  <2>3. Ahead /\ len - W1(len) > 0 => writePos + W1(len) = Len(data)
    BY DEF W1, Least
  <2> QED BY <1>1, <2>1, <2>2, <2>3
<1>3. /\ WP(len) \in Nat
      /\ WP(len) = 0 \/ WP(len) = writePos + W1(len)
      /\ WP(len) # 0 => WP(len) < Len(data)
  <2>1. CASE Ahead /\ writePos + W1(len) = Len(data)
    BY <2>1 DEF WP
  <2>2. CASE Ahead /\ writePos + W1(len) # Len(data)
    <3>1. W2(len) = 0
      BY <1>2, <2>2
    <3>2. WP(len) = writePos + W1(len) + W2(len)
      BY <2>2 DEF WP
    <3> QED BY <1>1, <2>2, <3>1, <3>2
  <2>3. CASE ~Ahead
    <3>1. W1(len) = 0 /\ W2(len) = 0
      BY <2>3 DEF W1, W2
    <3>2. WP(len) = writePos + W1(len) + W2(len)
      BY <2>3 DEF WP
    <3> QED BY <2>3, <3>1, <3>2 DEF Ahead
  <2> QED BY <2>1, <2>2, <2>3
<1>4. /\ W3(len) \in Nat /\ Written(len) <= len
      /\ WP(len) + W3(len) = WP(len) \/ WP(len) + W3(len) <= readPos
  <2>1. /\ W3(len) \in Nat /\ W3(len) <= len - W1(len) - W2(len)
        /\ WP(len) + W3(len) = WP(len) \/ WP(len) + W3(len) <= readPos
    <3>1. CASE WP(len) < readPos
      <4>1. W3(len) = Least(len - W1(len) - W2(len), readPos - WP(len))
        BY <3>1 DEF W3
      <4> DEFINE a == len - W1(len) - W2(len)
                 b == readPos - WP(len)
      <4>2. a \in Nat /\ b \in Nat /\ b > 0
        BY <1>1, <1>2, <1>3, <3>1
      <4>3. WP(len) + b = readPos
        BY <1>3
      <4> HIDE DEF a, b
      <4>4. W3(len) \in Nat /\ W3(len) <= a /\ W3(len) <= b
        BY <4>1, <4>2 DEF Least, a, b
      <4>5. WP(len) + W3(len) <= readPos
        BY <1>3, <4>2, <4>3, <4>4
      <4> QED BY <4>4, <4>5 DEF a
    <3>2. CASE ~ (WP(len) < readPos)
      <4>1. W3(len) = 0
        BY <3>2 DEF W3
      <4> QED BY <1>1, <1>2, <1>3, <4>1
    <3> QED BY <3>1, <3>2
  <2> QED BY <1>1, <1>2, <2>1 DEF Written
<1>5. WP(len) + W3(len) <= Len(data)
  BY <1>1, <1>2, <1>3, <1>4
<1>6. Len(data) + W2(len) > 0 => WP(len) + W3(len) < Len(data) + W2(len)
  BY <1>1, <1>2, <1>3, <1>4
<1> QED BY <1>1, <1>2, <1>3, <1>4, <1>5, <1>6

\* The parts of a buffer.
LEMMA PartFacts ==
    ASSUME NEW s \in Seq(Bytes), NEW m \in Nat, NEW n \in Nat, n <= Len(s)
    PROVE  /\ SubSeq(s, m + 1, n) \in Seq(Bytes)
           /\ Len(SubSeq(s, m + 1, n)) = IF m <= n THEN n - m ELSE 0
           /\ \A i \in 1 .. n - m : SubSeq(s, m + 1, n)[i] = s[m + i]
<1>1. Len(s) \in Nat /\ \A i \in 1 .. Len(s) : s[i] \in Bytes
  BY LenProperties, ElementOfSeq
<1>2. \A i \in m + 1 .. n : s[i] \in Bytes
  BY <1>1
<1>3. /\ SubSeq(s, m + 1, n) \in Seq(Bytes)
      /\ Len(SubSeq(s, m + 1, n)) = IF m + 1 <= n THEN n - (m + 1) + 1 ELSE 0
      /\ \A i \in 1 .. n - (m + 1) + 1 : SubSeq(s, m + 1, n)[i] = s[(m + 1) + i - 1]
  BY <1>2, SubSeqProperties
<1>4. n - (m + 1) + 1 = n - m /\ \A i \in 1 .. n - m : (m + 1) + i - 1 = m + i
  OBVIOUS
<1> QED BY <1>3, <1>4

\* A vector d in which a bytes of s are stored at pos and that then grows by b.
IsGrown(g, d, pos, s, a, b) ==
    /\ g \in Seq(Bytes) /\ Len(g) = Len(d) + b
    /\ \A i \in 1 .. Len(d) + b : g[i] =
           IF i <= Len(d)
           THEN IF i > pos /\ i <= pos + a THEN s[i - pos] ELSE d[i]
           ELSE s[a + (i - Len(d))]

LEMMA StoreAndGrow ==
    ASSUME NEW d \in Seq(Bytes), NEW pos \in Nat, NEW s \in Seq(Bytes),
           NEW a \in Nat, NEW b \in Nat, a + b <= Len(s), pos + a <= Len(d)
    PROVE  IsGrown(Grown(d, pos, s, a, b), d, pos, s, a, b)
<1> DEFINE head == SubSeq(s, 1, a)
           tail == SubSeq(s, a + 1, a + b)
           stored == Stored(d, pos, head)
           g == Grown(d, pos, s, a, b)
<1>1. Len(s) \in Nat /\ Len(d) \in Nat /\ a + b \in Nat /\ a <= Len(s)
  BY LenProperties
<1>2. /\ head \in Seq(Bytes) /\ Len(head) = a
      /\ \A i \in 1 .. a : head[i] = s[i]
  <2>1. \A i \in 1 .. a : s[i] \in Bytes
    BY <1>1, ElementOfSeq
  <2>2. a - 1 + 1 = a /\ \A i \in 1 .. a : 1 + i - 1 = i
    OBVIOUS
  <2>3. /\ SubSeq(s, 1, a) \in Seq(Bytes)
        /\ Len(SubSeq(s, 1, a)) = IF 1 <= a THEN a - 1 + 1 ELSE 0
        /\ \A i \in 1 .. a - 1 + 1 : SubSeq(s, 1, a)[i] = s[1 + i - 1]
    BY <2>1, SubSeqProperties
  <2> QED BY <2>2, <2>3
<1>3. /\ tail \in Seq(Bytes) /\ Len(tail) = b
      /\ \A i \in 1 .. b : tail[i] = s[a + i]
  <2>1. /\ SubSeq(s, a + 1, a + b) \in Seq(Bytes)
        /\ Len(SubSeq(s, a + 1, a + b)) = IF a <= a + b THEN (a + b) - a ELSE 0
        /\ \A i \in 1 .. (a + b) - a : SubSeq(s, a + 1, a + b)[i] = s[a + i]
    <3> DEFINE n == a + b
    <3>1. n \in Nat /\ n <= Len(s)
      BY <1>1
    <3> HIDE DEF n
    <3>2. /\ SubSeq(s, a + 1, n) \in Seq(Bytes)
          /\ Len(SubSeq(s, a + 1, n)) = IF a <= n THEN n - a ELSE 0
          /\ \A i \in 1 .. n - a : SubSeq(s, a + 1, n)[i] = s[a + i]
      BY <3>1, PartFacts
    <3> QED BY <3>2 DEF n
  <2>2. (a + b) - a = b /\ a <= a + b
    OBVIOUS
  <2> QED BY <2>1, <2>2
<1> HIDE DEF head, tail
<1>4. /\ stored \in Seq(Bytes) /\ Len(stored) = Len(d)
      /\ \A i \in 1 .. Len(d) : stored[i] =
             IF i > pos /\ i <= pos + a THEN head[i - pos] ELSE d[i]
  BY <1>2, StoredFacts
<1> HIDE DEF stored
<1>5. g = stored \o tail
  BY DEF Grown, stored, head, tail
<1>6. /\ g \in Seq(Bytes) /\ Len(g) = Len(stored) + Len(tail)
      /\ \A i \in 1 .. Len(stored) + Len(tail) :
             g[i] = IF i <= Len(stored) THEN stored[i] ELSE tail[i - Len(stored)]
  <2>1. /\ stored \o tail \in Seq(Bytes) /\ Len(stored \o tail) = Len(stored) + Len(tail)
        /\ \A i \in 1 .. Len(stored) + Len(tail) :
               (stored \o tail)[i] = IF i <= Len(stored) THEN stored[i] ELSE tail[i - Len(stored)]
    BY <1>3, <1>4, ConcatProperties, Zenon
  <2> HIDE DEF g
  <2> QED BY <1>5, <2>1
<1> HIDE DEF g
<1>7. ASSUME NEW i \in 1 .. Len(d) + b
      PROVE  g[i] = IF i <= Len(d)
                    THEN IF i > pos /\ i <= pos + a THEN s[i - pos] ELSE d[i]
                    ELSE s[a + (i - Len(d))]
  <2>1. g[i] = IF i <= Len(d) THEN stored[i] ELSE tail[i - Len(d)]
    BY <1>3, <1>4, <1>6
  <2>2. CASE i <= Len(d) /\ i > pos /\ i <= pos + a
    <3>1. i - pos \in 1 .. a /\ i \in 1 .. Len(d)
      BY <1>1, <2>2
    <3>2. stored[i] = head[i - pos]
      BY <1>4, <2>2, <3>1
    <3> QED BY <1>2, <2>1, <2>2, <3>1, <3>2
  <2>3. CASE i <= Len(d) /\ ~ (i > pos /\ i <= pos + a)
    <3>1. i \in 1 .. Len(d)
      BY <1>1, <2>3
    <3> QED BY <1>4, <2>1, <2>3, <3>1
  <2>4. CASE ~ (i <= Len(d))
    <3>1. i - Len(d) \in 1 .. b
      BY <1>1, <2>4
    <3> QED BY <1>3, <2>1, <2>4, <3>1
  <2> QED BY <2>2, <2>3, <2>4
<1> QED BY <1>3, <1>4, <1>6, <1>7 DEF g, IsGrown

\* The vector after the first two parts of a write.
LEMMA GrownFacts ==
    ASSUME TypeOK, PositionsInside, NEW buffer \in Seq(Bytes), NEW len, len = Len(buffer)
    PROVE  IsGrown(GrownBy(buffer), data, writePos, buffer, W1(len), W2(len))
<1>1. len \in Nat
  BY LenProperties
<1>2. /\ writePos \in Nat /\ W1(len) \in Nat /\ W2(len) \in Nat
      /\ W1(len) + W2(len) <= Len(buffer) /\ writePos + W1(len) <= Len(data)
  BY <1>1, RingNumbers, WriteNumbers
<1>3. data \in Seq(Bytes)
  BY DEF TypeOK
<1>4. GrownBy(buffer) = Grown(data, writePos, buffer, W1(len), W2(len))
  BY DEF GrownBy
<1> QED BY <1>2, <1>3, <1>4, StoreAndGrow

LEMMA PipeWriteIs ==
    ASSUME TypeOK, PositionsInside, NEW p, NEW buffer \in Seq(Bytes), PipeWrite(p, buffer)
    PROVE  LET len == Len(buffer) IN
           /\ data' = Stored(GrownBy(buffer), WP(len),
                             SubSeq(buffer, W1(len) + W2(len) + 1, Written(len)))
           /\ writePos' = WP(len) + W3(len)
           /\ full' = (full \/ WP(len) + W3(len) = readPos)
           /\ result' = [result EXCEPT ![p] = Written(len)]
           /\ request' = [request EXCEPT ![p] = NoRequest(p)]
           /\ UNCHANGED <<readPos, countVars>>
           /\ \/ /\ Written(len) > 0
                 /\ empty' = FALSE /\ pc' = [Woken(Readers) EXCEPT ![p] = "idle"]
              \/ /\ ~ (Written(len) > 0)
                 /\ UNCHANGED empty /\ pc' = [pc EXCEPT ![p] = "idle"]
<1> DEFINE len == Len(buffer)
           wp == IF Ahead /\ writePos + W1(len) + W2(len) = Len(GrownBy(buffer)) THEN 0
                 ELSE writePos + W1(len) + W2(len)
<1>1. wp = WP(len)
  <2>1. len \in Nat
    BY LenProperties
  <2>2. /\ writePos \in Nat /\ W1(len) \in Nat /\ W2(len) \in Nat
        /\ Len(data) \in Nat /\ Len(GrownBy(buffer)) = Len(data) + W2(len)
    BY <2>1, RingNumbers, WriteNumbers, GrownFacts DEF IsGrown
  <2>3. writePos + W1(len) + W2(len) = Len(GrownBy(buffer)) <=> writePos + W1(len) = Len(data)
    BY <2>2, SMTT(30)
  <2> QED BY <2>3 DEF WP
<1> DEFINE w3 == IF wp < readPos THEN Least(len - W1(len) - W2(len), readPos - wp) ELSE 0
<1>2. w3 = W3(len)
  BY <1>1 DEF W3
<1>3. /\ data' = Stored(GrownBy(buffer), wp,
                        SubSeq(buffer, W1(len) + W2(len) + 1, W1(len) + W2(len) + w3))
      /\ writePos' = wp + w3
      /\ full' = (full \/ wp + w3 = readPos)
      /\ Returns(p, W1(len) + W2(len) + w3)
      /\ UNCHANGED <<readPos, countVars>>
      /\ IF W1(len) + W2(len) + w3 > 0
         THEN empty' = FALSE /\ pc' = [Woken(Readers) EXCEPT ![p] = "idle"]
         ELSE UNCHANGED empty /\ pc' = [pc EXCEPT ![p] = "idle"]
  BY DEF PipeWrite, GrownBy, Grown, W1, W2, Ahead
<1> HIDE DEF wp, w3
<1> QED BY <1>1, <1>2, <1>3 DEF Returns, Written

\* The vector after a write.
LEMMA WrittenFacts ==
    ASSUME TypeOK, PositionsInside, NEW p, NEW buffer \in Seq(Bytes), PipeWrite(p, buffer)
    PROVE  /\ data' \in Seq(Bytes)
           /\ Len(data') = Len(data) + W2(Len(buffer))
           /\ \A i \in 1 .. Len(data') : data'[i] =
                  IF i > WP(Len(buffer)) /\ i <= WP(Len(buffer)) + W3(Len(buffer))
                  THEN buffer[W1(Len(buffer)) + W2(Len(buffer)) + (i - WP(Len(buffer)))]
                  ELSE GrownBy(buffer)[i]
<1> DEFINE len == Len(buffer)
           part == SubSeq(buffer, W1(len) + W2(len) + 1, Written(len))
<1>1. len \in Nat
  BY LenProperties
<1>2. /\ W1(len) \in Nat /\ W2(len) \in Nat /\ W3(len) \in Nat /\ WP(len) \in Nat
      /\ Written(len) <= len /\ Written(len) = W1(len) + W2(len) + W3(len)
  BY <1>1, WriteNumbers DEF Written
<1>3. GrownBy(buffer) \in Seq(Bytes) /\ Len(GrownBy(buffer)) = Len(data) + W2(len)
  BY GrownFacts DEF IsGrown
<1>4. data' = Stored(GrownBy(buffer), WP(len), part)
  BY PipeWriteIs
<1> DEFINE m == W1(len) + W2(len)
           n == Written(len)
<1>5. m \in Nat /\ n \in Nat /\ n <= len /\ m <= n /\ n - m = W3(len)
  BY <1>2
<1> HIDE DEF m, n
<1>6. /\ SubSeq(buffer, m + 1, n) \in Seq(Bytes)
      /\ Len(SubSeq(buffer, m + 1, n)) = IF m <= n THEN n - m ELSE 0
      /\ \A i \in 1 .. n - m : SubSeq(buffer, m + 1, n)[i] = buffer[m + i]
  BY <1>5, PartFacts
<1>7. part = SubSeq(buffer, m + 1, n)
  BY DEF m, n
<1>8. /\ part \in Seq(Bytes) /\ Len(part) = W3(len)
      /\ \A i \in 1 .. W3(len) : part[i] = buffer[m + i]
  BY <1>5, <1>6, <1>7
<1> HIDE DEF part
<1> DEFINE g == GrownBy(buffer)
           wp == WP(len)
           w3 == W3(len)
<1>9. g \in Seq(Bytes) /\ Len(g) = Len(data) + W2(len) /\ wp \in Nat /\ w3 \in Nat
  BY <1>2, <1>3
<1> HIDE DEF g, wp, w3
<1>10. /\ Stored(g, wp, part) \in Seq(Bytes) /\ Len(Stored(g, wp, part)) = Len(g)
       /\ \A i \in 1 .. Len(g) : Stored(g, wp, part)[i] =
              IF i > wp /\ i <= wp + Len(part) THEN part[i - wp] ELSE g[i]
  BY <1>8, <1>9, StoredFacts
<1>11. data' = Stored(g, wp, part) /\ Len(part) = w3
  BY <1>4, <1>8 DEF g, wp, w3
<1>12. \A i \in 1 .. Len(g) : i > wp /\ i <= wp + w3 => part[i - wp] = buffer[m + (i - wp)]
  <2> SUFFICES ASSUME NEW i \in 1 .. Len(g), i > wp, i <= wp + w3
               PROVE  part[i - wp] = buffer[m + (i - wp)]
    OBVIOUS
  <2>1. Len(g) \in Nat
    BY <1>9, LenProperties
  <2>2. i - wp \in 1 .. w3
    BY <1>9, <2>1
  <2> QED BY <1>8, <2>2 DEF w3
<1>13. /\ data' \in Seq(Bytes) /\ Len(data') = Len(g)
       /\ \A i \in 1 .. Len(g) : data'[i] =
              IF i > wp /\ i <= wp + w3 THEN buffer[m + (i - wp)] ELSE g[i]
  BY <1>10, <1>11, <1>12
<1> QED BY <1>9, <1>13 DEF g, wp, w3, m

\* A write that stores bytes wakes the readers, whose reason is gone; one that
\* stores none leaves empty as it is.
LEMMA PipeWriteStep ==
    ASSUME PipeInv, NEW p \in Writers, pc[p] = "ready", NEW buffer \in Buffers,
           PipeWrite(p, buffer)
    PROVE  PipeInv'
<1> USE UserFacts DEF PipeInv
<1> DEFINE len == Len(buffer)
<1>1. buffer \in Seq(Bytes) /\ len \in Nat
  BY BufferFacts
<1>2. /\ writePos' = WP(len) + W3(len)
      /\ full' = (full \/ WP(len) + W3(len) = readPos)
      /\ request' = [request EXCEPT ![p] = NoRequest(p)]
      /\ UNCHANGED <<readPos, countVars>>
      /\ \/ empty' = FALSE /\ pc' = [Woken(Readers) EXCEPT ![p] = "idle"]
         \/ UNCHANGED empty /\ pc' = [pc EXCEPT ![p] = "idle"]
  BY <1>1, PipeWriteIs
<1>3. data' \in Seq(Bytes) /\ Len(data') = Len(data) + W2(len)
  BY <1>1, WrittenFacts
<1>4. /\ Len(data') <= MaxPipeSize /\ Len(data) <= Len(data')
      /\ writePos' \in 0 .. Len(data')
      /\ Len(data') > 0 => writePos' < Len(data')
  <2>1. /\ W2(len) \in Nat /\ Len(data) + W2(len) <= MaxPipeSize
        /\ WP(len) + W3(len) \in 0 .. Len(data) + W2(len)
        /\ Len(data) + W2(len) > 0 => WP(len) + W3(len) < Len(data) + W2(len)
    BY <1>1, WriteNumbers
  <2>2. Len(data) \in Nat
    BY RingNumbers
  <2> QED BY <1>2, <1>3, <2>1, <2>2
<1>5. /\ readPos' \in 0 .. Len(data')
      /\ Len(data') > 0 => readPos' < Len(data')
  <2>1. readPos' = readPos /\ Len(data') \in Nat
    BY <1>2, <1>3, LenProperties
  <2>2. Len(data') > 0 /\ Len(data) = 0 => readPos = 0
    BY RingNumbers
  <2> QED BY <1>4, <2>1, <2>2, RingNumbers
<1>6. pc' \in [Users -> {"idle", "ready", "asleep"}] /\ pc'[p] = "idle"
  BY <1>2 DEF TypeOK, Woken
<1>7. \A q \in Users : q # p => pc'[q] = pc[q] \/ (pc'[q] = "ready" /\ pc[q] = "asleep")
  BY <1>2 DEF TypeOK, Woken
<1>8. TypeOK'
  <2>1. empty' \in BOOLEAN /\ full' \in BOOLEAN
    BY <1>2, Zenon DEF TypeOK
  <2> QED BY <1>2, <1>3, <1>4, <1>5, <1>6, <2>1 DEF TypeOK, countVars
<1>9. PositionsInside'
  BY <1>4, <1>5 DEF PositionsInside
<1>10. CountsAreOfOpen' /\ CallsOpen'
  BY <1>2, <1>6, <1>7, CallsStay
<1>11. SleepersHaveReason'
  <2> SUFFICES ASSUME NEW q \in Users, pc'[q] = "asleep"
               PROVE  IF q \in Readers THEN empty' /\ writerCount' > 0
                                       ELSE full' /\ readerCount' > 0
    BY DEF SleepersHaveReason
  <2>1. q # p /\ pc[q] = "asleep"
    BY <1>6, <1>7
  <2>2. CASE q \in Readers
    <3>1. ~ (pc' = [Woken(Readers) EXCEPT ![p] = "idle"])
      BY <2>1, <2>2 DEF Woken
    <3> QED BY <1>2, <2>1, <2>2, <3>1 DEF SleepersHaveReason, countVars
  <2>3. CASE q \in Writers
    BY <1>2, <2>1, <2>3 DEF SleepersHaveReason, countVars
  <2> QED BY <2>2, <2>3
<1> QED BY <1>8, <1>9, <1>10, <1>11

LEMMA ReadStepInv ==
    ASSUME PipeInv, NEW p \in Users, ReadStep(p)
    PROVE  PipeInv'
<1>1. p \in Readers /\ pc[p] = "ready" /\ request[p] \in Counts /\ request[p] \in Nat
  BY UserFacts DEF ReadStep, PipeInv, CallsOpen
<1>2. CASE ~empty /\ PipeRead(p, request[p])
  BY <1>1, <1>2, PipeReadStep
<1>3. CASE ~ (~empty /\ PipeRead(p, request[p]))
  <2>1. /\ UNCHANGED <<ringVars, countVars>>
        /\ \/ /\ request' = [request EXCEPT ![p] = NoRequest(p)]
              /\ pc' = [pc EXCEPT ![p] = "idle"]
           \/ /\ empty /\ writerCount # 0
              /\ UNCHANGED request
              /\ pc' = [pc EXCEPT ![p] = "asleep"]
    BY <1>3 DEF ReadStep, Returns
  <2>2. writerCount # 0 => writerCount > 0
    BY CountsBounded, PipeAssumption, FS_CardinalityType DEF PipeInv
  <2> QED BY <1>1, <2>1, <2>2, AnswerStep
<1> QED BY <1>2, <1>3

LEMMA WriteStepInv ==
    ASSUME PipeInv, NEW p \in Users, WriteStep(p)
    PROVE  PipeInv'
<1>1. p \in Writers /\ p \notin Readers /\ pc[p] = "ready" /\ request[p] \in Buffers
  BY UserFacts DEF WriteStep, PipeInv, CallsOpen
<1>2. CASE ~full /\ PipeWrite(p, request[p])
  BY <1>1, <1>2, PipeWriteStep
<1>3. CASE ~ (~full /\ PipeWrite(p, request[p]))
  <2>1. /\ UNCHANGED <<ringVars, countVars>>
        /\ \/ /\ request' = [request EXCEPT ![p] = NoRequest(p)]
              /\ pc' = [pc EXCEPT ![p] = "idle"]
           \/ /\ full /\ readerCount # 0
              /\ UNCHANGED request
              /\ pc' = [pc EXCEPT ![p] = "asleep"]
    BY <1>3 DEF WriteStep, Returns
  <2>2. readerCount # 0 => readerCount > 0
    BY CountsBounded, PipeAssumption, FS_CardinalityType DEF PipeInv
  <2> QED BY <1>1, <2>1, <2>2, AnswerStep
<1> QED BY <1>2, <1>3

-----------------------------------------------------------------------------
(* Closing and sharing an end.                                             *)

LEMMA CloseReaderStep ==
    ASSUME PipeInv, NEW p \in Users, CloseReader(p)
    PROVE  PipeInv'
<1> USE UserFacts DEF PipeInv
<1>1. /\ p \in Readers /\ p \in open /\ pc[p] = "idle" /\ p \notin Writers
      /\ readerCount' = readerCount - 1 /\ open' = open \ {p}
      /\ UNCHANGED <<ringVars, writerCount, request>>
      /\ pc' = pc \/ pc' = Woken(Writers)
      /\ pc' = pc => (readerCount' = 0 /\ writerCount = 0) \/ pc = Woken(Writers)
  BY DEF CloseReader
<1>2. CountsAreOfOpen'
  BY <1>1, CountsFollow DEF CountsAreOfOpen
<1>3. readerCount' \in 0 .. Cardinality(Readers) /\ writerCount' \in 0 .. Cardinality(Writers)
  BY <1>2, CountFacts, PipeAssumption DEF CountsAreOfOpen
<1>4. /\ pc' \in [Users -> {"idle", "ready", "asleep"}]
      /\ \A q \in Users : pc'[q] = pc[q] \/ (pc'[q] = "ready" /\ pc[q] = "asleep")
  BY <1>1 DEF TypeOK, Woken
<1>5. TypeOK'
  BY <1>1, <1>3, <1>4 DEF TypeOK, ringVars
<1>6. PositionsInside'
  BY <1>1 DEF PositionsInside, ringVars
<1>7. CallsOpen'
  BY <1>1, <1>4 DEF CallsOpen
<1>8. SleepersHaveReason'
  <2> SUFFICES ASSUME NEW q \in Users, pc'[q] = "asleep"
               PROVE  IF q \in Readers THEN empty' /\ writerCount' > 0
                                       ELSE full' /\ readerCount' > 0
    BY DEF SleepersHaveReason
  <2>1. pc[q] = "asleep"
    BY <1>4
  <2>2. CASE q \in Readers
    BY <1>1, <2>1, <2>2 DEF SleepersHaveReason, ringVars
  <2>3. CASE q \in Writers
    <3>1. q \in open \cap Writers
      BY <2>1, <2>3 DEF CallsOpen
    <3>2. writerCount > 0
      BY <3>1, CountFacts, PipeAssumption DEF CountsAreOfOpen
    <3>3. Woken(Writers)[q] = "ready"
      BY <2>1, <2>3 DEF Woken
    <3> QED BY <1>1, <2>1, <3>2, <3>3
  <2> QED BY <2>2, <2>3
<1> QED BY <1>2, <1>5, <1>6, <1>7, <1>8

LEMMA CloseWriterStep ==
    ASSUME PipeInv, NEW p \in Users, CloseWriter(p)
    PROVE  PipeInv'
<1> USE UserFacts DEF PipeInv
<1>1. /\ p \in Writers /\ p \in open /\ pc[p] = "idle" /\ p \notin Readers
      /\ writerCount' = writerCount - 1 /\ open' = open \ {p}
      /\ UNCHANGED <<ringVars, readerCount, request>>
      /\ pc' = pc \/ pc' = Woken(Readers)
      /\ pc' = pc => (readerCount = 0 /\ writerCount' = 0) \/ pc = Woken(Readers)
  BY DEF CloseWriter
<1>2. CountsAreOfOpen'
  BY <1>1, CountsFollow DEF CountsAreOfOpen
<1>3. readerCount' \in 0 .. Cardinality(Readers) /\ writerCount' \in 0 .. Cardinality(Writers)
  BY <1>2, CountFacts, PipeAssumption DEF CountsAreOfOpen
<1>4. /\ pc' \in [Users -> {"idle", "ready", "asleep"}]
      /\ \A q \in Users : pc'[q] = pc[q] \/ (pc'[q] = "ready" /\ pc[q] = "asleep")
  BY <1>1 DEF TypeOK, Woken
<1>5. TypeOK'
  BY <1>1, <1>3, <1>4 DEF TypeOK, ringVars
<1>6. PositionsInside'
  BY <1>1 DEF PositionsInside, ringVars
<1>7. CallsOpen'
  BY <1>1, <1>4 DEF CallsOpen
<1>8. SleepersHaveReason'
  <2> SUFFICES ASSUME NEW q \in Users, pc'[q] = "asleep"
               PROVE  IF q \in Readers THEN empty' /\ writerCount' > 0
                                       ELSE full' /\ readerCount' > 0
    BY DEF SleepersHaveReason
  <2>1. pc[q] = "asleep"
    BY <1>4
  <2>2. CASE q \in Writers
    BY <1>1, <2>1, <2>2 DEF SleepersHaveReason, ringVars
  <2>3. CASE q \in Readers
    <3>1. q \in open \cap Readers
      BY <2>1, <2>3 DEF CallsOpen
    <3>2. readerCount > 0
      BY <3>1, CountFacts, PipeAssumption DEF CountsAreOfOpen
    <3>3. Woken(Readers)[q] = "ready"
      BY <2>1, <2>3 DEF Woken
    <3> QED BY <1>1, <2>1, <3>2, <3>3
  <2> QED BY <2>2, <2>3
<1> QED BY <1>2, <1>5, <1>6, <1>7, <1>8

LEMMA ShareStep ==
    ASSUME PipeInv, NEW p \in Users, NEW q \in Users, Share(p, q)
    PROVE  PipeInv'
<1> USE UserFacts DEF PipeInv
<1>1. /\ q \notin open /\ open' = open \cup {q}
      /\ readerCount' = readerCount + (IF q \in Readers THEN 1 ELSE 0)
      /\ writerCount' = writerCount + (IF q \in Writers THEN 1 ELSE 0)
      /\ UNCHANGED <<ringVars, pc, request>>
  BY DEF Share
<1>2. CountsAreOfOpen'
  <2>1. readerCount \in Int /\ writerCount \in Int
    BY CountsBounded
  <2>2. CASE q \in Readers
    <3>1. q \notin Writers
      BY <2>2
    <3>2. readerCount' = readerCount + 1 /\ writerCount' = writerCount
      BY <1>1, <2>1, <2>2, <3>1
    <3>3. /\ Cardinality((open \cup {q}) \cap Readers) = readerCount + 1
          /\ (open \cup {q}) \cap Writers = open \cap Writers
      BY <1>1, <2>2, <3>1, CountsFollow
    <3> QED BY <1>1, <3>2, <3>3 DEF CountsAreOfOpen
  <2>3. CASE q \in Writers
    <3>1. q \notin Readers
      BY <2>3
    <3>2. writerCount' = writerCount + 1 /\ readerCount' = readerCount
      BY <1>1, <2>1, <2>3, <3>1
    <3>3. /\ Cardinality((open \cup {q}) \cap Writers) = writerCount + 1
          /\ (open \cup {q}) \cap Readers = open \cap Readers
      BY <1>1, <2>3, <3>1, CountsFollow
    <3> QED BY <1>1, <3>2, <3>3 DEF CountsAreOfOpen
  <2> QED BY <2>2, <2>3 DEF Users
<1>3. readerCount' \in 0 .. Cardinality(Readers) /\ writerCount' \in 0 .. Cardinality(Writers)
  BY <1>2, CountFacts, PipeAssumption DEF CountsAreOfOpen
<1>4. TypeOK'
  BY <1>1, <1>3 DEF TypeOK, ringVars
<1>5. PositionsInside' /\ CallsOpen'
  BY <1>1 DEF PositionsInside, CallsOpen, ringVars
<1>6. SleepersHaveReason'
  <2>1. readerCount' >= readerCount /\ writerCount' >= writerCount
    BY <1>1, CountsBounded, PipeAssumption, FS_CardinalityType
  <2>2. readerCount \in Int /\ writerCount \in Int /\ readerCount' \in Int /\ writerCount' \in Int
    BY <1>3, CountsBounded
  <2> QED BY <1>1, <2>1, <2>2 DEF SleepersHaveReason, ringVars
<1> QED BY <1>2, <1>4, <1>5, <1>6

LEMMA NextStep == PipeInv /\ [Next]_vars => PipeInv'
<1> SUFFICES ASSUME PipeInv, [Next]_vars PROVE PipeInv'
  OBVIOUS
<1>1. ASSUME NEW p \in Users,
             \/ CallRead(p) \/ CallWrite(p) \/ ReadStep(p) \/ WriteStep(p)
             \/ CloseReader(p) \/ CloseWriter(p)
      PROVE  PipeInv'
  BY <1>1, CallStep, ReadStepInv, WriteStepInv, CloseReaderStep, CloseWriterStep
<1>2. ASSUME NEW p \in Users, NEW q \in Users, Share(p, q)
      PROVE  PipeInv'
  BY <1>2, ShareStep
<1>3. CASE UNCHANGED vars
  BY <1>3 DEF vars, ringVars, countVars, PipeInv, TypeOK, PositionsInside, CountsAreOfOpen,
              CallsOpen, SleepersHaveReason
<1> QED BY <1>1, <1>2, <1>3 DEF Next

\* The inductive invariant holds of every behaviour of the pipe.
THEOREM Invariance == Spec => []PipeInv
BY InitInv, NextStep, PTL DEF Spec

\* Types: the vector never exceeds maxPipeSize, the positions never leave it and
\* the counts never those of the processes, whatever lengths are asked for.
THEOREM TypeCorrect == Spec => []TypeOK
<1>1. PipeInv => TypeOK
  BY DEF PipeInv
<1> QED BY <1>1, Invariance, PTL

\* No wakeup is lost: a reader sleeps only while the pipe is empty and has a
\* writer, a writer only while it is full and has a reader.
THEOREM NoLostWakeup == Spec => []SleepersHaveReason
<1>1. PipeInv => SleepersHaveReason
  BY DEF PipeInv
<1> QED BY <1>1, Invariance, PTL

-----------------------------------------------------------------------------
(* The flags, when no call asks for zero bytes.                            *)

\* Where the positions meet the pipe is empty or full, and never both.
FlagsTellTheRing ==
    /\ ~ (empty /\ full)
    /\ readPos = writePos <=> empty \/ full
    /\ Len(data) = 0 => empty

RingInv == PipeInv /\ FlagsTellTheRing

\* A read of a pipe that is not empty takes a byte.
LEMMA ReadTakes ==
    ASSUME RingInv, ~empty, NEW count \in Nat, count > 0
    PROVE  /\ R1(count) + R2(count) > 0
           /\ Len(TakenBytes(count)) = R1(count) + R2(count)
           /\ TakenBytes(count) # <<>>
<1> USE DEF RingInv, PipeInv
<1>1. /\ Len(data) > 0 /\ readPos < Len(data)
      /\ readPos \in Nat /\ writePos \in Nat /\ Len(data) \in Nat
  BY RingNumbers DEF FlagsTellTheRing
<1>2. R1(count) + R2(count) > 0
  <2>1. CASE UnreadWraps
    <3>1. R1(count) > 0
      BY <1>1, <2>1 DEF R1, Least
    <3> QED BY <3>1, ReadNumbers, SMTT(30)
  <2>2. CASE ~UnreadWraps
    <3>1. R1(count) = 0 /\ RP(count) = readPos /\ readPos < writePos
      BY <1>1, <2>2 DEF R1, RP, UnreadWraps
    <3>2. R2(count) > 0
      BY <1>1, <3>1 DEF R2, Least
    <3> QED BY <3>1, <3>2, ReadNumbers
  <2> QED BY <2>1, <2>2
<1>3. Len(TakenBytes(count)) = R1(count) + R2(count)
  <2> DEFINE a == readPos
             b == readPos + R1(count)
             c == RP(count)
             d == RP(count) + R2(count)
  <2>1. /\ a \in Nat /\ b \in Nat /\ c \in Nat /\ d \in Nat
        /\ a <= b /\ b <= Len(data) /\ c <= d /\ d <= Len(data)
        /\ b - a = R1(count) /\ d - c = R2(count)
    <3>1. /\ R1(count) \in Nat /\ RP(count) \in Nat /\ R2(count) \in Nat
          /\ readPos + R1(count) <= Len(data) /\ RP(count) + R2(count) <= Len(data)
      <4>1. RP(count) + R2(count) \in 0 .. Len(data)
        BY ReadNumbers
      <4>2. /\ R1(count) \in Nat /\ RP(count) \in Nat /\ R2(count) \in Nat
            /\ readPos + R1(count) <= Len(data)
        BY ReadNumbers
      <4> QED BY <4>1, <4>2
    <3> QED BY <1>1, <3>1
  <2> HIDE DEF a, b, c, d
  <2>2. data \in Seq(Bytes)
    BY DEF TypeOK
  <2>3. /\ SubSeq(data, a + 1, b) \in Seq(Bytes) /\ Len(SubSeq(data, a + 1, b)) = b - a
        /\ SubSeq(data, c + 1, d) \in Seq(Bytes) /\ Len(SubSeq(data, c + 1, d)) = d - c
    BY <2>1, <2>2, PartFacts
  <2>4. Len(SubSeq(data, a + 1, b) \o SubSeq(data, c + 1, d)) = (b - a) + (d - c)
    BY <2>3, ConcatProperties
  <2>5. TakenBytes(count) = SubSeq(data, a + 1, b) \o SubSeq(data, c + 1, d)
    BY DEF TakenBytes, a, b, c, d
  <2> QED BY <2>1, <2>4, <2>5
<1>4. Len(<< >>) = 0
  OBVIOUS
<1> QED BY <1>2, <1>3, <1>4

\* A write of a pipe that is not full stores a byte.
LEMMA WriteStores ==
    ASSUME RingInv, ~full, NEW len \in Nat, len > 0
    PROVE  Written(len) > 0
<1> USE DEF RingInv, PipeInv
<1>1. /\ readPos \in Nat /\ writePos \in Nat /\ Len(data) \in Nat
      /\ readPos <= Len(data) /\ writePos <= Len(data)
      /\ Len(data) > 0 => writePos < Len(data)
      /\ MaxPipeSize \in Nat /\ MaxPipeSize > 0
  BY RingNumbers, UserFacts
<1>2. W1(len) \in Nat /\ W2(len) \in Nat /\ W3(len) \in Nat
  BY WriteNumbers
<1>3. W1(len) > 0 \/ W2(len) > 0 \/ W3(len) > 0
  <2>1. CASE Ahead /\ writePos < Len(data)
    BY <1>1, <2>1 DEF W1, Least
  <2>2. CASE Ahead /\ ~ (writePos < Len(data))
    <3>1. Len(data) = 0 /\ writePos = 0
      BY <1>1, <2>2
    <3>2. W1(len) = 0
      BY <2>2, <3>1 DEF W1, Least
    <3>3. W2(len) > 0
      BY <1>1, <2>2, <3>1, <3>2 DEF W2, Least
    <3> QED BY <3>3
  <2>3. CASE ~Ahead
    <3>1. W1(len) = 0 /\ W2(len) = 0 /\ writePos < readPos
      BY <1>1, <2>3 DEF W1, W2, Ahead
    <3>2. WP(len) = writePos
      BY <1>1, <2>3, <3>1 DEF WP
    <3>3. W3(len) > 0
      BY <1>1, <3>1, <3>2 DEF W3, Least
    <3> QED BY <3>3
  <2> QED BY <2>1, <2>2, <2>3
<1> QED BY <1>2, <1>3 DEF Written

LEMMA FlagsRead ==
    ASSUME RingInv, NEW p \in Readers, pc[p] = "ready", ~empty,
           NEW count \in Nat, count > 0, PipeRead(p, count)
    PROVE  FlagsTellTheRing'
<1>1. /\ readPos' = RP(count) + R2(count)
      /\ empty' = (empty \/ RP(count) + R2(count) = writePos)
      /\ UNCHANGED <<data, writePos>>
      /\ full' = FALSE
  BY ReadTakes, PipeReadIs
<1>2. readPos' = writePos' <=> empty'
  BY <1>1
<1>3. ~ (Len(data) = 0)
  BY DEF RingInv, FlagsTellTheRing
<1> QED BY <1>1, <1>2, <1>3 DEF FlagsTellTheRing

LEMMA FlagsWrite ==
    ASSUME RingInv, NEW p \in Writers, pc[p] = "ready", ~full,
           NEW buffer \in Seq(Bytes), Len(buffer) > 0, PipeWrite(p, buffer)
    PROVE  FlagsTellTheRing'
<1> DEFINE len == Len(buffer)
<1> USE DEF RingInv, PipeInv
<1>1. len \in Nat
  BY LenProperties
<1>2. Written(len) > 0
  BY <1>1, WriteStores
<1>3. /\ writePos' = WP(len) + W3(len)
      /\ full' = (full \/ WP(len) + W3(len) = readPos)
      /\ UNCHANGED readPos
      /\ empty' = FALSE
  BY <1>2, PipeWriteIs
<1>4. readPos' = writePos' <=> full'
  BY <1>3
<1>5. Len(data') # 0
  <2>1. /\ W1(len) \in Nat /\ W2(len) \in Nat /\ W3(len) \in Nat /\ WP(len) \in Nat
        /\ writePos + W1(len) <= Len(data)
        /\ WP(len) + W3(len) \in 0 .. Len(data) + W2(len)
    BY <1>1, WriteNumbers
  <2>2. Len(data') = Len(data) + W2(len) /\ Len(data) \in Nat /\ writePos \in Nat
    BY <1>1, WrittenFacts, RingNumbers
  <2> QED BY <1>2, <2>1, <2>2 DEF Written
<1> QED BY <1>3, <1>4, <1>5 DEF FlagsTellTheRing

LEMMA FlagsInit == Init => FlagsTellTheRing
BY DEF Init, InitialFlags, FlagsTellTheRing

LEMMA FlagsStep ==
    ASSUME 0 \notin Counts, RingInv, [Next]_vars
    PROVE  FlagsTellTheRing'
<1>0. \A n \in Counts : n \in Nat /\ n > 0
  BY UserFacts
<1>1. CASE UNCHANGED ringVars
  BY <1>1 DEF RingInv, FlagsTellTheRing, ringVars
<1>2. ASSUME NEW p \in Users, ReadStep(p) PROVE FlagsTellTheRing'
  <2>1. p \in Readers /\ pc[p] = "ready" /\ request[p] \in Counts
    BY <1>2, UserFacts DEF ReadStep, RingInv, PipeInv, CallsOpen
  <2>2. request[p] \in Nat /\ request[p] > 0
    BY <1>0, <2>1
  <2>3. CASE ~empty /\ PipeRead(p, request[p])
    BY <2>1, <2>2, <2>3, FlagsRead
  <2>4. CASE UNCHANGED ringVars
    BY <1>1, <2>4
  <2>5. (~empty /\ PipeRead(p, request[p])) \/ UNCHANGED ringVars
    BY <1>2 DEF ReadStep
  <2> QED BY <2>3, <2>4, <2>5
<1>3. ASSUME NEW p \in Users, WriteStep(p) PROVE FlagsTellTheRing'
  <2>1. p \in Writers /\ pc[p] = "ready" /\ request[p] \in Buffers
    BY <1>3, UserFacts DEF WriteStep, RingInv, PipeInv, CallsOpen
  <2>2. request[p] \in Seq(Bytes) /\ Len(request[p]) > 0
    BY <1>0, <2>1, BufferFacts
  <2>3. CASE ~full /\ PipeWrite(p, request[p])
    BY <2>1, <2>2, <2>3, FlagsWrite
  <2>4. CASE UNCHANGED ringVars
    BY <1>1, <2>4
  <2>5. (~full /\ PipeWrite(p, request[p])) \/ UNCHANGED ringVars
    BY <1>3 DEF WriteStep
  <2> QED BY <2>3, <2>4, <2>5
<1>4. ASSUME NEW p \in Users, CallRead(p) \/ CallWrite(p) \/ CloseReader(p) \/ CloseWriter(p)
      PROVE  FlagsTellTheRing'
  BY <1>1, <1>4 DEF CallRead, CallWrite, CloseReader, CloseWriter
<1>5. ASSUME NEW p \in Users, NEW q \in Users, Share(p, q) PROVE FlagsTellTheRing'
  BY <1>1, <1>5 DEF Share
<1>6. CASE UNCHANGED vars
  BY <1>1, <1>6 DEF vars
<1> QED BY <1>2, <1>3, <1>4, <1>5, <1>6 DEF Next

\* With calls that ask for one byte or more, the flags tell the ring.
THEOREM RingInvariance ==
    ASSUME 0 \notin Counts
    PROVE  Spec => []RingInv
<1>1. Init => RingInv
  BY InitInv, FlagsInit DEF RingInv
<1>2. RingInv /\ [Next]_vars => RingInv'
  BY NextStep, FlagsStep DEF RingInv
<1> QED BY <1>1, <1>2, PTL DEF Spec

\* The two ends never wait for each other, when no call asks for zero bytes: a
\* sleeping reader has the pipe empty, a sleeping writer full, and it is not both.
THEOREM EndsDoNotDeadlock ==
    ASSUME 0 \notin Counts
    PROVE  Spec => []NotBothEndsAsleep
<1>1. RingInv => NotBothEndsAsleep
  <2> SUFFICES ASSUME RingInv, NEW r \in Readers, NEW w \in Writers,
                      pc[r] = "asleep", pc[w] = "asleep"
               PROVE  FALSE
    BY DEF NotBothEndsAsleep
  <2>1. r \in Users /\ w \in Users /\ w \notin Readers
    BY UserFacts
  <2>2. empty /\ full
    BY <2>1 DEF RingInv, PipeInv, SleepersHaveReason
  <2> QED BY <2>2 DEF RingInv, FlagsTellTheRing
<1> QED BY <1>1, RingInvariance, PTL

-----------------------------------------------------------------------------
(* The ring is a queue of bytes: how many it holds, and which is the i-th. *)

Held == IF empty THEN 0
        ELSE IF readPos < writePos THEN writePos - readPos
        ELSE (Len(data) - readPos) + writePos
At(i) == IF readPos + i <= Len(data) THEN data[readPos + i]
         ELSE data[(readPos + i) - Len(data)]

\* The sequence s is the unread bytes.
IsContents(s) ==
    s \in Seq(Bytes) /\ Len(s) = Held /\ \A i \in 1 .. Held : s[i] = At(i)

\* Two parts of a vector, one after the other.
LEMMA TwoParts ==
    ASSUME NEW s \in Seq(Bytes), NEW a \in Nat, NEW b \in Nat, NEW c \in Nat, NEW d \in Nat,
           a <= b, b <= Len(s), c <= d, d <= Len(s)
    PROVE  /\ SubSeq(s, a + 1, b) \o SubSeq(s, c + 1, d) \in Seq(Bytes)
           /\ Len(SubSeq(s, a + 1, b) \o SubSeq(s, c + 1, d)) = (b - a) + (d - c)
           /\ \A i \in 1 .. (b - a) + (d - c) :
                  (SubSeq(s, a + 1, b) \o SubSeq(s, c + 1, d))[i] =
                      IF i <= b - a THEN s[a + i] ELSE s[c + (i - (b - a))]
<1> DEFINE x == SubSeq(s, a + 1, b)
           y == SubSeq(s, c + 1, d)
<1>1. /\ x \in Seq(Bytes) /\ Len(x) = b - a
      /\ \A i \in 1 .. b - a : x[i] = s[a + i]
  BY PartFacts
<1>2. /\ y \in Seq(Bytes) /\ Len(y) = d - c
      /\ \A i \in 1 .. d - c : y[i] = s[c + i]
  BY PartFacts
<1> HIDE DEF x, y
<1>3. /\ x \o y \in Seq(Bytes) /\ Len(x \o y) = Len(x) + Len(y)
      /\ \A i \in 1 .. Len(x) + Len(y) : (x \o y)[i] = IF i <= Len(x) THEN x[i] ELSE y[i - Len(x)]
  BY <1>1, <1>2, ConcatProperties
<1>4. ASSUME NEW i \in 1 .. (b - a) + (d - c)
      PROVE  (x \o y)[i] = IF i <= b - a THEN s[a + i] ELSE s[c + (i - (b - a))]
  <2>1. (x \o y)[i] = IF i <= b - a THEN x[i] ELSE y[i - (b - a)]
    BY <1>1, <1>2, <1>3
  <2>2. CASE i <= b - a
    <3>1. i \in 1 .. b - a
      BY <2>2
    <3> QED BY <1>1, <2>1, <2>2, <3>1
  <2>3. CASE ~ (i <= b - a)
    <3>1. i - (b - a) \in 1 .. d - c
      BY <2>3
    <3> QED BY <1>2, <2>1, <2>3, <3>1
  <2> QED BY <2>2, <2>3
<1> QED BY <1>1, <1>2, <1>3, <1>4 DEF x, y

LEMMA ContentsIs ==
    ASSUME TypeOK, PositionsInside
    PROVE  IsContents(Contents)
<1>1. /\ readPos \in Nat /\ writePos \in Nat /\ Len(data) \in Nat
      /\ readPos <= Len(data) /\ writePos <= Len(data) /\ data \in Seq(Bytes)
  BY RingNumbers DEF TypeOK
<1>2. CASE empty
  <2>1. Contents = << >> /\ Held = 0
    BY <1>2 DEF Contents, Held
  <2> QED BY <2>1, EmptySeq DEF IsContents
<1>3. CASE ~empty /\ readPos < writePos
  <2>1. Contents = SubSeq(data, readPos + 1, writePos) /\ Held = writePos - readPos
    BY <1>3 DEF Contents, Held
  <2>2. /\ Contents \in Seq(Bytes) /\ Len(Contents) = Held
        /\ \A i \in 1 .. Held : Contents[i] = data[readPos + i]
    BY <1>1, <1>3, <2>1, PartFacts
  <2>3. \A i \in 1 .. Held : At(i) = data[readPos + i]
    BY <1>1, <1>3, <2>1 DEF At
  <2> QED BY <2>2, <2>3 DEF IsContents
<1>4. CASE ~empty /\ ~ (readPos < writePos)
  <2>1. Contents = SubSeq(data, readPos + 1, Len(data)) \o SubSeq(data, 1, writePos)
    BY <1>4 DEF Contents
  <2>2. Held = (Len(data) - readPos) + writePos
    BY <1>4 DEF Held
  <2> DEFINE a == readPos
             b == Len(data)
             d == writePos
             s == SubSeq(data, a + 1, b) \o SubSeq(data, 0 + 1, d)
  <2>3. a \in Nat /\ b \in Nat /\ d \in Nat /\ a <= b /\ b <= Len(data) /\ d <= Len(data)
    BY <1>1
  <2>4. Contents = s
    BY <2>1
  <2> HIDE DEF a, b, d
  <2>5. /\ s \in Seq(Bytes) /\ Len(s) = (b - a) + (d - 0)
        /\ \A i \in 1 .. (b - a) + (d - 0) : s[i] =
               IF i <= b - a THEN data[a + i] ELSE data[0 + (i - (b - a))]
    BY <1>1, <2>3, TwoParts
  <2> HIDE DEF s
  <2>6. Held = (b - a) + (d - 0)
    BY <2>2, <2>3 DEF a, b, d
  <2>7. ASSUME NEW i \in 1 .. Held
        PROVE  At(i) = IF i <= b - a THEN data[a + i] ELSE data[0 + (i - (b - a))]
    <3>1. readPos + i <= Len(data) <=> i <= b - a
      BY <1>1, <2>6 DEF a, b
    <3>2. ~ (i <= b - a) => 0 + (i - (b - a)) = (readPos + i) - Len(data)
      BY <1>1, <2>6 DEF a, b
    <3> QED BY <3>1, <3>2 DEF At, a
  <2> QED BY <2>4, <2>5, <2>6, <2>7 DEF IsContents
<1> QED BY <1>2, <1>3, <1>4

\* The bytes that a read takes are the first ones held, as many as it asks for.
LEMMA TakenIs ==
    ASSUME RingInv, ~empty, NEW count \in Nat, count > 0
    PROVE  /\ R1(count) + R2(count) = Least(count, Held)
           /\ TakenBytes(count) \in Seq(Bytes)
           /\ Len(TakenBytes(count)) = Least(count, Held)
           /\ \A i \in 1 .. Least(count, Held) : TakenBytes(count)[i] = At(i)
<1> USE DEF RingInv, PipeInv
<1>1. /\ Len(data) > 0 /\ readPos < Len(data) /\ writePos < Len(data)
      /\ readPos \in Nat /\ writePos \in Nat /\ Len(data) \in Nat /\ data \in Seq(Bytes)
  BY RingNumbers DEF FlagsTellTheRing, TypeOK
<1>2. /\ R1(count) \in Nat /\ RP(count) \in Nat /\ R2(count) \in Nat
      /\ readPos + R1(count) <= Len(data)
  BY ReadNumbers
<1>3. RP(count) + R2(count) <= Len(data)
  <2>1. RP(count) + R2(count) \in 0 .. Len(data)
    BY ReadNumbers
  <2> QED BY <2>1
<1>4. R1(count) + R2(count) = Least(count, Held)
  <2>1. CASE UnreadWraps /\ count < Len(data) - readPos
    <3>1. R1(count) = count /\ RP(count) = readPos + count
      BY <1>1, <2>1 DEF R1, RP, Least
    <3>2. R2(count) = 0
      BY <1>1, <2>1, <3>1 DEF R2, UnreadWraps
    <3>3. Held = (Len(data) - readPos) + writePos
      BY <1>1, <2>1 DEF Held, UnreadWraps
    <3> QED BY <1>1, <2>1, <3>1, <3>2, <3>3 DEF Least
  <2>2. CASE UnreadWraps /\ ~ (count < Len(data) - readPos)
    <3>1. R1(count) = Len(data) - readPos /\ RP(count) = 0
      BY <1>1, <2>2 DEF R1, RP, Least
    <3>2. R2(count) = Least(count - R1(count), writePos)
      BY <1>1, <2>2, <3>1 DEF R2, Least
    <3>3. Held = (Len(data) - readPos) + writePos
      BY <1>1, <2>2 DEF Held, UnreadWraps
    <3> QED BY <1>1, <2>2, <3>1, <3>2, <3>3 DEF Least
  <2>3. CASE ~UnreadWraps
    <3>1. R1(count) = 0 /\ RP(count) = readPos /\ readPos < writePos
      BY <1>1, <2>3 DEF R1, RP, UnreadWraps
    <3>2. R2(count) = Least(count, writePos - readPos)
      BY <1>1, <3>1 DEF R2, Least
    <3>3. Held = writePos - readPos
      BY <1>1, <3>1 DEF Held
    <3>4. Least(count, Held) \in Int
      BY <1>1, <3>3 DEF Least
    <3> QED BY <3>1, <3>2, <3>3, <3>4
  <2> QED BY <2>1, <2>2, <2>3
<1> DEFINE a == readPos
           b == readPos + R1(count)
           c == RP(count)
           d == RP(count) + R2(count)
           n == Least(count, Held)
           s == SubSeq(data, a + 1, b) \o SubSeq(data, c + 1, d)
<1>5. /\ a \in Nat /\ b \in Nat /\ c \in Nat /\ d \in Nat
      /\ a <= b /\ b <= Len(data) /\ c <= d /\ d <= Len(data)
      /\ b - a = R1(count) /\ d - c = R2(count)
  BY <1>1, <1>2, <1>3
<1>6. (b - a) + (d - c) = n
  BY <1>4, <1>5
<1>7. ASSUME NEW i \in 1 .. n, ~ (i <= R1(count))
      PROVE  At(i) = data[RP(count) + (i - R1(count))]
  <2>1. i \in Nat /\ i > R1(count) /\ i <= R1(count) + R2(count)
    BY <1>2, <1>4, <1>7
  <2>2. RP(count) < writePos
    BY <1>2, <2>1 DEF R2
  <2>3. CASE UnreadWraps
    <3>1. RP(count) = 0 /\ readPos + R1(count) = Len(data)
      BY <1>1, <1>2, <2>2, <2>3 DEF RP, UnreadWraps
    <3>2. ~ (readPos + i <= Len(data)) /\ (readPos + i) - Len(data) = RP(count) + (i - R1(count))
      BY <1>1, <1>2, <2>1, <3>1
    <3> QED BY <3>2 DEF At
  <2>4. CASE ~UnreadWraps
    <3>1. R1(count) = 0 /\ RP(count) = readPos
      BY <1>1, <2>4 DEF R1, RP
    <3>2. readPos + i <= Len(data) /\ readPos + i = RP(count) + (i - R1(count))
      BY <1>1, <1>2, <1>3, <2>1, <3>1
    <3> QED BY <3>2 DEF At
  <2> QED BY <2>3, <2>4
<1>8. ASSUME NEW i \in 1 .. n, i <= R1(count)
      PROVE  At(i) = data[readPos + i]
  <2>1. i \in Nat /\ readPos + i <= Len(data)
    BY <1>1, <1>2, <1>4, <1>8
  <2> QED BY <2>1 DEF At
<1> HIDE DEF a, b, c, d
<1>9. /\ s \in Seq(Bytes) /\ Len(s) = (b - a) + (d - c)
      /\ \A i \in 1 .. (b - a) + (d - c) : s[i] =
             IF i <= b - a THEN data[a + i] ELSE data[c + (i - (b - a))]
  BY <1>1, <1>5, TwoParts
<1>10. TakenBytes(count) = s
  BY DEF TakenBytes, a, b, c, d
<1> HIDE DEF s, n
<1>11. \A i \in 1 .. n : s[i] = At(i)
  BY <1>5, <1>6, <1>7, <1>8, <1>9 DEF a, c
<1> QED BY <1>4, <1>6, <1>9, <1>10, <1>11 DEF n

LEMMA NextContentsIs == (TypeOK /\ PositionsInside)' => IsContents(Contents)'
<1>1. TypeOK /\ PositionsInside => IsContents(Contents)
  BY ContentsIs
<1> QED BY <1>1, PTL

\* After a read, the bytes held are those that followed the ones it took.
LEMMA HeldAfterRead ==
    ASSUME RingInv, ~empty, NEW p \in Readers, pc[p] = "ready",
           NEW count \in Nat, count > 0, PipeRead(p, count)
    PROVE  /\ Held' = Held - Least(count, Held)
           /\ \A i \in 1 .. Held - Least(count, Held) : At(i)' = At(Least(count, Held) + i)
<1> USE DEF RingInv, PipeInv
<1>1. /\ Len(data) > 0 /\ readPos < Len(data) /\ writePos < Len(data)
      /\ readPos \in Nat /\ writePos \in Nat /\ Len(data) \in Nat
      /\ readPos = writePos <=> full
  BY RingNumbers DEF FlagsTellTheRing
<1>2. /\ readPos' = RP(count) + R2(count)
      /\ empty' <=> readPos' = writePos
      /\ data' = data /\ writePos' = writePos
  <2>1. /\ empty' = (empty \/ RP(count) + R2(count) = writePos)
        /\ readPos' = RP(count) + R2(count)
    BY PipeReadIs
  <2>2. empty' <=> readPos' = writePos
    BY <2>1
  <2> QED BY <2>1, <2>2, PipeReadIs
<1>3. R1(count) + R2(count) = Least(count, Held)
  BY TakenIs
<1>4. CASE UnreadWraps /\ count < Len(data) - readPos
  <2>1. R1(count) = count /\ RP(count) = readPos + count
    BY <1>1, <1>4 DEF R1, RP, Least
  <2>2. R2(count) = 0
    BY <1>1, <1>4, <2>1 DEF R2, UnreadWraps
  <2>3. Held = (Len(data) - readPos) + writePos
    BY <1>1, <1>4 DEF Held, UnreadWraps
  <2>4. readPos' = readPos + count /\ ~ (readPos' = writePos) /\ ~ (readPos' < writePos)
    BY <1>1, <1>2, <1>4, <2>1, <2>2 DEF UnreadWraps
  <2>5. Held' = (Len(data) - readPos') + writePos
    BY <1>2, <2>4 DEF Held
  <2>6. Least(count, Held) = count
    BY <1>3, <2>1, <2>2
  <2>7. Held' = Held - count
    BY <1>1, <2>3, <2>4, <2>5
  <2>8. ASSUME NEW i \in 1 .. Held - count PROVE At(i)' = At(count + i)
    <3>1. readPos' + i = readPos + (count + i)
      BY <1>1, <2>3, <2>4
    <3> QED BY <1>2, <3>1 DEF At
  <2> QED BY <2>6, <2>7, <2>8
<1>5. CASE UnreadWraps /\ ~ (count < Len(data) - readPos)
  <2>1. R1(count) = Len(data) - readPos /\ RP(count) = 0
    BY <1>1, <1>5 DEF R1, RP, Least
  <2>2. R2(count) \in Nat /\ R2(count) <= writePos
    BY <1>1, <1>5, <2>1 DEF R2, Least
  <2>3. Held = (Len(data) - readPos) + writePos
    BY <1>1, <1>5 DEF Held, UnreadWraps
  <2>4. readPos' = R2(count)
    BY <1>2, <2>1, <2>2
  <2>5. Held' = writePos - R2(count)
    <3>1. ~ (readPos' < writePos) => readPos' = writePos
      BY <1>1, <2>2, <2>4
    <3>2. empty' => writePos - R2(count) = 0
      <4>1. empty' => R2(count) = writePos
        BY <1>2, <2>4
      <4> QED BY <1>1, <4>1
    <3>3. ~ empty' => readPos' < writePos
      BY <1>2, <3>1
    <3> QED BY <1>2, <2>4, <3>2, <3>3 DEF Held
  <2>6. Least(count, Held) = (Len(data) - readPos) + R2(count)
    BY <1>3, <2>1
  <2>7. Held' = Held - Least(count, Held)
    BY <1>1, <2>2, <2>3, <2>5, <2>6
  <2>8. ASSUME NEW i \in 1 .. Held - Least(count, Held)
        PROVE  At(i)' = At(Least(count, Held) + i)
    <3>1. i \in Nat /\ i >= 1 /\ i <= writePos - R2(count)
      BY <1>1, <2>2, <2>3, <2>6
    <3>2. readPos' + i <= Len(data)
      BY <1>1, <2>2, <2>4, <3>1
    <3>3. /\ ~ (readPos + (Least(count, Held) + i) <= Len(data))
          /\ (readPos + (Least(count, Held) + i)) - Len(data) = readPos' + i
      BY <1>1, <2>2, <2>4, <2>6, <3>1
    <3>4. At(i)' = data[readPos' + i]
      BY <1>2, <3>2 DEF At
    <3>5. At(Least(count, Held) + i) = data[readPos' + i]
      BY <3>3 DEF At
    <3> QED BY <3>4, <3>5
  <2> QED BY <2>7, <2>8
<1>6. CASE ~UnreadWraps
  <2>1. R1(count) = 0 /\ RP(count) = readPos /\ readPos < writePos
    BY <1>1, <1>6 DEF R1, RP, UnreadWraps
  <2>2. R2(count) \in Nat /\ R2(count) <= writePos - readPos
    BY <1>1, <2>1 DEF R2, Least
  <2>3. Held = writePos - readPos
    BY <1>1, <2>1 DEF Held
  <2>4. readPos' = readPos + R2(count)
    BY <1>2, <2>1
  <2>5. Held' = Held - R2(count)
    <3>1. ~ (readPos' < writePos) => readPos' = writePos
      BY <1>1, <2>2, <2>4
    <3>2. empty' => (writePos - readPos) - R2(count) = 0
      <4>1. empty' => readPos + R2(count) = writePos
        BY <1>2, <2>4
      <4> QED BY <1>1, <2>2, <4>1
    <3>3. ~ empty' => readPos' < writePos
      BY <1>2, <3>1
    <3>4. writePos - readPos' = (writePos - readPos) - R2(count)
      BY <1>1, <2>2, <2>4
    <3> QED BY <1>2, <2>3, <3>2, <3>3, <3>4 DEF Held
  <2>6. Least(count, Held) = R2(count)
    BY <1>3, <2>1, <2>2
  <2>7. ASSUME NEW i \in 1 .. Held - R2(count) PROVE At(i)' = At(R2(count) + i)
    <3>1. readPos' + i = readPos + (R2(count) + i)
      BY <1>1, <2>2, <2>3, <2>4
    <3> QED BY <1>2, <3>1 DEF At
  <2> QED BY <2>5, <2>6, <2>7
<1> QED BY <1>4, <1>5, <1>6

\* A read hands over a prefix of the contents and leaves the rest.
LEMMA ReadIsRead ==
    ASSUME RingInv, ~empty, NEW p \in Readers, pc[p] = "ready",
           NEW count \in Nat, count > 0, PipeRead(p, count)
    PROVE  /\ Contents # << >>
           /\ result' = [result EXCEPT ![p] = Fifo!Prefix(Contents, Least(count, Len(Contents)))]
           /\ Contents' = Fifo!Rest(Contents, Least(count, Len(Contents)))
<1> USE DEF RingInv, PipeInv
<1> DEFINE n == Least(count, Held)
<1>1. IsContents(Contents) /\ IsContents(Contents)'
  <2>1. PipeInv'
    BY UserFacts, PipeReadStep
  <2> QED BY <2>1, ContentsIs, NextContentsIs
<1>2. /\ Contents \in Seq(Bytes) /\ Len(Contents) = Held
      /\ \A i \in 1 .. Held : Contents[i] = At(i)
  BY <1>1 DEF IsContents
<1>3. Held \in Nat
  BY <1>2, LenProperties
<1>4. n \in Nat /\ n <= Held
  BY <1>3 DEF Least
<1>5. n > 0
  BY <1>3, ReadTakes, TakenIs
<1>6. Contents # << >>
  <2>1. Len(<< >>) = 0
    OBVIOUS
  <2> QED BY <1>2, <1>3, <1>4, <1>5, <2>1
<1>7. TakenBytes(count) = SubSeq(Contents, 1, n)
  <2>1. /\ TakenBytes(count) \in Seq(Bytes) /\ Len(TakenBytes(count)) = n
        /\ \A i \in 1 .. n : TakenBytes(count)[i] = At(i)
    BY TakenIs
  <2> HIDE DEF n
  <2>2. /\ SubSeq(Contents, 0 + 1, n) \in Seq(Bytes)
        /\ Len(SubSeq(Contents, 0 + 1, n)) = IF 0 <= n THEN n - 0 ELSE 0
        /\ \A i \in 1 .. n - 0 : SubSeq(Contents, 0 + 1, n)[i] = Contents[0 + i]
    BY <1>2, <1>4, PartFacts
  <2>3. SubSeq(Contents, 1, n) \in Seq(Bytes) /\ Len(SubSeq(Contents, 1, n)) = n
    BY <1>4, <2>2
  <2>4. \A i \in 1 .. n : SubSeq(Contents, 1, n)[i] = TakenBytes(count)[i]
    <3> TAKE i \in 1 .. n
    <3>1. i \in 1 .. Held /\ 0 + i = i /\ n - 0 = n
      BY <1>3, <1>4
    <3> QED BY <1>2, <2>1, <2>2, <3>1
  <2> QED BY <2>1, <2>3, <2>4, SeqEqual
<1>8. Contents' = SubSeq(Contents, n + 1, Held)
  <2>1. /\ Contents' \in Seq(Bytes) /\ Len(Contents') = Held'
        /\ \A i \in 1 .. Held' : Contents'[i] = At(i)'
    BY <1>1 DEF IsContents
  <2>2. Held' = Held - n /\ \A i \in 1 .. Held - n : At(i)' = At(n + i)
    BY HeldAfterRead
  <2> HIDE DEF n
  <2>3. /\ SubSeq(Contents, n + 1, Held) \in Seq(Bytes)
        /\ Len(SubSeq(Contents, n + 1, Held)) = IF n <= Held THEN Held - n ELSE 0
        /\ \A i \in 1 .. Held - n : SubSeq(Contents, n + 1, Held)[i] = Contents[n + i]
    BY <1>2, <1>3, <1>4, PartFacts
  <2>4. \A i \in 1 .. Held - n : SubSeq(Contents, n + 1, Held)[i] = Contents'[i]
    <3> TAKE i \in 1 .. Held - n
    <3>1. n + i \in 1 .. Held
      BY <1>3, <1>4
    <3> QED BY <1>2, <2>1, <2>2, <2>3, <3>1
  <2> QED BY <1>4, <2>1, <2>2, <2>3, <2>4, SeqEqual
<1>9. result' = [result EXCEPT ![p] = TakenBytes(count)]
  BY PipeReadIs
<1> QED BY <1>2, <1>6, <1>7, <1>8, <1>9 DEF Fifo!Prefix, Fifo!Rest

\* After a write, the bytes held are followed by those that it stored.
LEMMA HeldAfterWrite ==
    ASSUME RingInv, ~full, NEW p \in Writers, pc[p] = "ready",
           NEW buffer \in Seq(Bytes), NEW len \in Nat, len = Len(buffer), len > 0,
           PipeWrite(p, buffer)
    PROVE  /\ Held' = Held + Written(len)
           /\ \A i \in 1 .. Held + Written(len) :
                  At(i)' = IF i <= Held THEN At(i) ELSE buffer[i - Held]
<1> USE DEF RingInv, PipeInv
<1>1. /\ readPos \in Nat /\ writePos \in Nat /\ Len(data) \in Nat
      /\ readPos <= Len(data) /\ writePos <= Len(data)
      /\ Len(data) > 0 => readPos < Len(data) /\ writePos < Len(data)
      /\ readPos = writePos <=> empty
  BY RingNumbers DEF FlagsTellTheRing
<1>2. /\ W1(len) \in Nat /\ W2(len) \in Nat /\ W3(len) \in Nat /\ WP(len) \in Nat
      /\ writePos + W1(len) <= Len(data) /\ W1(len) + W2(len) <= len /\ Written(len) <= len
      /\ W2(len) > 0 => Ahead /\ writePos + W1(len) = Len(data)
      /\ Written(len) = W1(len) + W2(len) + W3(len)
  BY WriteNumbers DEF Written
<1>3. /\ writePos' = WP(len) + W3(len) /\ readPos' = readPos /\ empty' = FALSE
  BY WriteStores, PipeWriteIs
<1>4. Len(data') = Len(data) + W2(len)
  BY WrittenFacts
<1>5. \A i \in 1 .. Len(data') : data'[i] =
          IF i > WP(len) /\ i <= WP(len) + W3(len)
          THEN buffer[W1(len) + W2(len) + (i - WP(len))]
          ELSE GrownBy(buffer)[i]
  BY WrittenFacts
<1>6. \A i \in 1 .. Len(data) + W2(len) : GrownBy(buffer)[i] =
          IF i <= Len(data)
          THEN IF i > writePos /\ i <= writePos + W1(len) THEN buffer[i - writePos] ELSE data[i]
          ELSE buffer[W1(len) + (i - Len(data))]
  BY GrownFacts DEF IsGrown
<1>7. Held' = IF readPos < writePos' THEN writePos' - readPos
              ELSE (Len(data) + W2(len) - readPos) + writePos'
  <2>1. Held' = IF empty' THEN 0 ELSE IF readPos' < writePos' THEN writePos' - readPos'
                ELSE (Len(data') - readPos') + writePos'
    BY DEF Held
  <2>2. ~ empty' /\ readPos' = readPos
    BY <1>3
  <2>3. writePos' \in Nat /\ W2(len) \in Nat
    BY <1>2, <1>3
  <2> QED BY <1>1, <1>4, <2>1, <2>2, <2>3
<1>8. \A i : At(i)' = IF readPos + i <= Len(data) + W2(len) THEN data'[readPos + i]
                      ELSE data'[(readPos + i) - (Len(data) + W2(len))]
  BY <1>3, <1>4 DEF At
<1>9. CASE Ahead /\ writePos + W1(len) # Len(data)
  <2>1. W2(len) = 0 /\ WP(len) = writePos + W1(len)
    BY <1>1, <1>2, <1>9 DEF WP
  <2>2. W3(len) = 0 /\ Written(len) = W1(len)
    BY <1>1, <1>2, <1>9, <2>1 DEF W3, Ahead
  <2>3. W1(len) > 0
    BY <1>2, <2>2, WriteStores
  <2>4. Held = writePos - readPos
    BY <1>1, <1>9 DEF Held, Ahead
  <2>5. writePos' = writePos + W1(len) /\ readPos < writePos'
    BY <1>1, <1>2, <1>3, <1>9, <2>1, <2>2, <2>3 DEF Ahead
  <2>6. Held' = Held + Written(len)
    BY <1>1, <1>2, <1>7, <2>2, <2>4, <2>5
  <2>7. ASSUME NEW i \in 1 .. Held + Written(len)
        PROVE  At(i)' = IF i <= Held THEN At(i) ELSE buffer[i - Held]
    <3> DEFINE k == readPos + i
    <3>1. k \in 1 .. Len(data) /\ i \in Nat
      BY <1>1, <1>2, <1>9, <2>2, <2>4 DEF Ahead
    <3>2. k <= writePos + W1(len) /\ (i <= Held <=> ~ (k > writePos)) /\ i - Held = k - writePos
      BY <1>1, <1>2, <1>9, <2>2, <2>4 DEF Ahead
    <3> HIDE DEF k
    <3>3. data'[k] = GrownBy(buffer)[k]
      <4>1. ~ (k > WP(len) /\ k <= WP(len) + W3(len)) /\ k \in 1 .. Len(data')
        BY <1>1, <1>2, <1>4, <2>1, <2>2, <3>1
      <4> QED BY <1>5, <4>1
    <3>4. GrownBy(buffer)[k] = IF k > writePos THEN buffer[k - writePos] ELSE data[k]
      <4>1. k \in 1 .. Len(data) + W2(len) /\ k <= Len(data)
        BY <1>1, <2>1, <3>1
      <4> QED BY <1>6, <3>2, <4>1
    <3>5. At(i)' = data'[k]
      BY <1>1, <1>8, <2>1, <3>1 DEF k
    <3>6. At(i) = data[k]
      BY <3>1 DEF At, k
    <3> QED BY <3>2, <3>3, <3>4, <3>5, <3>6
  <2> QED BY <2>6, <2>7
<1>10. CASE Ahead /\ writePos + W1(len) = Len(data)
  <2>1. WP(len) = 0
    BY <1>10 DEF WP
  <2>2. W3(len) <= readPos
    BY <1>1, <1>2, <2>1 DEF W3, Least
  <2>3. Held = writePos - readPos
    BY <1>1, <1>10 DEF Held, Ahead
  <2>4. writePos' = W3(len) /\ ~ (readPos < writePos')
    BY <1>1, <1>2, <1>3, <2>1, <2>2
  <2>5. Held' = Held + Written(len)
    <3>1. Held' = (Len(data) + W2(len) - readPos) + W3(len)
      BY <1>7, <2>4
    <3> QED BY <1>1, <1>2, <1>10, <2>3, <3>1, SMTT(30)
  <2>6. ASSUME NEW i \in 1 .. Held + Written(len)
        PROVE  At(i)' = IF i <= Held THEN At(i) ELSE buffer[i - Held]
    <3> DEFINE k == readPos + i
    <3>1. /\ k \in Nat /\ i \in Nat /\ k >= 1 /\ k > readPos
          /\ (i <= Held <=> k <= writePos) /\ i - Held = k - writePos
          /\ k <= writePos + W1(len) + W2(len) + W3(len)
      <4>1. Held \in Nat
        BY <1>1, <1>10, <2>3 DEF Ahead
      <4>2. i \in Nat /\ i >= 1 /\ i <= Held + Written(len)
        BY <1>2, <4>1
      <4> QED BY <1>1, <1>2, <2>3, <4>2, SMTT(30)
    <3>2. At(i)' = IF k <= Len(data) + W2(len) THEN data'[k]
                   ELSE data'[k - (Len(data) + W2(len))]
      BY <1>8
    <3>3. k <= Len(data) => At(i) = data[k]
      BY DEF At
    <3> HIDE DEF k
    <3>4. CASE k <= Len(data) + W2(len)
      <4>1. data'[k] = GrownBy(buffer)[k]
        <5>1. k \in 1 .. Len(data') /\ ~ (k <= WP(len) + W3(len))
          BY <1>1, <1>2, <1>4, <2>1, <2>2, <3>1, <3>4
        <5> QED BY <1>5, <5>1
      <4>2. k \in 1 .. Len(data) + W2(len)
        BY <1>1, <1>2, <3>1, <3>4
      <4>3. CASE k <= writePos
        <5>1. k <= Len(data) /\ ~ (k > writePos)
          BY <1>1, <3>1, <4>3
        <5> QED BY <1>6, <3>1, <3>2, <3>3, <3>4, <4>1, <4>2, <4>3, <5>1
      <4>4. CASE ~ (k <= writePos) /\ k <= Len(data)
        <5>1. k > writePos /\ k <= writePos + W1(len)
          BY <1>1, <1>10, <3>1, <4>4
        <5> QED BY <1>6, <3>1, <3>2, <3>4, <4>1, <4>2, <4>4, <5>1
      <4>5. CASE ~ (k <= writePos) /\ ~ (k <= Len(data))
        <5>1. W1(len) + (k - Len(data)) = k - writePos
          <6>1. writePos \in Nat /\ W1(len) \in Nat /\ k \in Nat /\ Len(data) = writePos + W1(len)
            BY <1>1, <1>2, <1>10, <3>1
          <6> QED BY ONLY <6>1
        <5> QED BY <1>6, <3>1, <3>2, <3>4, <4>1, <4>2, <4>5, <5>1
      <4> QED BY <4>3, <4>4, <4>5
    <3>5. CASE ~ (k <= Len(data) + W2(len))
      <4> DEFINE j == k - (Len(data) + W2(len))
      <4>1. /\ j \in 1 .. Len(data') /\ j > WP(len) /\ j <= WP(len) + W3(len)
            /\ W1(len) + W2(len) + (j - WP(len)) = k - writePos
        <5>1. /\ writePos \in Nat /\ W1(len) \in Nat /\ W2(len) \in Nat /\ W3(len) \in Nat
              /\ k \in Nat /\ Len(data) = writePos + W1(len) /\ WP(len) = 0
              /\ readPos \in Nat /\ readPos <= Len(data)
          BY <1>1, <1>2, <1>10, <2>1, <3>1
        <5>2. Len(data') \in Nat /\ Len(data') = Len(data) + W2(len)
          BY <1>4, <5>1
        <5>3. j \in Nat /\ j > 0 /\ j <= W3(len)
          BY <3>1, <3>5, <5>1, SMTT(30)
        <5>4. W3(len) <= Len(data')
          BY <2>2, <5>1, <5>2
        <5>5. W1(len) + W2(len) + (j - WP(len)) = k - writePos
          BY <5>1, SMTT(30)
        <5> HIDE DEF j
        <5> QED BY <5>1, <5>2, <5>3, <5>4, <5>5, SMTT(30)
      <4>2. data'[j] = buffer[k - writePos]
        BY <1>5, <4>1
      <4>3. ~ (k <= writePos)
        BY <1>1, <1>2, <3>1, <3>5
      <4> QED BY <3>1, <3>2, <3>5, <4>2, <4>3
    <3> QED BY <3>4, <3>5
  <2> QED BY <2>5, <2>6
<1>11. CASE ~Ahead
  <2>1. W1(len) = 0 /\ W2(len) = 0 /\ writePos < readPos
    BY <1>1, <1>11 DEF W1, W2, Ahead
  <2>2. WP(len) = writePos
    BY <1>1, <1>11, <2>1 DEF WP
  <2>3. W3(len) <= readPos - writePos /\ Written(len) = W3(len)
    BY <1>1, <1>2, <2>1, <2>2 DEF W3, Least
  <2>4. Held = (Len(data) - readPos) + writePos
    BY <1>1, <2>1 DEF Held
  <2>5. writePos' = writePos + W3(len) /\ ~ (readPos < writePos')
    BY <1>1, <1>2, <1>3, <2>2, <2>3
  <2>6. Held' = Held + Written(len)
    <3>1. Held' = (Len(data) + W2(len) - readPos) + (writePos + W3(len))
      BY <1>7, <2>5
    <3> QED BY <1>1, <1>2, <2>1, <2>3, <2>4, <3>1
  <2>7. ASSUME NEW i \in 1 .. Held + Written(len)
        PROVE  At(i)' = IF i <= Held THEN At(i) ELSE buffer[i - Held]
    <3> DEFINE k == readPos + i
    <3>1. k \in Nat /\ i \in Nat /\ k > readPos /\ k <= Len(data) + writePos + W3(len)
      <4>1. /\ readPos \in Nat /\ writePos \in Nat /\ Len(data) \in Nat /\ W3(len) \in Nat
            /\ readPos <= Len(data)
        BY <1>1, <1>2
      <4>2. Held + Written(len) = ((Len(data) - readPos) + writePos) + W3(len)
        BY <2>3, <2>4
      <4>3. i \in Nat /\ i >= 1 /\ i <= ((Len(data) - readPos) + writePos) + W3(len)
        BY <4>1, <4>2
      <4> QED BY <4>1, <4>3
    <3>2. At(i)' = IF k <= Len(data) THEN data'[k] ELSE data'[k - Len(data)]
      BY <1>1, <1>8, <2>1
    <3>3. At(i) = IF k <= Len(data) THEN data[k] ELSE data[k - Len(data)]
      BY DEF At
    <3>4. (i <= Held <=> k - Len(data) <= writePos) /\ i - Held = (k - Len(data)) - writePos
      BY <1>1, <2>4, <3>1
    <3> HIDE DEF k
    <3>5. \A m \in 1 .. Len(data) : m > writePos + W3(len) \/ m <= writePos => data'[m] = data[m]
      <4> SUFFICES ASSUME NEW m \in 1 .. Len(data), m > writePos + W3(len) \/ m <= writePos
                   PROVE  data'[m] = data[m]
        OBVIOUS
      <4>1. /\ m \in 1 .. Len(data') /\ m \in 1 .. Len(data) + W2(len) /\ m <= Len(data)
            /\ ~ (m > WP(len) /\ m <= WP(len) + W3(len))
            /\ ~ (m > writePos /\ m <= writePos + W1(len))
        BY <1>1, <1>2, <1>4, <2>1, <2>2
      <4> QED BY <1>5, <1>6, <4>1
    <3>6. CASE k <= Len(data)
      <4>1. k \in 1 .. Len(data) /\ k > writePos + W3(len) /\ i <= Held
        BY <1>1, <1>2, <2>3, <3>1, <3>4, <3>6, SMTT(30)
      <4> QED BY <3>2, <3>3, <3>5, <3>6, <4>1
    <3>7. CASE ~ (k <= Len(data)) /\ k - Len(data) <= writePos
      <4>1. k - Len(data) \in 1 .. Len(data)
        BY <1>1, <3>1, <3>7
      <4> QED BY <3>2, <3>3, <3>4, <3>5, <3>7, <4>1
    <3>8. CASE ~ (k <= Len(data)) /\ ~ (k - Len(data) <= writePos)
      <4> DEFINE j == k - Len(data)
      <4>1. /\ j \in 1 .. Len(data') /\ j > WP(len) /\ j <= WP(len) + W3(len)
            /\ W1(len) + W2(len) + (j - WP(len)) = j - writePos
        BY <1>1, <1>2, <1>4, <2>1, <2>2, <2>3, <3>1, <3>8
      <4>2. data'[j] = buffer[j - writePos]
        BY <1>5, <4>1
      <4> QED BY <3>2, <3>4, <3>8, <4>2
    <3> QED BY <3>6, <3>7, <3>8
  <2> QED BY <2>6, <2>7
<1> QED BY <1>9, <1>10, <1>11

\* A write appends to the contents the bytes that it reports.
LEMMA WriteIsWrite ==
    ASSUME RingInv, ~full, NEW p \in Writers, pc[p] = "ready",
           NEW buffer \in Buffers, Len(buffer) > 0, PipeWrite(p, buffer)
    PROVE  Contents' = Contents \o Fifo!Prefix(buffer, Written(Len(buffer)))
<1> USE DEF RingInv, PipeInv
<1> DEFINE n == Written(Len(buffer))
           part == SubSeq(buffer, 1, n)
<1>1. buffer \in Seq(Bytes) /\ Len(buffer) \in Nat
  BY BufferFacts
<1>2. n \in Nat /\ n <= Len(buffer)
  <2>1. /\ W1(Len(buffer)) \in Nat /\ W2(Len(buffer)) \in Nat /\ W3(Len(buffer)) \in Nat
        /\ n <= Len(buffer)
    BY <1>1, WriteNumbers
  <2> QED BY <2>1 DEF Written
<1>3. IsContents(Contents) /\ IsContents(Contents)'
  <2>1. PipeInv'
    BY UserFacts, PipeWriteStep
  <2> QED BY <2>1, ContentsIs, NextContentsIs
<1>4. /\ Contents \in Seq(Bytes) /\ Len(Contents) = Held
      /\ \A i \in 1 .. Held : Contents[i] = At(i)
      /\ Contents' \in Seq(Bytes) /\ Len(Contents') = Held'
      /\ \A i \in 1 .. Held' : Contents'[i] = At(i)'
  BY <1>3 DEF IsContents
<1>5. Held \in Nat
  BY <1>4, LenProperties
<1>6. /\ Held' = Held + n
      /\ \A i \in 1 .. Held + n : At(i)' = IF i <= Held THEN At(i) ELSE buffer[i - Held]
  BY <1>1, HeldAfterWrite
<1> HIDE DEF n
<1>7. /\ part \in Seq(Bytes) /\ Len(part) = n
      /\ \A i \in 1 .. n : part[i] = buffer[i]
  <2>1. /\ SubSeq(buffer, 0 + 1, n) \in Seq(Bytes)
        /\ Len(SubSeq(buffer, 0 + 1, n)) = IF 0 <= n THEN n - 0 ELSE 0
        /\ \A i \in 1 .. n - 0 : SubSeq(buffer, 0 + 1, n)[i] = buffer[0 + i]
    BY <1>1, <1>2, PartFacts
  <2>2. 0 + 1 = 1 /\ n - 0 = n /\ 0 <= n /\ \A i \in 1 .. n : 0 + i = i
    BY <1>2
  <2> QED BY <2>1, <2>2
<1> HIDE DEF part
<1>8. /\ Contents \o part \in Seq(Bytes) /\ Len(Contents \o part) = Held + n
      /\ \A i \in 1 .. Held + n :
             (Contents \o part)[i] = IF i <= Held THEN Contents[i] ELSE part[i - Held]
  BY <1>4, <1>7, ConcatProperties, Zenon
<1>9. ASSUME NEW i \in 1 .. Held + n PROVE Contents'[i] = (Contents \o part)[i]
  <2>1. CASE i <= Held
    <3>1. i \in 1 .. Held
      BY <1>2, <1>5, <2>1
    <3> QED BY <1>4, <1>6, <1>8, <2>1, <3>1
  <2>2. CASE ~ (i <= Held)
    <3>1. i - Held \in 1 .. n
      BY <1>2, <1>5, <2>2
    <3> QED BY <1>4, <1>6, <1>7, <1>8, <2>2, <3>1
  <2> QED BY <2>1, <2>2
<1>10. Contents' = Contents \o part
  BY <1>4, <1>6, <1>8, <1>9, SeqEqual
<1> QED BY <1>10 DEF Fifo!Prefix, part, n

-----------------------------------------------------------------------------
(* The refinement: every step of the pipe is one of the queue, or none.    *)

LEMMA FifoInit == Init => Fifo!Init
<1> SUFFICES ASSUME Init PROVE Fifo!Init
  OBVIOUS
<1>1. Contents = << >>
  BY DEF Init, InitialFlags, Contents
<1> QED BY <1>1 DEF Init, Fifo!Init, Users

LEMMA FifoRead ==
    ASSUME 0 \notin Counts, RingInv, NEW p \in Users, ReadStep(p)
    PROVE  Fifo!Read(p) \/ Fifo!EndOfFile(p) \/ UNCHANGED Fifo!vars
<1> USE DEF RingInv, PipeInv
<1>1. /\ p \in Readers /\ pc[p] = "ready" /\ p \in open
      /\ request[p] \in Counts /\ request[p] \in Nat /\ request[p] > 0
  <2>1. \A n \in Counts : n \in Nat /\ n > 0
    BY UserFacts
  <2> QED BY <2>1, UserFacts DEF ReadStep, CallsOpen
<1>2. CASE ~empty /\ PipeRead(p, request[p])
  <2>1. /\ Contents # << >>
        /\ result' = [result EXCEPT
                         ![p] = Fifo!Prefix(Contents, Least(request[p], Len(Contents)))]
        /\ Contents' = Fifo!Rest(Contents, Least(request[p], Len(Contents)))
    BY <1>1, <1>2, ReadIsRead
  <2>2. open' = open
    BY <1>2 DEF PipeRead, countVars
  <2>3. \E n \in Counts : n = request[p]
    BY <1>1
  <2> QED BY <1>1, <2>1, <2>2, <2>3 DEF Fifo!Read, Fifo!Returns, Fifo!Least, Least
<1>3. CASE /\ empty /\ writerCount = 0
           /\ Returns(p, << >>)
           /\ UNCHANGED <<ringVars, countVars>>
  <2>1. Contents = << >> /\ Contents' = << >>
    BY <1>3 DEF Contents, ringVars
  <2>2. open \cap Writers = {}
    <3>1. IsFiniteSet(open \cap Writers) /\ Cardinality(open \cap Writers) = 0
      BY <1>3, PipeAssumption, FS_Subset DEF CountsAreOfOpen
    <3> QED BY <3>1, FS_EmptySet
  <2>3. result' = [result EXCEPT ![p] = << >>] /\ open' = open
    BY <1>3 DEF Returns, countVars
  <2> QED BY <1>1, <2>1, <2>2, <2>3 DEF Fifo!EndOfFile, Fifo!Returns
<1>4. CASE UNCHANGED <<ringVars, countVars, result>>
  BY <1>4 DEF Fifo!vars, Contents, ringVars, countVars
<1> QED BY <1>2, <1>3, <1>4 DEF ReadStep

LEMMA FifoWrite ==
    ASSUME 0 \notin Counts, RingInv, NEW p \in Users, WriteStep(p)
    PROVE  Fifo!Write(p) \/ Fifo!Fail(p) \/ UNCHANGED Fifo!vars
<1> USE DEF RingInv, PipeInv
<1> DEFINE buffer == request[p]
           n == Written(Len(buffer))
<1>1. p \in Writers /\ pc[p] = "ready" /\ p \in open /\ buffer \in Buffers
  BY UserFacts DEF WriteStep, CallsOpen
<1>2. PICK count \in Counts : buffer \in [1 .. count -> Bytes]
  BY <1>1 DEF Buffers
<1>3. count \in Nat /\ count > 0
  BY UserFacts
<1>4. Len(buffer) = count
  BY <1>2, <1>3
<1>5. CASE ~full /\ PipeWrite(p, buffer)
  <2>1. Contents' = Contents \o Fifo!Prefix(buffer, n)
    BY <1>1, <1>3, <1>4, <1>5, WriteIsWrite
  <2>2. n \in 0 .. count /\ n > 0
    <3>1. /\ W1(count) \in Nat /\ W2(count) \in Nat /\ W3(count) \in Nat
          /\ Written(count) <= count
      BY <1>3, WriteNumbers
    <3>2. Written(count) > 0
      BY <1>3, <1>5, WriteStores
    <3> QED BY <1>3, <1>4, <3>1, <3>2 DEF Written
  <2>3. result' = [result EXCEPT ![p] = n] /\ open' = open
    <3>1. buffer \in Seq(Bytes)
      BY <1>1, BufferFacts
    <3> QED BY <1>5, <3>1, PipeWriteIs DEF countVars
  <2> HIDE DEF buffer, n
  <2>4. Fifo!Write(p)
    BY <1>1, <1>2, <2>1, <2>2, <2>3 DEF Fifo!Write, Fifo!Returns
  <2> QED BY <2>4
<1>6. CASE /\ full /\ readerCount = 0
           /\ Returns(p, Error)
           /\ UNCHANGED <<ringVars, countVars>>
  <2>1. Contents' = Contents
    BY <1>6 DEF Contents, ringVars
  <2>2. open \cap Readers = {}
    <3>1. IsFiniteSet(open \cap Readers) /\ Cardinality(open \cap Readers) = 0
      BY <1>6, PipeAssumption, FS_Subset DEF CountsAreOfOpen
    <3> QED BY <3>1, FS_EmptySet
  <2>3. result' = [result EXCEPT ![p] = Fifo!Error] /\ open' = open
    BY <1>6 DEF Returns, countVars, Error, Fifo!Error
  <2> QED BY <1>1, <2>1, <2>2, <2>3 DEF Fifo!Fail, Fifo!Returns
<1>7. CASE UNCHANGED <<ringVars, countVars, result>>
  BY <1>7 DEF Fifo!vars, Contents, ringVars, countVars
<1> QED BY <1>5, <1>6, <1>7 DEF WriteStep

LEMMA FifoStep ==
    ASSUME 0 \notin Counts, RingInv, [Next]_vars
    PROVE  [Fifo!Next]_(Fifo!vars)
<1>1. ASSUME UNCHANGED <<ringVars, open, result>> PROVE UNCHANGED Fifo!vars
  BY <1>1 DEF Fifo!vars, Contents, ringVars
<1>2. ASSUME NEW p \in Users, CallRead(p) \/ CallWrite(p) PROVE UNCHANGED Fifo!vars
  BY <1>1, <1>2 DEF CallRead, CallWrite, countVars
<1>3. ASSUME NEW p \in Users, ReadStep(p) PROVE Fifo!Next \/ UNCHANGED Fifo!vars
  BY <1>3, FifoRead DEF Fifo!Next, Users
<1>4. ASSUME NEW p \in Users, WriteStep(p) PROVE Fifo!Next \/ UNCHANGED Fifo!vars
  BY <1>4, FifoWrite DEF Fifo!Next, Users
<1>5. ASSUME NEW p \in Users, CloseReader(p) \/ CloseWriter(p) PROVE Fifo!Next
  <2>1. /\ p \in open /\ open' = open \ {p}
        /\ UNCHANGED ringVars /\ UNCHANGED result
    BY <1>5 DEF CloseReader, CloseWriter
  <2>2. Contents' = Contents
    BY <2>1 DEF Contents, ringVars
  <2>3. Fifo!Close(p)
    BY <2>1, <2>2 DEF Fifo!Close
  <2> QED BY <2>3 DEF Fifo!Next, Users
<1>6. ASSUME NEW p \in Users, NEW q \in Users, Share(p, q) PROVE Fifo!Next
  <2>1. Contents' = Contents
    BY <1>6 DEF Share, Contents, ringVars
  <2>2. Fifo!Share(p, q)
    BY <1>6, <2>1 DEF Share, Fifo!Share
  <2> QED BY <2>2 DEF Fifo!Next, Users
<1>7. CASE UNCHANGED vars
  BY <1>1, <1>7 DEF vars, countVars
<1> QED BY <1>2, <1>3, <1>4, <1>5, <1>6, <1>7 DEF Next

\* The pipe is a queue of bytes, when no call asks for zero of them: through every
\* wrap and every growth of the ring each byte written is read once, in order, a
\* reader sees the end of the file only of an empty pipe without a writer, and a
\* write fails only without a reader.
THEOREM PipeIsFifo ==
    ASSUME 0 \notin Counts
    PROVE  Spec => ImplementsFifo
<1>1. Init => Fifo!Init
  BY FifoInit
<1>2. RingInv /\ [Next]_vars => [Fifo!Next]_(Fifo!vars)
  BY FifoStep
<1>3. Spec => []RingInv
  BY RingInvariance
<1> QED BY <1>1, <1>2, <1>3, PTL DEF Spec, ImplementsFifo, Fifo!Spec
=============================================================================
