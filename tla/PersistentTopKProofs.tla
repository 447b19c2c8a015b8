------------------------ MODULE PersistentTopKProofs ------------------------
(* Theorems about PersistentTopK: its inductive invariant and what follows. *)
EXTENDS PersistentTopK, FiniteSetTheorems, TLAPS

-----------------------------------------------------------------------------
(* The launcher's arithmetic. *)

\* Division with remainder, as the solver knows it.
LEMMA Division ==
  ASSUME NEW x \in Int, NEW g \in Int, g > 0
  PROVE  x = g * (x \div g) + (x % g) /\ x % g \in 0 .. g - 1 /\ x \div g \in Int
  BY Z3T(30)

\* A quotient is not negative if the dividend is not, and at least one if it
\* is as large as the divisor.
LEMMA Quotient ==
  ASSUME NEW x \in Nat, NEW g \in Nat \ {0}
  PROVE  x \div g \in Nat /\ (x >= g => x \div g >= 1)
  BY Z3T(30)

\* Rounding up: enough, a natural number, and zero of zero only.
LEMMA CeilDivFact ==
  ASSUME NEW a \in Nat, NEW b \in Nat \ {0}
  PROVE  /\ CeilDiv(a, b) \in Nat
         /\ a <= CeilDiv(a, b) * b
         /\ a > 0 => CeilDiv(a, b) > 0
<1> DEFINE x == a + b - 1
           q == x \div b
<1>1. x \in Nat /\ x \in Int  OBVIOUS
<1>2. x = b * q + (x % b) /\ x % b \in 0 .. b - 1  BY <1>1, Division
<1>3. q \in Nat /\ (x >= b => q >= 1)  BY <1>1, Quotient
<1>4. CeilDiv(a, b) = q  BY DEF CeilDiv
<1> HIDE DEF q
<1>5. b * q \in Nat /\ b * q = q * b  BY <1>3
<1>6. a <= q * b
  <2> DEFINE z == x % b
  <2>1. z \in 0 .. b - 1 /\ a + b - 1 = b * q + z  BY <1>2
  <2> HIDE DEF z
  <2>2. QED  BY <2>1, <1>5
<1>7. a > 0 => q > 0  BY <1>3
<1>8. QED  BY <1>3, <1>4, <1>6, <1>7

\* A group has at least one CTA, and chunks of the group together hold the
\* longest row.
LEMMA Layout ==
  /\ CtasPerGroup \in Nat \ {0}
  /\ ChunkSize \in Nat \ {0}
  /\ Stride <= CtasPerGroup * ChunkSize
<1> DEFINE n == CtasPerGroup
           each == CeilDiv(Stride, n)
           size == CeilDiv(each, Vec) * Vec
<1>1. /\ Stride \in Nat \ {0} /\ MaxChunk \in Nat \ {0} /\ Vec \in Nat \ {0}  BY LaunchAssumption
<1>2. n \in Nat \ {0} /\ Stride <= n * MaxChunk
  BY <1>1, CeilDivFact DEF CtasPerGroup
<1>3. each \in Nat \ {0} /\ Stride <= each * n
  <2> HIDE DEF n
  <2>1. QED  BY <1>1, <1>2, CeilDivFact
<1>4. size \in Nat \ {0} /\ each <= size
  <2> HIDE DEF each
  <2> DEFINE q == CeilDiv(each, Vec)
  <2>1. q \in Nat \ {0} /\ each <= q * Vec  BY <1>1, <1>3, CeilDivFact
  <2> HIDE DEF q
  <2>2. q * Vec \in Nat \ {0}  BY <2>1, <1>1, <1>3
  <2>3. QED  BY <2>1, <2>2 DEF q
<1>5. ChunkSize = IF size > MaxChunk THEN MaxChunk ELSE size  BY DEF ChunkSize
<1> HIDE DEF n, each, size
<1>6. Stride <= n * size
  <2>1. PICK k \in Nat : size = each + k
    <3>1. size - each \in Nat /\ size = each + (size - each)  BY <1>3, <1>4
    <3>2. QED  BY <3>1
  <2>2. n * size = each * n + n * k /\ n * k \in Nat  BY <2>1, <1>2, <1>3
  <2>3. n * size \in Nat /\ each * n \in Nat BY <1>2, <1>3, <1>4
  <2>4. QED  BY <2>2, <2>3, <1>3, <1>1
<1>7. QED  BY <1>1, <1>2, <1>4, <1>5, <1>6 DEF n

\* The CTAs of the group are as many as the launcher says.
LEMMA CTAsFinite == IsFiniteSet(CTAs) /\ Cardinality(CTAs) = CtasPerGroup
<1>1. CTAs = 0 .. CtasPerGroup - 1 /\ CtasPerGroup \in Nat \ {0}  BY Layout DEF CTAs
<1> DEFINE m == CtasPerGroup - 1
<1>2. m \in Int /\ 0 \in Int /\ m >= 0 /\ m - 0 + 1 = CtasPerGroup  BY <1>1
<1>3. IsFiniteSet(0 .. m) /\ Cardinality(0 .. m) = m - 0 + 1
  <2> HIDE DEF m
  <2>1. ~(0 > m)  BY <1>2
  <2>2. QED  BY <1>2, <2>1, FS_Interval
<1>4. QED  BY <1>1, <1>2, <1>3

\* Chunks are finite sets of indices of the row.
LEMMA ChunkFinite ==
  ASSUME NEW c \in CTAs, NEW len \in Nat
  PROVE  /\ IsFiniteSet(Chunk(c, len))
         /\ \A i \in Chunk(c, len) : i \in Nat /\ i < len
<1> DEFINE lo == c * ChunkSize
           hi == (c + 1) * ChunkSize - 1
<1>1. c \in Nat /\ ChunkSize \in Nat  BY Layout DEF CTAs
<1>2. lo \in Nat /\ hi \in Int  BY <1>1
<1>3. Chunk(c, len) = {i \in lo .. hi : i < len}  BY DEF Chunk
<1> HIDE DEF lo, hi
<1>4. IsFiniteSet(lo .. hi)  BY <1>2, FS_Interval
<1>5. Chunk(c, len) \subseteq lo .. hi  BY <1>3
<1>6. IsFiniteSet(Chunk(c, len))  BY <1>4, <1>5, FS_Subset
<1>7. \A i \in Chunk(c, len) : i \in Nat /\ i < len  BY <1>2, <1>3
<1>8. QED  BY <1>6, <1>7

\* No index is in the chunks of two CTAs ...
LEMMA ChunksDisjoint ==
  ASSUME NEW c \in CTAs, NEW d \in CTAs, NEW len, NEW i,
         i \in Chunk(c, len), i \in Chunk(d, len)
  PROVE  c = d
<1>1. c \in Nat /\ d \in Nat /\ ChunkSize \in Nat  BY Layout DEF CTAs
<1>2. /\ i \in c * ChunkSize .. (c + 1) * ChunkSize - 1
      /\ i \in d * ChunkSize .. (d + 1) * ChunkSize - 1
  BY DEF Chunk
<1>3. ASSUME NEW a \in Nat, NEW b \in Nat, NEW s \in Nat, NEW j \in Int, a < b,
             j <= (a + 1) * s - 1, b * s <= j
      PROVE  FALSE
  <2>1. PICK k \in Nat : b = a + 1 + k
    <3>1. b - a - 1 \in Nat /\ b = a + 1 + (b - a - 1)  BY <1>3
    <3>2. QED  BY <3>1
  <2>2. b * s = (a + 1) * s + k * s /\ k * s \in Nat /\ (a + 1) * s \in Nat  BY <2>1
  <2>3. QED  BY <1>3, <2>2
<1>4. /\ c * ChunkSize \in Int /\ (c + 1) * ChunkSize - 1 \in Int
      /\ d * ChunkSize \in Int /\ (d + 1) * ChunkSize - 1 \in Int  BY <1>1
<1>5. /\ i \in Int /\ c * ChunkSize <= i /\ i <= (c + 1) * ChunkSize - 1
      /\ d * ChunkSize <= i /\ i <= (d + 1) * ChunkSize - 1  BY <1>2, <1>4
<1>6. ~(c < d)  BY <1>1, <1>3, <1>5
<1>7. ~(d < c)  BY <1>1, <1>3, <1>5
<1>8. QED  BY <1>1, <1>6, <1>7

\* ... and every index of a row is in the chunk of one.
LEMMA ChunksCover ==
  ASSUME NEW len \in 0 .. Stride, NEW i \in Nat, i < len
  PROVE  \E c \in CTAs : i \in Chunk(c, len)
<1> DEFINE n == CtasPerGroup
           s == ChunkSize
           q == i \div s
           z == i % s
<1>1. Stride \in Nat /\ n \in Nat \ {0} /\ s \in Nat \ {0} /\ Stride <= n * s
  BY LaunchAssumption, Layout
<1>2. i < Stride  BY <1>1
<1>3. i = s * q + z /\ z \in 0 .. s - 1 /\ q \in Nat
  <2> HIDE DEF s
  <2>1. i \in Int /\ s \in Int /\ s > 0  BY <1>1
  <2>2. q \in Nat  BY <1>1, Quotient
  <2>3. QED  BY <2>1, <2>2, Division
<1> HIDE DEF n, s, q, z
<1>4. q < n
  <2> SUFFICES ASSUME n <= q PROVE FALSE  BY <1>1, <1>3
  <2>1. PICK k \in Nat : q = n + k
    <3>1. q - n \in Nat /\ q = n + (q - n)  BY <1>1, <1>3
    <3>2. QED  BY <3>1
  <2>2. s * q = n * s + s * k /\ s * k \in Nat /\ n * s \in Nat  BY <2>1, <1>1
  <2>3. QED  BY <2>2, <1>1, <1>2, <1>3
<1>5. q \in CTAs  BY <1>1, <1>3, <1>4 DEF CTAs, n
<1>6. q * s = s * q /\ (q + 1) * s = s * q + s /\ s * q \in Nat  BY <1>1, <1>3
<1>7. i \in q * s .. (q + 1) * s - 1  BY <1>1, <1>3, <1>6
<1>8. i \in Chunk(q, len)  BY <1>7 DEF Chunk, s
<1>9. QED  BY <1>5, <1>8

-----------------------------------------------------------------------------
(* The inductive invariant. *)

AtRow == {"init", "reset", "round", "wait", "read", "collect", "final", "ties"}
Collecting == {"collect", "final", "ties"}

\* A CTA inside the search of a row: which row, which round, and, unless its
\* waves overtake each other, which ties.
PlaceAt(c) ==
  /\ pc[c] \in AtRow => cta[c].iter \in LargeRows
  /\ pc[c] \in {"init", "reset"} => cta[c].round = 0
  /\ pc[c] \in {"round", "wait", "read"} => cta[c].round \in 0 .. 3
  /\ pc[c] \in Collecting => cta[c].round = 4
  /\ pc[c] = "ties" => cta[c].ties \subseteq MyChunk(c)
  /\ pc[c] = "ties" /\ <<c, cta[c].iter>> \notin torn =>
       \A i \in cta[c].ties : Key(Row(c), i) = cta[c].prefix

PlaceOK == \A c \in CTAs : PlaceAt(c)

\* Waves are overtaken when all of the row is collected.
TornAt(c) ==
  \A i \in LargeRows :
    <<c, i>> \in torn => cta[c].iter > i \/ (cta[c].iter = i /\ pc[c] = "ties")
TornOK == \A c \in CTAs : TornAt(c)

\* The counter of arrivals says which barrier is next, and how many are there.
At(b) == {c \in CTAs : Arrived(c) = b}
Between(b) == \A c \in CTAs : Arrived(c) \in {b, b + 1} /\ phase[c] <= b
BarrierOK ==
  \E b \in Nat : /\ Between(b)
                 /\ At(b + 1) # CTAs
                 /\ arrival = CtasPerGroup * b + Cardinality(At(b + 1))

\* The barriers a CTA has come to tell how many large rows it has behind it,
\* and where it is in the present one: a row has six.
Before(i) == {j \in LargeRows : j < i}
Stage(place, round) ==
  CASE place = "init" -> 1
    [] place \in {"reset", "round"} -> 1 + round
    [] place \in {"wait", "read"} -> 2 + round
    [] place = "collect" -> 5
    [] place \in {"final", "ties"} -> 6
    [] OTHER -> 0
PlanAt(c) == Arrived(c) = 6 * Cardinality(Before(cta[c].iter)) + Stage(pc[c], cta[c].round)
PlanOK == \A c \in CTAs : PlanAt(c)

\* What has been written is the work of the CTA whose chunk it comes from: for
\* a row behind it, or in the present one for an element it is done with; with
\* its waves overtaken it may come back to that.
ServedBy(e, c) ==
  \/ e.row < cta[c].iter
  \/ /\ e.row = cta[c].iter /\ pc[c] \in {"final", "ties"}
     /\ \/ pc[c] = "ties" /\ <<c, e.row>> \in torn
        \/ Key(rows[e.row], e.index) = cta[c].prefix => pc[c] = "ties" /\ e.index \notin cta[c].ties
OwnedBy(e, c) == e.index \in Chunk(c, Len(rows[e.row]))
Served(e) ==
  /\ e.row \in LargeRows
  /\ \E c \in CTAs : OwnedBy(e, c)
  /\ \A c \in CTAs : OwnedBy(e, c) => ServedBy(e, c)
ServedOK == \A e \in out : Served(e)

\* Whoever collects finds the counter past every position of its row.
ReservedOK ==
  \A e \in out, c \in CTAs : pc[c] \in Collecting /\ e.row = cta[c].iter => e.pos < outc

IInv ==
  /\ TypeOK /\ PlaceOK /\ TornOK /\ BarrierOK /\ PlanOK
  /\ ServedOK /\ ReservedOK /\ PositionsDistinct

-----------------------------------------------------------------------------
(* Types. *)

\* The weights of the digits are numbers.
LEMMA WeightType == \A r \in 0 .. 3 : Weight[r] \in Nat
<1>1. Radix \in Nat  BY KernelAssumption
<1>2. Radix * Radix \in Nat /\ Radix * Radix * Radix \in Nat  BY <1>1
<1>3. /\ Weight[0] = Radix * Radix * Radix /\ Weight[1] = Radix * Radix
      /\ Weight[2] = Radix /\ Weight[3] = 1
  BY DEF Weight
<1>4. \A r \in 0 .. 3 : r = 0 \/ r = 1 \/ r = 2 \/ r = 3  OBVIOUS
<1>5. QED  BY <1>1, <1>2, <1>3, <1>4

\* The rows of a launch are sequences of keys, none longer than the stride.
LEMMA RowType ==
  ASSUME TypeOK, NEW i \in DOMAIN rows
  PROVE  /\ i \in Nat \ {0}
         /\ rows[i] \in Seq(Keys)
         /\ Len(rows[i]) \in 1 .. Stride /\ Len(rows[i]) \in Nat
<1>1. rows \in Batches /\ rows \in Seq(Seq(Keys))  BY KernelAssumption DEF TypeOK
<1>2. Len(rows[i]) \in 1 .. Stride  BY <1>1, KernelAssumption
<1>3. DOMAIN rows = 1 .. Len(rows) /\ Len(rows) \in Nat  BY <1>1
<1>4. rows[i] \in Seq(Keys)  BY <1>1, <1>3
<1>5. QED  BY <1>2, <1>3, <1>4

\* A CTA inside the search of a row has a row, and its chunk is part of it.
LEMMA AtRowType ==
  ASSUME TypeOK, PlaceOK, NEW c \in CTAs, pc[c] \in AtRow
  PROVE  /\ cta[c].iter \in LargeRows /\ cta[c].iter \in DOMAIN rows
         /\ cta[c].iter \in Nat \ {0}
         /\ Row(c) = rows[cta[c].iter] /\ MyChunk(c) = Chunk(c, Len(rows[cta[c].iter]))
         /\ IsFiniteSet(MyChunk(c))
         /\ MyChunk(c) \subseteq 0 .. Stride - 1
<1>1. cta[c].iter \in LargeRows  BY DEF PlaceOK, PlaceAt
<1>2. PICK i : i = cta[c].iter  OBVIOUS
<1>3. i \in DOMAIN rows  BY <1>1, <1>2 DEF LargeRows
<1>4. i \in Nat \ {0} /\ Len(rows[i]) \in 1 .. Stride /\ Len(rows[i]) \in Nat  BY <1>3, RowType
<1>5. Row(c) = rows[i] /\ MyChunk(c) = Chunk(c, Len(rows[i]))  BY <1>2 DEF MyChunk, Row
<1>6. /\ IsFiniteSet(Chunk(c, Len(rows[i])))
      /\ \A j \in Chunk(c, Len(rows[i])) : j \in Nat /\ j < Len(rows[i])
  BY <1>4, ChunkFinite
<1>7. Chunk(c, Len(rows[i])) \subseteq 0 .. Stride - 1
  BY <1>4, <1>6, LaunchAssumption
<1>8. QED  BY <1>1, <1>2, <1>3, <1>4, <1>5, <1>6, <1>7

\* A suffix sum of a histogram is a number.
LEMMA CountType ==
  ASSUME NEW h \in [Buckets -> Nat], NEW b \in Nat
  PROVE  CountFrom(h, b) \in Nat
<1>1. Radix \in Nat  BY KernelAssumption
<1> DEFINE above == b .. Radix - 1
           pairs(d) == {d} \X (1 .. h[d])
           parts == {pairs(d) : d \in above}
<1>2. IsFiniteSet(above)
  <2>1. b \in Int /\ Radix - 1 \in Int  BY <1>1
  <2>2. QED  BY <2>1, FS_Interval
<1>3. IsFiniteSet(parts)
  <2> DEFINE f == [d \in above |-> pairs(d)]
  <2>1. f \in Surjection(above, parts)  BY DEF Surjection
  <2> HIDE DEF f, parts, above
  <2>2. QED  BY <1>2, <2>1, FS_Surjection
<1>4. \A d \in above : IsFiniteSet(pairs(d))
  <2> TAKE d \in above
  <2>1. d \in Buckets  BY <1>1 DEF Buckets
  <2>2. h[d] \in Nat  BY <2>1
  <2>3. IsFiniteSet(1 .. h[d])
    <3>1. 1 \in Int /\ h[d] \in Int  BY <2>2
    <3>2. QED  BY <3>1, FS_Interval
  <2>4. IsFiniteSet({d})  BY FS_Singleton
  <2>5. QED  BY <2>3, <2>4, FS_Product
<1>5. \A T \in parts : IsFiniteSet(T)  BY <1>4
<1>6. IsFiniteSet(UNION parts)
  <2> HIDE DEF parts
  <2>1. QED  BY <1>3, <1>5, FS_UNION
<1>7. CountFrom(h, b) = Cardinality(UNION parts)  BY DEF CountFrom
<1>8. QED
  <2> HIDE DEF parts
  <2>1. QED  BY <1>6, <1>7, FS_CardinalityType

\* So is what a CTA counts in its chunk.
LEMMA LocalCountType ==
  ASSUME TypeOK, PlaceOK, NEW c \in CTAs, pc[c] \in AtRow, NEW b
  PROVE  LocalCount(c, b) \in Nat
<1>1. IsFiniteSet(MyChunk(c))  BY AtRowType
<1> DEFINE part == InBucket(Row(c), MyChunk(c), cta[c].prefix, cta[c].round, b)
<1>2. part \subseteq MyChunk(c)  BY DEF InBucket
<1>3. IsFiniteSet(part)
  <2> HIDE DEF part
  <2>1. QED  BY <1>1, <1>2, FS_Subset
<1>4. LocalCount(c, b) = Cardinality(part)  BY DEF LocalCount
<1> HIDE DEF part
<1>5. QED  BY <1>3, <1>4, FS_CardinalityType

\* The registers of a CTA.
Registers ==
  [iter : Nat \ {0}, round : 0 .. Rounds, prefix : Nat, remaining : 1 .. K,
   added : SUBSET WaveIds, cleared : SUBSET WaveIds, ties : SUBSET (0 .. Stride - 1)]

\* Every step keeps the types: the counts it adds are numbers, and so is what
\* remains to be found.
LEMMA TypeNext ==
  ASSUME TypeOK, PlaceOK, [Next]_vars
  PROVE  TypeOK'
<1> USE DEF TypeOK, input, state, Goto, Arrive
<1>0. CASE UNCHANGED vars
  BY <1>0 DEF vars, LargeRows
<1>1. ASSUME NEW c \in CTAs, Start(c) PROVE TypeOK'
  BY <1>1 DEF Start, Places
<1>2. ASSUME NEW c \in CTAs, ShortRow(c) PROVE TypeOK'
  <2>1. cta[c] \in Registers /\ cta \in [CTAs -> Registers]  BY DEF Registers
  <2>2. [cta[c] EXCEPT !.iter = @ + 1] \in Registers  BY <2>1, SMTT(30) DEF Registers
  <2>3. cta' = [cta EXCEPT ![c] = [cta[c] EXCEPT !.iter = @ + 1]]  BY <1>2, <2>1 DEF ShortRow
  <2>4. cta' \in [CTAs -> Registers]  BY <2>1, <2>2, <2>3
  <2>5. QED  BY <1>2, <2>4 DEF ShortRow, Registers
<1>3. ASSUME NEW c \in CTAs, LeaveLoop(c) PROVE TypeOK'
  BY <1>3 DEF LeaveLoop, Places
<1>4. ASSUME NEW c \in CTAs, LargeRow(c) PROVE TypeOK'
  <2> DEFINE new == [cta[c] EXCEPT !.round = 0, !.prefix = 0, !.remaining = K,
                                   !.added = {}, !.cleared = {}]
  <2>1. cta[c] \in Registers /\ cta \in [CTAs -> Registers]  BY DEF Registers
  <2>2. new \in Registers
    <3>1. K \in 1 .. K  BY KernelAssumption
    <3>2. 0 \in 0 .. Rounds  BY DEF Rounds
    <3>3. QED  BY <2>1, <3>1, <3>2 DEF Registers
  <2>3. cta' = [cta EXCEPT ![c] = new]  BY <1>4, <2>1 DEF LargeRow, Registers
  <2> HIDE DEF new
  <2>4. cta' \in [CTAs -> Registers]  BY <2>1, <2>2, <2>3
  <2>5. pc' \in [CTAs -> Places] /\ arrival' \in Nat  BY <1>4 DEF LargeRow, Places
  <2>6. QED  BY <1>4, <2>4, <2>5 DEF LargeRow, Registers
<1>5. ASSUME NEW c \in CTAs, PassInit(c) PROVE TypeOK'
  BY <1>5 DEF PassInit, Places
<1>6. ASSUME NEW c \in CTAs, ResetOutput(c) PROVE TypeOK'
  BY <1>6 DEF ResetOutput, Places
<1>7. ASSUME NEW c \in CTAs, NEW w \in WaveIds, Add(c, w) PROVE TypeOK'
  <2>1. pc[c] \in AtRow  BY <1>7 DEF Add, AtRow
  <2>2. \A b \in Buckets : LocalCount(c, b) \in Nat  BY <2>1, LocalCountType
  <2>3. Current(c) \in 0 .. 2 => hist' \in [0 .. 2 -> [Buckets -> Nat]]
    BY <1>7, <2>2 DEF Add
  <2>4. Current(c) \notin 0 .. 2 => hist' \in [0 .. 2 -> [Buckets -> Nat]]
    BY <1>7 DEF Add
  <2>5. cta' \in [CTAs -> Registers]
    <3>1. cta[c] \in Registers /\ cta \in [CTAs -> Registers]  BY DEF Registers
    <3>2. [cta[c] EXCEPT !.added = @ \cup {w}] \in Registers  BY <3>1 DEF Registers
    <3>3. cta' = [cta EXCEPT ![c] = [cta[c] EXCEPT !.added = @ \cup {w}]]
      BY <1>7, <3>1 DEF Add
    <3>4. QED  BY <3>1, <3>2, <3>3
  <2>6. UNCHANGED <<input, arrival, outc, out, pc, phase, late, torn>>  BY <1>7 DEF Add
  <2>7. QED  BY <2>3, <2>4, <2>5, <2>6 DEF Registers
<1>8. ASSUME NEW c \in CTAs, NEW w \in WaveIds, Clear(c, w) PROVE TypeOK'
  <2>1. hist' \in [0 .. 2 -> [Buckets -> Nat]]
    <3>1. PICK f : f = Following(c)  OBVIOUS
    <3>2. hist' = [hist EXCEPT ![f] = [b \in Buckets |-> IF b \in OfWave(w) THEN 0 ELSE @[b]]]
      BY <1>8, <3>1 DEF Clear
    <3>3. hist \in [0 .. 2 -> [Buckets -> Nat]]  OBVIOUS
    <3>4. QED  BY <3>2, <3>3
  <2>2. cta' \in [CTAs -> Registers]
    <3>1. cta[c] \in Registers /\ cta \in [CTAs -> Registers]  BY DEF Registers
    <3>2. [cta[c] EXCEPT !.cleared = @ \cup {w}] \in Registers  BY <3>1 DEF Registers
    <3>3. cta' = [cta EXCEPT ![c] = [cta[c] EXCEPT !.cleared = @ \cup {w}]]
      BY <1>8, <3>1 DEF Clear
    <3>4. QED  BY <3>1, <3>2, <3>3
  <2>3. UNCHANGED <<input, arrival, outc, out, pc, phase, late, torn>>  BY <1>8 DEF Clear
  <2>4. QED  BY <2>1, <2>2, <2>3 DEF Registers
<1>9. ASSUME NEW c \in CTAs, ArriveRound(c) PROVE TypeOK'
  BY <1>9 DEF ArriveRound, Places
<1>10. ASSUME NEW c \in CTAs, PassRound(c) PROVE TypeOK'
  BY <1>10 DEF PassRound, Places
<1>11. ASSUME NEW c \in CTAs, Select(c) PROVE TypeOK'
  <2> DEFINE r == cta[c].round
             h == hist[Current(c)]
             k == cta[c].remaining
             found == Pivots(h, k)
             digit == IF found = {} THEN 0 ELSE CHOOSE b \in found : TRUE
             left == IF found = {} THEN k ELSE k - CountFrom(h, digit + 1)
             new == [cta[c] EXCEPT !.prefix = @ + digit * Weight[r], !.remaining = left,
                                   !.round = @ + 1, !.added = {}, !.cleared = {}]
  <2>1. pc[c] = "read"  BY <1>11 DEF Select
  <2>2. cta[c] \in Registers /\ cta \in [CTAs -> Registers]  BY DEF Registers
  <2>3. r \in 0 .. 3  BY <2>1 DEF PlaceOK, PlaceAt
  <2>4. Current(c) \in 0 .. 2
    <3>1. PICK i \in Nat : i = cta[c].iter  BY <2>2 DEF Registers
    <3>2. i # 0  BY <3>1, <2>2 DEF Registers
    <3>3. PICK x \in 0 .. 3 : x = cta[c].round  BY <2>3
    <3>4. (i - 1) * 4 + x \in Nat  BY <3>2
    <3>5. ((i - 1) * 4 + x) % 3 \in 0 .. 2  BY <3>4
    <3>6. QED  BY <3>1, <3>3, <3>5 DEF Current, GlobalRound, Rounds
  <2>5. h \in [Buckets -> Nat]  BY <2>4
  <2>6. k \in 1 .. K  BY <2>2 DEF Registers
  <2> HIDE DEF h, k
  <2>7. digit \in Buckets /\ (found # {} => digit \in found)
    <3>1. found \subseteq Buckets  BY DEF Pivots
    <3>2. 0 \in Buckets  BY KernelAssumption DEF Buckets
    <3> HIDE DEF found
    <3>3. QED  BY <3>1, <3>2
  <2> HIDE DEF digit
  <2>8. left \in 1 .. K
    <3>1. CASE found = {}  BY <3>1, <2>6
    <3>2. CASE found # {}
      <4>1. CountFrom(h, digit + 1) < k  BY <3>2, <2>7 DEF Pivots
      <4>2. digit + 1 \in Nat  BY <2>7, KernelAssumption DEF Buckets
      <4>3. CountFrom(h, digit + 1) \in Nat  BY <2>5, <4>2, CountType
      <4>4. K \in Nat  BY KernelAssumption
      <4>5. k - CountFrom(h, digit + 1) \in 1 .. K  BY <4>1, <4>3, <4>4, <2>6
      <4>6. QED  BY <3>2, <4>5
    <3>3. QED  BY <3>1, <3>2
  <2>9. cta[c].prefix + digit * Weight[r] \in Nat
    <3>1. digit \in Nat  BY <2>7, KernelAssumption DEF Buckets
    <3>2. Weight[r] \in Nat  BY <2>3, WeightType
    <3>3. cta[c].prefix \in Nat  BY <2>2 DEF Registers
    <3>4. PICK x \in Nat, y \in Nat : x = digit /\ y = Weight[r]  BY <3>1, <3>2
    <3>5. x * y \in Nat  OBVIOUS
    <3>6. QED  BY <3>3, <3>4, <3>5
  <2>10. cta' = [cta EXCEPT ![c] = new]
    BY <1>11, <2>2 DEF Select, digit, h, k, Registers
  <2> HIDE DEF left
  <2>11. r + 1 \in 0 .. Rounds  BY <2>3 DEF Rounds
  <2>12. new \in Registers  BY <2>2, <2>8, <2>9, <2>11 DEF Registers
  <2> HIDE DEF new
  <2>13. cta' \in [CTAs -> Registers]  BY <2>2, <2>10, <2>12
  <2>14. pc' \in [CTAs -> Places]  BY <1>11 DEF Select, Places
  <2>15. QED  BY <1>11, <2>13, <2>14 DEF Select, Registers
<1>12. ASSUME NEW c \in CTAs, Collect(c) PROVE TypeOK'
  <2> DEFINE above == {i \in MyChunk(c) : Key(Row(c), i) > cta[c].prefix}
             n == Cardinality(above)
  <2>1. pc[c] \in AtRow  BY <1>12 DEF Collect, AtRow
  <2>2. IsFiniteSet(MyChunk(c)) /\ MyChunk(c) \subseteq 0 .. Stride - 1 /\ cta[c].iter \in DOMAIN rows
    BY <2>1, AtRowType
  <2>3. above \subseteq MyChunk(c)  OBVIOUS
  <2>4. PICK at \in Bijection(above, outc .. outc + n - 1) :
          out' = out \cup {[row |-> cta[c].iter, pos |-> at[i], index |-> i] : i \in above}
    BY <1>12 DEF Collect
  <2>5. outc' = outc + n  BY <1>12 DEF Collect
  <2> HIDE DEF above
  <2>6. n \in Nat
    <3>1. IsFiniteSet(above)  BY <2>2, <2>3, FS_Subset
    <3>2. QED  BY <3>1, FS_CardinalityType
  <2> HIDE DEF n
  <2>7. outc' \in Nat  BY <2>5, <2>6
  <2>8. \A e \in out' : e.row \in DOMAIN rows /\ e.pos \in Nat /\ e.index \in 0 .. Stride - 1
    <3>1. TAKE e \in out'
    <3>2. CASE e \in out  BY <3>2
    <3>3. CASE e \notin out
      <4>1. PICK i \in above : e = [row |-> cta[c].iter, pos |-> at[i], index |-> i]
        BY <3>1, <3>3, <2>4
      <4>2. at[i] \in outc .. outc + n - 1  BY <2>4, <4>1 DEF Bijection, Injection
      <4>3. at[i] \in Nat  BY <4>2, <2>6
      <4>4. QED  BY <4>1, <4>3, <2>2, <2>3
    <3>4. QED  BY <3>2, <3>3
  <2>9. pc' \in [CTAs -> Places] /\ arrival' \in Nat  BY <1>12 DEF Collect, Places
  <2>10. QED  BY <1>12, <2>7, <2>8, <2>9 DEF Collect
<1>13. ASSUME NEW c \in CTAs, PassFinal(c) PROVE TypeOK'
  <2> DEFINE equal == {i \in MyChunk(c) : Key(Row(c), i) = cta[c].prefix}
             new == [cta[c] EXCEPT !.ties = equal]
  <2>1. pc[c] \in AtRow  BY <1>13 DEF PassFinal, AtRow
  <2>2. MyChunk(c) \subseteq 0 .. Stride - 1  BY <2>1, AtRowType
  <2>3. equal \subseteq 0 .. Stride - 1  BY <2>2
  <2>4. cta[c] \in Registers /\ cta \in [CTAs -> Registers]  BY DEF Registers
  <2>5. cta' = [cta EXCEPT ![c] = new]  BY <1>13, <2>4 DEF PassFinal
  <2> HIDE DEF equal
  <2>6. new \in Registers  BY <2>3, <2>4 DEF Registers
  <2> HIDE DEF new
  <2>7. cta' \in [CTAs -> Registers]  BY <2>4, <2>5, <2>6
  <2>8. pc' \in [CTAs -> Places] /\ phase' \in [CTAs -> Nat]  BY <1>13 DEF PassFinal, Places
  <2>9. QED  BY <1>13, <2>7, <2>8 DEF PassFinal, Registers
<1>14. ASSUME NEW c \in CTAs, Tie(c) PROVE TypeOK'
  <2>1. pc[c] \in AtRow  BY <1>14 DEF Tie, AtRow
  <2>2. cta[c].iter \in DOMAIN rows  BY <2>1, AtRowType
  <2>3. PICK i \in cta[c].ties :
          /\ out' = IF outc < K THEN out \cup {[row |-> cta[c].iter, pos |-> outc, index |-> i]}
                                ELSE out
          /\ cta' = [cta EXCEPT ![c].ties = @ \ {i}]
    BY <1>14 DEF Tie
  <2>4. i \in 0 .. Stride - 1  BY <2>3
  <2>5. \A e \in out' : e.row \in DOMAIN rows /\ e.pos \in Nat /\ e.index \in 0 .. Stride - 1
    BY <2>2, <2>3, <2>4
  <2>6. cta' \in [CTAs -> Registers]  BY <2>3, ZenonT(40) DEF Registers
  <2>7. outc' \in Nat  BY <1>14 DEF Tie
  <2>8. QED  BY <1>14, <2>5, <2>6, <2>7 DEF Tie, Registers
<1>15. ASSUME NEW c \in CTAs, NextRow(c) PROVE TypeOK'
  <2>1. cta[c] \in Registers /\ cta \in [CTAs -> Registers]  BY DEF Registers
  <2>2. [cta[c] EXCEPT !.iter = @ + 1] \in Registers  BY <2>1, SMTT(30) DEF Registers
  <2>3. cta' = [cta EXCEPT ![c] = [cta[c] EXCEPT !.iter = @ + 1]]  BY <1>15, <2>1 DEF NextRow
  <2>4. cta' \in [CTAs -> Registers]  BY <2>1, <2>2, <2>3
  <2>5. QED  BY <1>15, <2>4 DEF NextRow, Registers, Places
<1>16. ASSUME NEW c \in CTAs, Overtake(c) PROVE TypeOK'
  <2>1. pc[c] \in AtRow  BY <1>16 DEF Overtake, AtRow
  <2>2. MyChunk(c) \subseteq 0 .. Stride - 1 /\ cta[c].iter \in DOMAIN rows  BY <2>1, AtRowType
  <2>3. PICK others \in SUBSET MyChunk(c) : cta' = [cta EXCEPT ![c].ties = @ \cup others]
    BY <1>16 DEF Overtake
  <2>4. cta[c] \in Registers /\ cta \in [CTAs -> Registers]  BY DEF Registers
  <2>5. cta[c].ties \cup others \in SUBSET (0 .. Stride - 1)  BY <2>2
  <2>6. [cta[c] EXCEPT !.ties = @ \cup others] \in Registers
    BY <2>4, <2>5 DEF Registers
  <2>7. cta' = [cta EXCEPT ![c] = [cta[c] EXCEPT !.ties = @ \cup others]]  BY <2>3, <2>4
  <2>8. cta' \in [CTAs -> Registers]  BY <2>4, <2>6, <2>7
  <2>9. torn' \subseteq CTAs \X DOMAIN rows  BY <1>16, <2>2 DEF Overtake
  <2>10. QED  BY <1>16, <2>8, <2>9 DEF Overtake, Registers
<1>17. ASSUME NEW c \in CTAs, Miss(c) PROVE TypeOK'
  <2>1. PICK i \in cta[c].ties : cta' = [cta EXCEPT ![c].ties = @ \ {i}]  BY <1>17 DEF Miss
  <2>2. cta' \in [CTAs -> Registers]  BY <2>1, ZenonT(40) DEF Registers
  <2>3. QED  BY <1>17, <2>2 DEF Miss, Registers
<1>18. QED
  BY <1>0, <1>1, <1>2, <1>3, <1>4, <1>5, <1>6, <1>7, <1>8, <1>9, <1>10, <1>11, <1>12,
     <1>13, <1>14, <1>15, <1>16, <1>17 DEF Next, Step, WaveStep

-----------------------------------------------------------------------------
(* What a step of a CTA does to the others and to the barrier. *)

Steps(c) == Step(c) \/ \E w \in WaveIds : WaveStep(c, w)

\* A wave is overtaken, or misses what it looks at.
Astray(c) == Overtake(c) \/ Miss(c)

\* Neither touches more than what is left of the chunk to look at.
LEMMA AstrayMoves ==
  ASSUME TypeOK, NEW c \in CTAs, Astray(c)
  PROVE  /\ rows' = rows /\ maxLen' = maxLen /\ slots' = slots /\ hist' = hist
         /\ arrival' = arrival /\ outc' = outc /\ out' = out
         /\ pc' = pc /\ phase' = phase /\ late' = late
         /\ pc[c] = "ties" /\ <<c, cta[c].iter>> \in torn'
         /\ \E left \in SUBSET (cta[c].ties \cup MyChunk(c)) : cta' = [cta EXCEPT ![c].ties = left]
<1>1. CASE Overtake(c)
  <2>1. PICK others \in SUBSET MyChunk(c) : cta' = [cta EXCEPT ![c].ties = @ \cup others]
    BY <1>1 DEF Overtake
  <2>2. cta' = [cta EXCEPT ![c].ties = cta[c].ties \cup others]  BY <2>1 DEF TypeOK
  <2>3. \E left \in SUBSET (cta[c].ties \cup MyChunk(c)) : cta' = [cta EXCEPT ![c].ties = left]
    BY <2>2
  <2>4. QED  BY <1>1, <2>3 DEF Overtake, input, state
<1>2. CASE Miss(c)
  <2>1. PICK i \in cta[c].ties : cta' = [cta EXCEPT ![c].ties = @ \ {i}]  BY <1>2 DEF Miss
  <2>2. cta' = [cta EXCEPT ![c].ties = cta[c].ties \ {i}]  BY <2>1 DEF TypeOK
  <2>3. \E left \in SUBSET (cta[c].ties \cup MyChunk(c)) : cta' = [cta EXCEPT ![c].ties = left]
    BY <2>2
  <2>4. QED  BY <1>2, <2>3 DEF Miss, input, state
<1>3. QED  BY <1>1, <1>2 DEF Astray

\* Only the other registers of the CTA stay.
LEMMA AstrayRegisters ==
  ASSUME TypeOK, NEW c \in CTAs, Astray(c)
  PROVE  /\ \A d \in CTAs \ {c} : cta'[d] = cta[d]
         /\ cta'[c].iter = cta[c].iter /\ cta'[c].round = cta[c].round
         /\ cta'[c].prefix = cta[c].prefix /\ cta'[c].remaining = cta[c].remaining
         /\ cta'[c].added = cta[c].added /\ cta'[c].cleared = cta[c].cleared
         /\ cta'[c].ties \subseteq cta[c].ties \cup MyChunk(c)
<1>1. PICK left \in SUBSET (cta[c].ties \cup MyChunk(c)) : cta' = [cta EXCEPT ![c].ties = left]
  BY AstrayMoves
<1>2. QED  BY <1>1 DEF TypeOK

\* Who has been overtaken stays so, and a step adds no more than its own CTA.
LEMMA TornStays ==
  ASSUME TypeOK, NEW c \in CTAs, Steps(c)
  PROVE  /\ torn \subseteq torn'
         /\ \A d \in CTAs \ {c} : \A i : <<d, i>> \in torn' <=> <<d, i>> \in torn
         /\ torn' = torn \/ (Overtake(c) /\ torn' = torn \cup {<<c, cta[c].iter>>})
<1>1. CASE Overtake(c)
  <2>1. torn' = torn \cup {<<c, cta[c].iter>>}  BY <1>1 DEF Overtake
  <2>2. QED  BY <1>1, <2>1
<1>2. CASE ~Overtake(c)
  <2>1. Start(c) \/ ShortRow(c) \/ LeaveLoop(c) \/ LargeRow(c) \/ PassInit(c) \/ ResetOutput(c)
          => torn' = torn
    BY DEF Start, ShortRow, LeaveLoop, LargeRow, PassInit, ResetOutput
  <2>2. ArriveRound(c) \/ PassRound(c) \/ Select(c) \/ Collect(c) => torn' = torn
    BY DEF ArriveRound, PassRound, Select, Collect
  <2>3. PassFinal(c) \/ Tie(c) \/ Miss(c) \/ NextRow(c) => torn' = torn
    BY DEF PassFinal, Tie, Miss, NextRow
  <2>4. \A w \in WaveIds : WaveStep(c, w) => torn' = torn  BY DEF WaveStep, Add, Clear
  <2>5. torn' = torn  BY <1>2, <2>1, <2>2, <2>3, <2>4 DEF Steps, Step
  <2>6. QED  BY <2>5
<1>3. QED  BY <1>1, <1>2

\* A CTA writes only its own registers.
LEMMA OthersStay ==
  ASSUME TypeOK, NEW c \in CTAs, Steps(c)
  PROVE  /\ rows' = rows
         /\ \A d \in CTAs \ {c} : pc'[d] = pc[d] /\ phase'[d] = phase[d] /\ cta'[d] = cta[d]
<1> USE DEF TypeOK, input, state, Goto, Arrive
<1>1. Step(c) =>
        /\ rows' = rows
        /\ \A d \in CTAs \ {c} : pc'[d] = pc[d] /\ phase'[d] = phase[d] /\ cta'[d] = cta[d]
  <2>1. Start(c) \/ ShortRow(c) \/ LeaveLoop(c) \/ LargeRow(c) \/ PassInit(c) \/ ResetOutput(c) =>
          /\ rows' = rows
          /\ \A d \in CTAs \ {c} : pc'[d] = pc[d] /\ phase'[d] = phase[d] /\ cta'[d] = cta[d]
    BY DEF Start, ShortRow, LeaveLoop, LargeRow, PassInit, ResetOutput
  <2>2. ArriveRound(c) \/ PassRound(c) \/ Select(c) \/ Collect(c) \/ PassFinal(c) \/ Tie(c) \/ NextRow(c) =>
          /\ rows' = rows
          /\ \A d \in CTAs \ {c} : pc'[d] = pc[d] /\ phase'[d] = phase[d] /\ cta'[d] = cta[d]
    BY DEF ArriveRound, PassRound, Select, Collect, PassFinal, Tie, NextRow
  <2>3. Astray(c) =>
          /\ rows' = rows
          /\ \A d \in CTAs \ {c} : pc'[d] = pc[d] /\ phase'[d] = phase[d] /\ cta'[d] = cta[d]
    BY AstrayMoves, AstrayRegisters
  <2>4. QED  BY <2>1, <2>2, <2>3 DEF Step, Astray
<1>2. ASSUME NEW w \in WaveIds, WaveStep(c, w)
      PROVE  /\ rows' = rows
             /\ \A d \in CTAs \ {c} : pc'[d] = pc[d] /\ phase'[d] = phase[d] /\ cta'[d] = cta[d]
  BY <1>2 DEF WaveStep, Add, Clear
<1>3. QED  BY <1>1, <1>2 DEF Steps

Stays(c) == arrival' = arrival /\ Arrived(c)' = Arrived(c) /\ phase'[c] = phase[c]
Arrives(c) ==
  /\ arrival' = arrival + 1 /\ Arrived(c) = phase[c]
  /\ Arrived(c)' = phase[c] + 1 /\ phase'[c] = phase[c]
Passes(c) ==
  /\ Everyone(c) /\ arrival' = arrival /\ Arrived(c) = phase[c] + 1
  /\ Arrived(c)' = Arrived(c) /\ phase'[c] = phase[c] + 1

\* It comes to a barrier, passes one for which all have come, or neither.
LEMMA BarrierStep ==
  ASSUME TypeOK, NEW c \in CTAs, Steps(c)
  PROVE  Stays(c) \/ Arrives(c) \/ Passes(c)
<1> USE DEF TypeOK, Goto, Arrived, Waiting
<1>1. ASSUME Start(c) \/ ShortRow(c) \/ LeaveLoop(c) PROVE Stays(c)
  BY <1>1 DEF Start, ShortRow, LeaveLoop, Stays, state
<1>2. ASSUME ResetOutput(c) \/ Select(c) \/ Tie(c) \/ NextRow(c) PROVE Stays(c)
  BY <1>2 DEF ResetOutput, Select, Tie, NextRow, Stays, state
<1>3. ASSUME NEW w \in WaveIds, WaveStep(c, w) PROVE Stays(c)
  BY <1>3 DEF WaveStep, Add, Clear, Stays
<1>4. ASSUME LargeRow(c) \/ ArriveRound(c) \/ Collect(c) PROVE Arrives(c)
  BY <1>4 DEF LargeRow, ArriveRound, Collect, Arrive, Arrives
<1>5. ASSUME PassInit(c) \/ PassRound(c) \/ PassFinal(c) PROVE Passes(c)
  BY <1>5 DEF PassInit, PassRound, PassFinal, Passes, state
<1>6. ASSUME Astray(c) PROVE Stays(c)
  BY <1>6, AstrayMoves DEF Stays
<1>7. QED  BY <1>1, <1>2, <1>3, <1>4, <1>5, <1>6 DEF Steps, Step, Astray

\* The counter and the CTAs agree, so that all have come to a barrier that
\* one of them passes.
LEMMA BarrierNext ==
  ASSUME TypeOK, BarrierOK, NEW c \in CTAs, Steps(c)
  PROVE  BarrierOK'
<1>1. PICK b \in Nat : /\ Between(b)
                       /\ At(b + 1) # CTAs
                       /\ arrival = CtasPerGroup * b + Cardinality(At(b + 1))
  BY DEF BarrierOK
<1>2. \A d \in CTAs \ {c} : Arrived(d)' = Arrived(d) /\ phase'[d] = phase[d]
  BY OthersStay DEF Arrived
<1>3. \A d \in CTAs : phase[d] \in Nat /\ Arrived(d) \in Nat  BY DEF TypeOK, Arrived
<1>4. IsFiniteSet(CTAs) /\ Cardinality(CTAs) = CtasPerGroup /\ CtasPerGroup \in Nat \ {0}
  BY CTAsFinite, Layout
<1>5. At(b + 1) \subseteq CTAs  BY DEF At
<1>6. /\ IsFiniteSet(At(b + 1)) /\ Cardinality(At(b + 1)) \in Nat
      /\ Cardinality(At(b + 1)) < CtasPerGroup
  <2>1. IsFiniteSet(At(b + 1)) /\ Cardinality(At(b + 1)) <= Cardinality(CTAs)
    BY <1>4, <1>5, FS_Subset
  <2>2. Cardinality(At(b + 1)) # Cardinality(CTAs)  BY <1>1, <1>4, <1>5, FS_Subset
  <2>3. Cardinality(At(b + 1)) \in Nat  BY <2>1, FS_CardinalityType
  <2>4. QED  BY <2>1, <2>2, <2>3, <1>4
<1>7. CASE Stays(c)
  <2>1. \A d \in CTAs : Arrived(d)' = Arrived(d) /\ phase'[d] = phase[d]
    BY <1>2, <1>7 DEF Stays
  <2>2. Between(b)'  BY <1>1, <2>1 DEF Between
  <2>3. At(b + 1)' = At(b + 1)  BY <2>1 DEF At
  <2>4. QED  BY <1>1, <1>7, <2>2, <2>3 DEF BarrierOK, Stays
<1>8. CASE Passes(c)
  <2>1. \A d \in CTAs : Arrived(d)' = Arrived(d)  BY <1>2, <1>8 DEF Passes
  <2>2. At(b + 1)' = At(b + 1)  BY <2>1 DEF At
  <2>3. phase[c] + 1 <= b
    <3>1. PICK p \in Nat, n \in Nat, x \in Nat :
            p = phase[c] /\ n = CtasPerGroup /\ x = Cardinality(At(b + 1))
      BY <1>3, <1>4, <1>6
    <3>2. n * b + x >= (p + 1) * n /\ x < n  BY <1>1, <1>6, <1>8, <3>1 DEF Passes, Everyone
    <3>3. SUFFICES ASSUME b <= p PROVE FALSE  BY <3>1
    <3>4. PICK k \in Nat : p = b + k
      <4>1. p - b \in Nat /\ p = b + (p - b)  BY <3>3
      <4>2. QED  BY <4>1
    <3>5. (p + 1) * n = n * b + n * k + n /\ n * k \in Nat /\ n * b \in Nat  BY <3>4
    <3>6. QED  BY <3>2, <3>5
  <2>4. Between(b)'
    BY <1>1, <1>2, <1>8, <2>1, <2>3 DEF Between, Passes
  <2>5. QED  BY <1>1, <1>8, <2>2, <2>4 DEF BarrierOK, Passes
<1>9. CASE Arrives(c)
  <2>1. Arrived(c) = b /\ Arrived(c)' = b + 1 /\ phase[c] = b
    BY <1>1, <1>3, <1>9 DEF Between, Arrives
  <2>2. At(b + 1)' = At(b + 1) \cup {c}  BY <1>2, <2>1 DEF At
  <2>3. c \notin At(b + 1)  BY <2>1 DEF At
  <2>4. Cardinality(At(b + 1)') = Cardinality(At(b + 1)) + 1
    BY <1>6, <2>2, <2>3, FS_AddElement
  <2>5. CASE At(b + 1)' # CTAs
    <3>1. Between(b)'  BY <1>1, <1>2, <1>9, <2>1 DEF Between, Arrives
    <3>2. arrival' = CtasPerGroup * b + Cardinality(At(b + 1)')
      <4>1. PICK y \in Nat : y = CtasPerGroup * b  BY <1>4
      <4>2. QED  BY <4>1, <1>1, <1>6, <1>9, <2>4 DEF Arrives
    <3>3. QED  BY <2>5, <3>1, <3>2 DEF BarrierOK
  <2>6. CASE At(b + 1)' = CTAs
    <3>1. \A d \in CTAs : Arrived(d)' = b + 1  BY <2>6 DEF At
    <3>2. \A d \in CTAs : phase'[d] <= b  BY <1>1, <1>2, <1>9 DEF Between, Arrives
    <3>3. \A d \in CTAs : phase'[d] \in Nat
      BY <1>2, <1>3, <1>9 DEF Arrives
    <3>4. Between(b + 1)'  BY <3>1, <3>2, <3>3 DEF Between
    <3>5. At(b + 2)' = {}  BY <3>1 DEF At
    <3>6. Cardinality({}) = 0  BY FS_EmptySet
    <3>7. arrival' = CtasPerGroup * (b + 1)
      <4>1. PICK n \in Nat : n = CtasPerGroup  BY <1>4
      <4>2. n * (b + 1) = n * b + n /\ n * b \in Nat  OBVIOUS
      <4>3. Cardinality(At(b + 1)) + 1 = n  BY <2>4, <2>6, <1>4, <4>1
      <4>4. QED  BY <1>1, <1>6, <1>9, <4>1, <4>2, <4>3 DEF Arrives
    <3>8. arrival' = CtasPerGroup * (b + 1) + 0  BY <3>7, <1>4
    <3>9. CTAs # {}  OBVIOUS
    <3>10. (b + 1) + 1 = b + 2 /\ b + 1 \in Nat  OBVIOUS
    <3>11. QED  BY <3>4, <3>5, <3>6, <3>8, <3>9, <3>10 DEF BarrierOK
  <2>7. QED  BY <2>5, <2>6
<1>10. QED  BY <1>7, <1>8, <1>9, BarrierStep

-----------------------------------------------------------------------------
(* Where CTAs are. *)

\* The end of a round.
LEMMA SelectMoves ==
  ASSUME TypeOK, NEW c \in CTAs, Select(c)
  PROVE  /\ pc[c] = "read" /\ phase' = phase
         /\ cta'[c].iter = cta[c].iter /\ cta'[c].round = cta[c].round + 1
         /\ pc'[c] = IF cta[c].round = 3 THEN "collect" ELSE "round"
<1>1. pc[c] = "read" /\ phase' = phase  BY DEF Select
<1>2. cta'[c].iter = cta[c].iter /\ cta'[c].round = cta[c].round + 1
  <2>1. PICK p, k :
          cta' = [cta EXCEPT ![c].prefix = p, ![c].remaining = k, ![c].round = @ + 1,
                             ![c].added = {}, ![c].cleared = {}]
    BY DEF Select
  <2>2. QED  BY <2>1 DEF TypeOK
<1>3. Goto(c, IF cta[c].round = Rounds - 1 THEN "collect" ELSE "round")  BY DEF Select
<1>4. Rounds - 1 = 3  BY DEF Rounds
<1>5. pc'[c] = IF cta[c].round = 3 THEN "collect" ELSE "round"
  BY <1>3, <1>4 DEF Goto, TypeOK
<1>6. QED  BY <1>1, <1>2, <1>5

\* A CTA is inside a row as long as it searches one, and in the round it is at.
LEMMA PlaceNext ==
  ASSUME TypeOK, PlaceOK, NEW c \in CTAs, Steps(c)
  PROVE  PlaceOK'
<1>1. /\ rows' = rows
      /\ \A d \in CTAs \ {c} : pc'[d] = pc[d] /\ phase'[d] = phase[d] /\ cta'[d] = cta[d]
  BY OthersStay
<1>2. LargeRows' = LargeRows  BY <1>1 DEF LargeRows
<1>3. \A d \in CTAs \ {c} : PlaceAt(d)'
  <2> TAKE d \in CTAs \ {c}
  <2>1. PlaceAt(d)  BY DEF PlaceOK
  <2>2. Row(d)' = Row(d) /\ MyChunk(d)' = MyChunk(d)  BY <1>1 DEF Row, MyChunk
  <2>3. <<d, cta'[d].iter>> \in torn' <=> <<d, cta[d].iter>> \in torn  BY <1>1, TornStays
  <2>4. QED  BY <1>1, <1>2, <2>1, <2>2, <2>3 DEF PlaceAt
<1>4. PlaceAt(c)  BY DEF PlaceOK
<1>5. PlaceAt(c)'
  <2> USE DEF TypeOK, Goto, AtRow, Collecting
  <2>1. CASE Start(c) \/ ShortRow(c) \/ LeaveLoop(c)
    BY <2>1, <1>1, <1>2, <1>4 DEF PlaceAt, Start, ShortRow, LeaveLoop
  <2>2. CASE LargeRow(c)
    <3>1. cta[c].iter \in DOMAIN rows
      <4>1. rows \in Seq(Seq(Keys))  BY KernelAssumption
      <4>2. cta[c].iter \in Nat \ {0} /\ cta[c].iter <= Len(rows)  BY <2>2 DEF LargeRow
      <4>3. QED  BY <4>1, <4>2
    <3>2. cta[c].iter \in LargeRows  BY <2>2, <3>1 DEF LargeRow, LargeRows, Row
    <3>3. QED  BY <2>2, <1>1, <1>2, <3>2 DEF PlaceAt, LargeRow
  <2>3. CASE PassInit(c) \/ ResetOutput(c) \/ ArriveRound(c) \/ PassRound(c)
    BY <2>3, <1>1, <1>2, <1>4 DEF PlaceAt, PassInit, ResetOutput, ArriveRound, PassRound
  <2>4. CASE \E w \in WaveIds : WaveStep(c, w)
    BY <2>4, <1>1, <1>2, <1>4, SMTT(30) DEF PlaceAt, WaveStep, Add, Clear
  <2>5. CASE Select(c)
    <3>1. pc[c] = "read" /\ cta[c].round \in 0 .. 3 /\ cta[c].iter \in LargeRows
      BY <2>5, <1>4, SelectMoves DEF PlaceAt
    <3>2. cta'[c].round = cta[c].round + 1 /\ cta'[c].iter = cta[c].iter
      BY <2>5, SelectMoves
    <3>3. pc'[c] = IF cta[c].round = 3 THEN "collect" ELSE "round"
      BY <2>5, SelectMoves
    <3>4. QED  BY <1>1, <1>2, <3>1, <3>2, <3>3 DEF PlaceAt
  <2>6. CASE Collect(c)
    BY <2>6, <1>1, <1>2, <1>4 DEF PlaceAt, Collect
  <2>7. CASE PassFinal(c)
    <3>1. /\ pc'[c] = "ties" /\ cta'[c].iter = cta[c].iter /\ cta'[c].round = cta[c].round
          /\ cta'[c].prefix = cta[c].prefix
          /\ cta'[c].ties = {i \in MyChunk(c) : Key(Row(c), i) = cta[c].prefix}
      BY <2>7 DEF PassFinal
    <3>2. Row(c)' = Row(c) /\ MyChunk(c)' = MyChunk(c)  BY <1>1, <3>1 DEF Row, MyChunk
    <3>3. cta[c].iter \in LargeRows /\ cta[c].round = 4  BY <2>7, <1>4 DEF PlaceAt, PassFinal
    <3>4. QED  BY <1>2, <3>1, <3>2, <3>3 DEF PlaceAt
  <2>8. CASE Tie(c)
    <3>1. /\ pc'[c] = "ties" /\ pc[c] = "ties" /\ cta'[c].iter = cta[c].iter
          /\ cta'[c].round = cta[c].round /\ cta'[c].prefix = cta[c].prefix
          /\ cta'[c].ties \subseteq cta[c].ties /\ torn' = torn
      BY <2>8 DEF Tie
    <3>2. Row(c)' = Row(c) /\ MyChunk(c)' = MyChunk(c)  BY <1>1, <3>1 DEF Row, MyChunk
    <3>3. QED  BY <1>2, <1>4, <3>1, <3>2 DEF PlaceAt
  <2>9. CASE NextRow(c)
    BY <2>9, <1>1, <1>2, <1>4 DEF PlaceAt, NextRow
  <2>10. CASE Astray(c)
    <3>1. /\ pc'[c] = "ties" /\ pc[c] = "ties" /\ cta'[c].iter = cta[c].iter
          /\ cta'[c].round = cta[c].round /\ <<c, cta'[c].iter>> \in torn'
          /\ cta'[c].ties \subseteq cta[c].ties \cup MyChunk(c)
      BY <2>10, AstrayMoves, AstrayRegisters
    <3>2. MyChunk(c)' = MyChunk(c)  BY <1>1, <3>1 DEF Row, MyChunk
    <3>3. QED  BY <1>2, <1>4, <3>1, <3>2 DEF PlaceAt
  <2>11. QED
    BY <2>1, <2>2, <2>3, <2>4, <2>5, <2>6, <2>7, <2>8, <2>9, <2>10 DEF Steps, Step, Astray
<1>6. QED  BY <1>3, <1>5 DEF PlaceOK

\* A CTA whose waves have been overtaken in a row is still in it, looking for
\* ties, or behind it.
LEMMA TornNext ==
  ASSUME TypeOK, PlaceOK, TornOK, NEW c \in CTAs, Steps(c)
  PROVE  TornOK'
<1>1. /\ rows' = rows
      /\ \A d \in CTAs \ {c} : pc'[d] = pc[d] /\ cta'[d] = cta[d]
  BY OthersStay
<1>2. LargeRows' = LargeRows  BY <1>1 DEF LargeRows
<1>3. \A d \in CTAs \ {c} : TornAt(d)'  BY <1>1, <1>2, TornStays DEF TornOK, TornAt
<1>4. ASSUME NEW i \in LargeRows, <<c, i>> \in torn'
      PROVE  cta'[c].iter > i \/ (cta'[c].iter = i /\ pc'[c] = "ties")
  <2>1. i \in Nat  BY RowType DEF LargeRows
  <2>2. PICK j \in Nat : j = cta[c].iter  BY DEF TypeOK
  <2>3. CASE Astray(c)
    <3>1. pc'[c] = "ties" /\ pc[c] = "ties" /\ cta'[c].iter = j  BY <2>2, <2>3, AstrayMoves, AstrayRegisters
    <3>2. CASE <<c, i>> \in torn
      BY <2>2, <3>1, <3>2 DEF TornOK, TornAt
    <3>3. CASE <<c, i>> \notin torn
      <4>1. <<c, i>> = <<c, j>>  BY <1>4, <2>2, <3>3, TornStays
      <4>2. QED  BY <3>1, <4>1
    <3>4. QED  BY <3>2, <3>3
  <2>4. CASE ~Astray(c)
    <3>1. <<c, i>> \in torn  BY <1>4, <2>4, TornStays DEF Astray
    <3>2. j > i \/ (j = i /\ pc[c] = "ties")  BY <2>2, <3>1 DEF TornOK, TornAt
    <3> USE DEF TypeOK, Goto
    <3>3. CASE j > i
      <4>1. cta'[c].iter \in {j, j + 1}
        <5>1. Select(c) => cta'[c].iter = j  BY <2>2, SelectMoves
        <5>2. Start(c) \/ ShortRow(c) \/ LeaveLoop(c) \/ LargeRow(c) \/ PassInit(c) \/ ResetOutput(c)
                => cta'[c].iter \in {j, j + 1}
          BY <2>2 DEF Start, ShortRow, LeaveLoop, LargeRow, PassInit, ResetOutput
        <5>3. ArriveRound(c) \/ PassRound(c) \/ Collect(c) \/ PassFinal(c) \/ Tie(c) \/ NextRow(c)
                => cta'[c].iter \in {j, j + 1}
          BY <2>2 DEF ArriveRound, PassRound, Collect, PassFinal, Tie, NextRow
        <5>4. \A w \in WaveIds : WaveStep(c, w) => cta'[c].iter = j
          BY <2>2 DEF WaveStep, Add, Clear
        <5>5. QED  BY <2>4, <5>1, <5>2, <5>3, <5>4 DEF Steps, Step, Astray
      <4>2. QED  BY <2>1, <2>2, <3>3, <4>1
    <3>4. CASE j = i /\ pc[c] = "ties"
      <4>1. CASE Tie(c)  BY <2>2, <3>4, <4>1 DEF Tie
      <4>2. CASE NextRow(c)
        <5>1. cta'[c].iter = j + 1  BY <2>2, <4>2 DEF NextRow
        <5>2. QED  BY <2>2, <3>4, <5>1
      <4>3. ~Tie(c) /\ ~NextRow(c) => FALSE
        BY <2>4, <3>4 DEF Steps, Step, WaveStep, Start, ShortRow, LeaveLoop, LargeRow, PassInit,
           ResetOutput, Add, Clear, ArriveRound, PassRound, Select, Collect, PassFinal, Astray
      <4>4. QED  BY <4>1, <4>2, <4>3
    <3>5. QED  BY <3>2, <3>3, <3>4
  <2>5. QED  BY <2>3, <2>4
<1>5. QED  BY <1>2, <1>3, <1>4 DEF TornOK, TornAt

\* The large rows behind a CTA are finitely many; a row that is not large adds
\* none to them, a large one adds itself.
LEMMA BeforeFact ==
  ASSUME TypeOK, NEW i \in Nat \ {0}
  PROVE  /\ IsFiniteSet(Before(i)) /\ Cardinality(Before(i)) \in Nat
         /\ i \notin LargeRows => Before(i + 1) = Before(i)
         /\ i \in LargeRows => Cardinality(Before(i + 1)) = Cardinality(Before(i)) + 1
<1>1. LargeRows \subseteq Nat \ {0}  BY RowType DEF LargeRows
<1>2. \A n \in Nat, j \in Nat : j \in Before(n) <=> j \in LargeRows /\ j < n  BY DEF Before
<1>3. Before(i) \in SUBSET Nat /\ i \in Nat /\ \A j \in Before(i) : j <= i
  <2>1. Before(i) \subseteq Nat  BY <1>1 DEF Before
  <2>2. QED  BY <1>2, <2>1
<1>4. IsFiniteSet(Before(i))  BY <1>3, FS_BoundedSetOfNaturals
<1>5. Cardinality(Before(i)) \in Nat  BY <1>4, FS_CardinalityType
<1>6. ASSUME i \notin LargeRows PROVE Before(i + 1) = Before(i)
  <2>1. Before(i) \subseteq Nat /\ Before(i + 1) \subseteq Nat  BY <1>1 DEF Before
  <2>2. \A j \in Nat : j \in LargeRows => (j < i + 1 <=> j < i)  BY <1>6
  <2>3. QED  BY <1>2, <2>1, <2>2, SMTT(30)
<1>7. ASSUME i \in LargeRows PROVE Cardinality(Before(i + 1)) = Cardinality(Before(i)) + 1
  <2>1. Before(i + 1) = Before(i) \cup {i}
    <3>1. Before(i) \subseteq Nat /\ Before(i + 1) \subseteq Nat  BY <1>1 DEF Before
    <3>2. \A j \in Nat : j < i + 1 <=> j < i \/ j = i  OBVIOUS
    <3>3. QED  BY <1>2, <1>7, <3>1, <3>2
  <2>2. i \notin Before(i)  BY <1>2
  <2>3. QED  BY <1>4, <2>1, <2>2, FS_AddElement
<1>8. QED  BY <1>4, <1>5, <1>6, <1>7

\* A quotient and a remainder are determined by their number.
LEMMA Unique ==
  ASSUME NEW a \in Nat, NEW b \in Nat, NEW x \in 0 .. 5, NEW y \in 0 .. 5,
         6 * a + x = 6 * b + y
  PROVE  a = b /\ x = y
  OBVIOUS

\* Different large rows are preceded by different numbers of large rows.
LEMMA BeforeGrows ==
  ASSUME TypeOK, NEW i \in LargeRows, NEW j \in Nat \ {0}, i < j
  PROVE  Cardinality(Before(i)) + 1 <= Cardinality(Before(j))
<1>1. LargeRows \subseteq Nat \ {0}  BY RowType DEF LargeRows
<1>2. i \in Nat \ {0} /\ i + 1 \in Nat \ {0}  BY <1>1
<1>3. Before(i + 1) \subseteq Before(j)
  <2>1. \A n \in Nat, k \in Nat : k \in Before(n) <=> k \in LargeRows /\ k < n  BY DEF Before
  <2>2. Before(i + 1) \subseteq Nat  BY <1>1 DEF Before
  <2>3. \A k \in Nat : k < i + 1 => k < j  BY <1>2
  <2>4. QED  BY <1>2, <2>1, <2>2, <2>3
<1>4. IsFiniteSet(Before(j))  BY BeforeFact
<1>5. Cardinality(Before(i + 1)) <= Cardinality(Before(j))  BY <1>3, <1>4, FS_Subset
<1>6. QED  BY <1>2, <1>5, BeforeFact

\* Each step that comes to a barrier moves on in the plan of a row.
LEMMA PlanNext ==
  ASSUME TypeOK, PlaceOK, PlanOK, NEW c \in CTAs, Steps(c)
  PROVE  PlanOK'
<1>1. /\ rows' = rows
      /\ \A d \in CTAs \ {c} : pc'[d] = pc[d] /\ phase'[d] = phase[d] /\ cta'[d] = cta[d]
  BY OthersStay
<1>2. LargeRows' = LargeRows  BY <1>1 DEF LargeRows
<1>3. \A d \in CTAs \ {c} : PlanAt(d)'
  <2> TAKE d \in CTAs \ {c}
  <2>1. PlanAt(d)  BY DEF PlanOK
  <2>2. Arrived(d)' = Arrived(d)  BY <1>1 DEF Arrived
  <2>3. Before(cta[d].iter)' = Before(cta[d].iter)  BY <1>1, <1>2 DEF Before
  <2>4. QED  BY <1>1, <2>1, <2>2, <2>3 DEF PlanAt
<1>4. PlanAt(c) /\ PlaceAt(c)  BY DEF PlanOK, PlaceOK
<1>5. PICK i \in Nat \ {0} : i = cta[c].iter  BY DEF TypeOK
<1>6. PICK n \in Nat : n = Cardinality(Before(i))  BY BeforeFact
<1>8. phase[c] \in Nat  BY DEF TypeOK
<1>9. Arrived(c) = 6 * n + Stage(pc[c], cta[c].round)  BY <1>4, <1>5, <1>6 DEF PlanAt
<1>10. ASSUME cta'[c].iter = i, Arrived(c)' = 6 * n + Stage(pc'[c], cta'[c].round)
       PROVE  PlanAt(c)'
  <2>1. Before(cta[c].iter)' = Before(i)  BY <1>2, <1>10 DEF Before
  <2>2. QED  BY <1>10, <1>6, <2>1 DEF PlanAt
<1>11. PlanAt(c)'
  <2> USE DEF TypeOK, Goto
  <2>1. CASE Start(c) \/ LeaveLoop(c)
    <3>1. cta'[c] = cta[c] /\ phase'[c] = phase[c]  BY <2>1 DEF Start, LeaveLoop
    <3>2. pc[c] \in {"start", "row"} /\ pc'[c] \in {"row", "done"}  BY <2>1 DEF Start, LeaveLoop
    <3>3. QED  BY <3>1, <3>2, <1>5, <1>8, <1>9, <1>10 DEF Arrived, Waiting, Stage
  <2>2. CASE ShortRow(c)
    <3>1. pc[c] = "row" /\ pc'[c] = "row" /\ phase'[c] = phase[c] /\ cta'[c].iter = i + 1
      BY <2>2, <1>5 DEF ShortRow
    <3>2. i \notin LargeRows  BY <2>2, <1>5 DEF ShortRow, LargeRows, Row
    <3>3. Before(i + 1) = Before(i)  BY <3>2, BeforeFact
    <3>4. Before(cta[c].iter)' = Before(i + 1)  BY <1>2, <3>1 DEF Before
    <3>5. QED  BY <3>1, <3>3, <3>4, <1>6, <1>8, <1>9 DEF PlanAt, Arrived, Waiting, Stage
  <2>3. CASE LargeRow(c)
    <3>1. /\ pc[c] = "row" /\ pc'[c] = "init" /\ phase'[c] = phase[c]
          /\ cta'[c].iter = i
      BY <2>3, <1>5 DEF LargeRow
    <3>2. QED  BY <3>1, <1>8, <1>9, <1>10 DEF Arrived, Waiting, Stage
  <2>4. CASE PassInit(c)
    <3>1. /\ pc[c] = "init" /\ pc'[c] \in {"reset", "round"} /\ phase'[c] = phase[c] + 1
          /\ cta'[c] = cta[c] /\ cta[c].round = 0
      BY <2>4, <1>4 DEF PassInit, PlaceAt
    <3>2. QED  BY <3>1, <1>5, <1>8, <1>9, <1>10 DEF Arrived, Waiting, Stage
  <2>5. CASE ResetOutput(c)
    <3>1. /\ pc[c] = "reset" /\ pc'[c] = "round" /\ phase'[c] = phase[c]
          /\ cta'[c] = cta[c] /\ cta[c].round = 0
      BY <2>5, <1>4 DEF ResetOutput, PlaceAt
    <3>2. QED  BY <3>1, <1>5, <1>8, <1>9, <1>10 DEF Arrived, Waiting, Stage
  <2>6. CASE \E w \in WaveIds : WaveStep(c, w)
    <3>1. /\ pc'[c] = pc[c] /\ phase'[c] = phase[c]
          /\ cta'[c].iter = i /\ cta'[c].round = cta[c].round
      BY <2>6, <1>5 DEF WaveStep, Add, Clear
    <3>2. QED  BY <3>1, <1>8, <1>9, <1>10 DEF Arrived
  <2>7. CASE ArriveRound(c)
    <3>1. /\ pc[c] = "round" /\ pc'[c] = "wait" /\ phase'[c] = phase[c]
          /\ cta'[c] = cta[c] /\ cta[c].round \in 0 .. 3
      BY <2>7, <1>4 DEF ArriveRound, PlaceAt
    <3>2. QED  BY <3>1, <1>5, <1>8, <1>9, <1>10 DEF Arrived, Waiting, Stage
  <2>8. CASE PassRound(c)
    <3>1. /\ pc[c] = "wait" /\ pc'[c] = "read" /\ phase'[c] = phase[c] + 1
          /\ cta'[c] = cta[c] /\ cta[c].round \in 0 .. 3
      BY <2>8, <1>4 DEF PassRound, PlaceAt
    <3>2. QED  BY <3>1, <1>5, <1>8, <1>9, <1>10 DEF Arrived, Waiting, Stage
  <2>9. CASE Select(c)
    <3>1. /\ pc[c] = "read" /\ phase'[c] = phase[c] /\ cta'[c].iter = i
          /\ cta'[c].round = cta[c].round + 1 /\ cta[c].round \in 0 .. 3
      BY <2>9, <1>4, <1>5, SelectMoves DEF PlaceAt
    <3>2. pc'[c] = IF cta[c].round = 3 THEN "collect" ELSE "round"
      BY <2>9, SelectMoves
    <3>3. QED  BY <3>1, <3>2, <1>8, <1>9, <1>10 DEF Arrived, Waiting, Stage
  <2>10. CASE Collect(c)
    <3>1. pc[c] = "collect" /\ pc'[c] = "final" /\ phase'[c] = phase[c] /\ cta'[c] = cta[c]
      BY <2>10 DEF Collect
    <3>2. QED  BY <3>1, <1>5, <1>8, <1>9, <1>10 DEF Arrived, Waiting, Stage
  <2>11. CASE PassFinal(c)
    <3>1. pc[c] = "final" /\ pc'[c] = "ties" /\ phase'[c] = phase[c] + 1 /\ cta'[c].iter = i
      BY <2>11, <1>5 DEF PassFinal
    <3>2. QED  BY <3>1, <1>8, <1>9, <1>10 DEF Arrived, Waiting, Stage
  <2>12. CASE Tie(c)
    <3>1. pc[c] = "ties" /\ pc'[c] = "ties" /\ phase'[c] = phase[c] /\ cta'[c].iter = i
      BY <2>12, <1>5 DEF Tie
    <3>2. QED  BY <3>1, <1>8, <1>9, <1>10 DEF Arrived, Waiting, Stage
  <2>13. CASE NextRow(c)
    <3>1. pc[c] = "ties" /\ pc'[c] = "row" /\ phase'[c] = phase[c] /\ cta'[c].iter = i + 1
      BY <2>13, <1>5 DEF NextRow
    <3>2. i \in LargeRows  BY <3>1, <1>4, <1>5 DEF PlaceAt, AtRow
    <3>3. Cardinality(Before(i + 1)) = n + 1  BY <3>2, <1>6, BeforeFact
    <3>4. Before(cta[c].iter)' = Before(i + 1)  BY <1>2, <3>1 DEF Before
    <3>5. QED  BY <3>1, <3>3, <3>4, <1>8, <1>9 DEF PlanAt, Arrived, Waiting, Stage
  <2>14. CASE Astray(c)
    <3>1. /\ pc[c] = "ties" /\ pc'[c] = "ties" /\ phase'[c] = phase[c] /\ cta'[c].iter = i
          /\ cta'[c].round = cta[c].round
      BY <2>14, <1>5, AstrayMoves, AstrayRegisters
    <3>2. QED  BY <3>1, <1>8, <1>9, <1>10 DEF Arrived, Waiting, Stage
  <2>15. QED
    BY <2>1, <2>2, <2>3, <2>4, <2>5, <2>6, <2>7, <2>8, <2>9, <2>10, <2>11, <2>12, <2>13, <2>14
    DEF Steps, Step, Astray
<1>12. QED  BY <1>3, <1>11 DEF PlanOK

-----------------------------------------------------------------------------
(* How far CTAs may be apart. *)

\* None has passed a barrier to which another has not come, and none has come
\* to two that another has not.
LEMMA Apart ==
  ASSUME TypeOK, BarrierOK, NEW c \in CTAs, NEW d \in CTAs
  PROVE  /\ phase[c] <= Arrived(d) /\ Arrived(d) <= Arrived(c) + 1
         /\ phase[c] \in Nat /\ Arrived(c) \in Nat /\ Arrived(d) \in Nat
<1>1. PICK b \in Nat : Between(b)  BY DEF BarrierOK
<1>2. phase[c] \in Nat /\ Arrived(c) \in Nat /\ Arrived(d) \in Nat  BY DEF TypeOK, Arrived
<1>3. phase[c] <= b /\ Arrived(c) \in {b, b + 1} /\ Arrived(d) \in {b, b + 1}
  BY <1>1 DEF Between
<1>4. QED  BY <1>2, <1>3

\* The plan of a row, as numbers.
LEMMA Planned ==
  ASSUME TypeOK, PlaceOK, PlanOK, NEW c \in CTAs
  PROVE  \E n \in Nat, s \in 0 .. 6 :
           /\ n = Cardinality(Before(cta[c].iter))
           /\ s = Stage(pc[c], cta[c].round)
           /\ Arrived(c) = 6 * n + s /\ 6 * n <= phase[c]
<1>1. PICK i \in Nat \ {0} : i = cta[c].iter  BY DEF TypeOK
<1>2. PICK n \in Nat : n = Cardinality(Before(i))  BY BeforeFact
<1>3. PlaceAt(c) /\ PlanAt(c)  BY DEF PlaceOK, PlanOK
<1>4. pc[c] \in Places  BY DEF TypeOK
<1>5. Stage(pc[c], cta[c].round) \in 0 .. 6  BY <1>3, <1>4 DEF PlaceAt, Stage, Places
<1>6. pc[c] \in Waiting => Stage(pc[c], cta[c].round) >= 1
  BY <1>3 DEF PlaceAt, Stage, Waiting
<1>7. PICK s \in 0 .. 6 : s = Stage(pc[c], cta[c].round)  BY <1>5
<1>8. Arrived(c) = 6 * n + s  BY <1>1, <1>2, <1>3, <1>7 DEF PlanAt
<1>9. phase[c] \in Nat  BY DEF TypeOK
<1>10. 6 * n <= phase[c]  BY <1>6, <1>7, <1>8, <1>9 DEF Arrived
<1>11. QED  BY <1>1, <1>2, <1>7, <1>8, <1>10

\* While the output counter is reset nobody uses it.
LEMMA NobodyCollects ==
  ASSUME TypeOK, PlaceOK, BarrierOK, PlanOK, NEW c \in CTAs, pc[c] = "reset"
  PROVE  \A d \in CTAs : pc[d] \notin Collecting
<1>1. SUFFICES ASSUME NEW d \in CTAs, pc[d] \in Collecting PROVE FALSE  OBVIOUS
<1>2. PICK n \in Nat, s \in 0 .. 6 :
        s = Stage(pc[c], cta[c].round) /\ Arrived(c) = 6 * n + s
  BY Planned
<1>3. PICK m \in Nat, t \in 0 .. 6 :
        t = Stage(pc[d], cta[d].round) /\ Arrived(d) = 6 * m + t
  BY Planned
<1>4. cta[c].round = 0  BY DEF PlaceOK, PlaceAt
<1>5. s = 1 /\ phase[c] = Arrived(c)  BY <1>2, <1>4 DEF Stage, Arrived, Waiting, TypeOK
<1>6. t \in {5, 6}  BY <1>1, <1>3 DEF Stage, Collecting
<1>7. phase[c] <= Arrived(d) /\ Arrived(d) <= Arrived(c) + 1  BY Apart
<1>8. QED  BY <1>2, <1>3, <1>5, <1>6, <1>7

\* When a CTA has searched its row, nobody has left that row.
LEMMA NobodyAhead ==
  ASSUME TypeOK, PlaceOK, BarrierOK, PlanOK, NEW c \in CTAs, NEW d \in CTAs,
         pc[c] = "read", cta[c].round = 3
  PROVE  ~(cta[c].iter < cta[d].iter)
<1>1. SUFFICES ASSUME cta[c].iter < cta[d].iter PROVE FALSE  OBVIOUS
<1>2. PICK n \in Nat, s \in 0 .. 6 :
        /\ n = Cardinality(Before(cta[c].iter))
        /\ s = Stage(pc[c], cta[c].round) /\ Arrived(c) = 6 * n + s
  BY Planned
<1>3. PICK m \in Nat : m = Cardinality(Before(cta[d].iter)) /\ 6 * m <= phase[d]
  BY Planned
<1>4. s = 5  BY <1>2 DEF Stage
<1>5. n + 1 <= m
  <2>1. PICK i, j : i = cta[c].iter /\ j = cta[d].iter  OBVIOUS
  <2>2. i \in LargeRows  BY <2>1 DEF PlaceOK, PlaceAt, AtRow
  <2>3. j \in Nat \ {0}  BY <2>1 DEF TypeOK
  <2>4. QED  BY <1>1, <1>2, <1>3, <2>1, <2>2, <2>3, BeforeGrows
<1>6. phase[d] <= Arrived(c) /\ phase[d] \in Nat  BY Apart
<1>7. QED  BY <1>2, <1>3, <1>4, <1>5, <1>6

-----------------------------------------------------------------------------
(* Output. *)

\* What a step writes: nothing, elements above the pivot, or one tie.
WritesNothing(c) == out' = out /\ (outc' = outc \/ ResetOutput(c))
WritesAbove(c) ==
  /\ pc[c] = "collect" /\ pc'[c] = "final" /\ cta' = cta
  /\ \E n \in Nat : /\ outc' = outc + n
                    /\ \E above \in SUBSET MyChunk(c) : \E at \in Bijection(above, outc .. outc + n - 1) :
                         /\ \A i \in above : Key(Row(c), i) # cta[c].prefix
                         /\ out' = out \cup {[row |-> cta[c].iter, pos |-> at[i], index |-> i] : i \in above}
WritesTie(c) ==
  /\ pc[c] = "ties" /\ pc'[c] = "ties" /\ outc' = outc + 1
  /\ \E i \in cta[c].ties :
       /\ out' \in {out, out \cup {[row |-> cta[c].iter, pos |-> outc, index |-> i]}}
       /\ cta'[c] = [cta[c] EXCEPT !.ties = @ \ {i}]

\* These are all.
LEMMA Writes ==
  ASSUME TypeOK, PlaceOK, NEW c \in CTAs, Steps(c)
  PROVE  WritesNothing(c) \/ WritesAbove(c) \/ WritesTie(c)
<1>1. ASSUME Collect(c) PROVE WritesAbove(c)
  <2> DEFINE above == {i \in MyChunk(c) : Key(Row(c), i) > cta[c].prefix}
             n == Cardinality(above)
  <2>1. pc[c] \in AtRow /\ pc[c] = "collect"  BY <1>1 DEF Collect, AtRow
  <2>2. IsFiniteSet(MyChunk(c))  BY <2>1, AtRowType
  <2>3. above \in SUBSET MyChunk(c)  OBVIOUS
  <2>4. \A i \in above : Key(Row(c), i) # cta[c].prefix
    <3>1. cta[c].prefix \in Nat  BY DEF TypeOK
    <3>2. QED  BY <3>1
  <2>5. /\ outc' = outc + n
        /\ \E at \in Bijection(above, outc .. outc + n - 1) :
             out' = out \cup {[row |-> cta[c].iter, pos |-> at[i], index |-> i] : i \in above}
    BY <1>1 DEF Collect
  <2>6. pc'[c] = "final" /\ cta' = cta  BY <1>1 DEF Collect, Goto, TypeOK
  <2> HIDE DEF above
  <2>7. n \in Nat
    <3>1. IsFiniteSet(above)  BY <2>2, <2>3, FS_Subset
    <3>2. QED  BY <3>1, FS_CardinalityType
  <2> HIDE DEF n
  <2>8. QED  BY <2>1, <2>3, <2>4, <2>5, <2>6, <2>7 DEF WritesAbove
<1>2. ASSUME Tie(c) PROVE WritesTie(c)
  BY <1>2 DEF Tie, WritesTie, TypeOK
<1>3. ASSUME Start(c) \/ ShortRow(c) \/ LeaveLoop(c) \/ LargeRow(c) \/ PassInit(c) \/ ResetOutput(c)
      PROVE  WritesNothing(c)
  BY <1>3 DEF Start, ShortRow, LeaveLoop, LargeRow, PassInit, ResetOutput, WritesNothing, state
<1>4. ASSUME ArriveRound(c) \/ PassRound(c) \/ Select(c) \/ PassFinal(c) \/ NextRow(c)
      PROVE  WritesNothing(c)
  BY <1>4 DEF ArriveRound, PassRound, Select, PassFinal, NextRow, WritesNothing, state
<1>5. ASSUME NEW w \in WaveIds, WaveStep(c, w) PROVE WritesNothing(c)
  BY <1>5 DEF WaveStep, Add, Clear, WritesNothing
<1>6. ASSUME Astray(c) PROVE WritesNothing(c)
  BY <1>6, AstrayMoves DEF WritesNothing
<1>7. QED  BY <1>1, <1>2, <1>3, <1>4, <1>5, <1>6 DEF Steps, Step, Astray

\* What has been written stays served.
LEMMA StillServed ==
  ASSUME TypeOK, PlaceOK, NEW c \in CTAs, Steps(c), NEW e \in out, Served(e)
  PROVE  Served(e)'
<1>1. /\ rows' = rows
      /\ \A d \in CTAs \ {c} : pc'[d] = pc[d] /\ phase'[d] = phase[d] /\ cta'[d] = cta[d]
  BY OthersStay
<1>2. LargeRows' = LargeRows  BY <1>1 DEF LargeRows
<1>3. \A d \in CTAs : OwnedBy(e, d)' <=> OwnedBy(e, d)  BY <1>1 DEF OwnedBy
<1>4. \A d \in CTAs \ {c} : ServedBy(e, d) => ServedBy(e, d)'  BY <1>1, TornStays DEF ServedBy
<1>5. e.row \in Nat \ {0}  BY RowType DEF Served, LargeRows
<1>6. ASSUME ServedBy(e, c) PROVE ServedBy(e, c)'
  <2> USE DEF TypeOK, Goto
  <2>1. PICK i \in Nat : i = cta[c].iter  OBVIOUS
  <2>2. CASE pc[c] \notin {"final", "ties"}
    <3>1. e.row < cta[c].iter  BY <1>6, <2>2 DEF ServedBy
    <3>2. cta'[c].iter \in {i, i + 1}
      <4>1. Select(c) => cta'[c].iter = i  BY <2>1, SelectMoves
      <4>2. Start(c) \/ ShortRow(c) \/ LeaveLoop(c) \/ LargeRow(c) \/ PassInit(c) \/ ResetOutput(c)
              => cta'[c].iter \in {i, i + 1}
        BY <2>1 DEF Start, ShortRow, LeaveLoop, LargeRow, PassInit, ResetOutput
      <4>3. ArriveRound(c) \/ PassRound(c) \/ Collect(c) \/ PassFinal(c) \/ Tie(c) \/ NextRow(c)
              => cta'[c].iter \in {i, i + 1}
        BY <2>1 DEF ArriveRound, PassRound, Collect, PassFinal, Tie, NextRow
      <4>4. \A w \in WaveIds : WaveStep(c, w) => cta'[c].iter = i
        BY <2>1 DEF WaveStep, Add, Clear
      <4>5. Astray(c) => cta'[c].iter = i  BY <2>1, AstrayRegisters
      <4>6. QED  BY <4>1, <4>2, <4>3, <4>4, <4>5 DEF Steps, Step, Astray
    <3>3. e.row < cta'[c].iter  BY <3>1, <3>2, <1>5, <2>1
    <3>4. QED  BY <3>3 DEF ServedBy
  <2>3. CASE PassFinal(c)
    <3>1. /\ cta'[c].iter = cta[c].iter /\ cta'[c].prefix = cta[c].prefix /\ pc[c] = "final"
          /\ pc'[c] = "ties"
      BY <2>3 DEF PassFinal
    <3>2. e.row < cta[c].iter \/ (e.row = cta[c].iter /\ Key(rows[e.row], e.index) # cta[c].prefix)
      BY <1>6, <3>1 DEF ServedBy
    <3>3. QED  BY <1>1, <3>1, <3>2 DEF ServedBy, Key
  <2>4. CASE Tie(c)
    <3>1. /\ cta'[c].iter = cta[c].iter /\ cta'[c].prefix = cta[c].prefix
          /\ cta'[c].ties \subseteq cta[c].ties /\ pc[c] = "ties" /\ pc'[c] = "ties"
      BY <2>4 DEF Tie
    <3>2. torn' = torn  BY <2>4 DEF Tie
    <3>3. QED  BY <1>1, <1>6, <3>1, <3>2 DEF ServedBy, Key
  <2>5. CASE NextRow(c)
    <3>1. cta'[c].iter = i + 1  BY <2>1, <2>5 DEF NextRow
    <3>2. e.row < i \/ e.row = i  BY <1>6, <2>1 DEF ServedBy
    <3>3. e.row < cta'[c].iter  BY <3>1, <3>2, <1>5
    <3>4. QED  BY <3>3 DEF ServedBy
  <2>6. CASE Astray(c)
    <3>1. /\ cta'[c].iter = cta[c].iter /\ pc[c] = "ties" /\ pc'[c] = "ties"
          /\ <<c, cta[c].iter>> \in torn'
      BY <2>6, AstrayMoves, AstrayRegisters
    <3>2. e.row < cta[c].iter \/ e.row = cta[c].iter  BY <1>6 DEF ServedBy
    <3>3. QED  BY <3>1, <3>2 DEF ServedBy
  <2>7. CASE pc[c] \in {"final", "ties"} /\ ~PassFinal(c) /\ ~Tie(c) /\ ~NextRow(c) /\ ~Astray(c)
    BY <2>7 DEF Astray, Steps, Step, WaveStep, Start, ShortRow, LeaveLoop, LargeRow, PassInit, ResetOutput,
       Add, Clear, ArriveRound, PassRound, Select, Collect
  <2>8. QED  BY <2>2, <2>3, <2>4, <2>5, <2>6, <2>7
<1>7. QED  BY <1>2, <1>3, <1>4, <1>6 DEF Served

\* An element that is written is served by the CTA that writes it, and by no
\* other, as chunks are disjoint.
LEMMA NewlyServed ==
  ASSUME TypeOK, PlaceOK, NEW c \in CTAs, Steps(c), NEW e,
         pc[c] \in AtRow, e.row = cta[c].iter, e.index \in MyChunk(c), ServedBy(e, c)'
  PROVE  Served(e)'
<1>1. rows' = rows  BY OthersStay
<1>2. LargeRows' = LargeRows  BY <1>1 DEF LargeRows
<1>3. cta[c].iter \in LargeRows /\ MyChunk(c) = Chunk(c, Len(rows[cta[c].iter]))  BY AtRowType
<1>4. OwnedBy(e, c)'  BY <1>1, <1>3 DEF OwnedBy
<1>5. \A d \in CTAs : OwnedBy(e, d)' => d = c
  <2> TAKE d \in CTAs
  <2> HAVE OwnedBy(e, d)'
  <2>1. e.index \in Chunk(d, Len(rows[cta[c].iter]))  BY <1>1 DEF OwnedBy
  <2>2. QED  BY <2>1, <1>3, ChunksDisjoint
<1>6. QED  BY <1>2, <1>3, <1>4, <1>5 DEF Served

\* So all that is written stays the work of one CTA.
LEMMA ServedNext ==
  ASSUME TypeOK, PlaceOK, ServedOK, NEW c \in CTAs, Steps(c)
  PROVE  ServedOK'
<1>1. \A e \in out : Served(e)'  BY StillServed DEF ServedOK
<1>2. CASE WritesNothing(c)
  BY <1>1, <1>2 DEF WritesNothing, ServedOK
<1>3. CASE WritesAbove(c)
  <2>1. PICK n \in Nat, above \in SUBSET MyChunk(c) : \E at \in Bijection(above, outc .. outc + n - 1) :
          /\ \A i \in above : Key(Row(c), i) # cta[c].prefix
          /\ out' = out \cup {[row |-> cta[c].iter, pos |-> at[i], index |-> i] : i \in above}
    BY <1>3 DEF WritesAbove
  <2>2. PICK at \in Bijection(above, outc .. outc + n - 1) :
          /\ \A i \in above : Key(Row(c), i) # cta[c].prefix
          /\ out' = out \cup {[row |-> cta[c].iter, pos |-> at[i], index |-> i] : i \in above}
    BY <2>1
  <2>3. pc[c] = "collect" /\ pc'[c] = "final" /\ cta' = cta  BY <1>3 DEF WritesAbove
  <2>4. pc[c] \in AtRow  BY <2>3 DEF AtRow
  <2>5. \A e \in out' : Served(e)'
    <3> TAKE e \in out'
    <3>1. CASE e \in out  BY <1>1, <3>1
    <3>2. CASE e \notin out
      <4>1. PICK i \in above : e = [row |-> cta[c].iter, pos |-> at[i], index |-> i]
        BY <2>2, <3>2
      <4>2. e.row = cta[c].iter /\ e.index = i /\ e.index \in MyChunk(c)  BY <4>1
      <4>3. Key(rows[e.row], e.index) # cta[c].prefix  BY <2>2, <4>1, <4>2 DEF Row
      <4>4. rows' = rows  BY OthersStay
      <4>5. ServedBy(e, c)'  BY <2>3, <4>2, <4>3, <4>4 DEF ServedBy, Key
      <4>6. QED  BY <2>4, <4>2, <4>5, NewlyServed
    <3>3. QED  BY <3>1, <3>2
  <2>6. QED  BY <2>5 DEF ServedOK
<1>4. CASE WritesTie(c)
  <2>1. PICK i \in cta[c].ties :
          /\ out' \in {out, out \cup {[row |-> cta[c].iter, pos |-> outc, index |-> i]}}
          /\ cta'[c] = [cta[c] EXCEPT !.ties = @ \ {i}]
    BY <1>4 DEF WritesTie
  <2>2. pc[c] = "ties" /\ pc'[c] = "ties" /\ pc[c] \in AtRow  BY <1>4 DEF WritesTie, AtRow
  <2>3. i \in MyChunk(c)  BY <2>1, <2>2 DEF PlaceOK, PlaceAt
  <2>4. \A e \in out' : Served(e)'
    <3> TAKE e \in out'
    <3>1. CASE e \in out  BY <1>1, <3>1
    <3>2. CASE e \notin out
      <4>1. e = [row |-> cta[c].iter, pos |-> outc, index |-> i]  BY <2>1, <3>2
      <4>2. e.row = cta[c].iter /\ e.index = i  BY <4>1
      <4>3. cta'[c].iter = cta[c].iter /\ e.index \notin cta'[c].ties
        BY <2>1, <4>2 DEF TypeOK
      <4>4. ServedBy(e, c)'  BY <2>2, <4>2, <4>3 DEF ServedBy
      <4>5. QED  BY <2>2, <2>3, <4>2, <4>4, NewlyServed
    <3>3. QED  BY <3>1, <3>2
  <2>5. QED  BY <2>4 DEF ServedOK
<1>5. QED  BY <1>2, <1>3, <1>4, Writes

\* The counter is reset when nobody collects, and found past every position of
\* a row by those who come to collect it late.
LEMMA ReservedNext ==
  ASSUME TypeOK, PlaceOK, BarrierOK, PlanOK, ServedOK, ReservedOK, NEW c \in CTAs, Steps(c)
  PROVE  ReservedOK'
<1>1. \A d \in CTAs \ {c} : pc'[d] = pc[d] /\ cta'[d] = cta[d]  BY OthersStay
<1>2. outc \in Nat /\ \A e \in out : e.pos \in Nat  BY DEF TypeOK
<1>3. CASE WritesAbove(c)
  <2>1. pc[c] = "collect" /\ cta' = cta  BY <1>3 DEF WritesAbove
  <2>2. PICK n \in Nat : 
          /\ outc' = outc + n
          /\ \E above \in SUBSET MyChunk(c) : \E at \in Bijection(above, outc .. outc + n - 1) :
               out' = out \cup {[row |-> cta[c].iter, pos |-> at[i], index |-> i] : i \in above}
    BY <1>3 DEF WritesAbove
  <2>3. PICK above \in SUBSET MyChunk(c) : \E at \in Bijection(above, outc .. outc + n - 1) :
               out' = out \cup {[row |-> cta[c].iter, pos |-> at[i], index |-> i] : i \in above}
    BY <2>2
  <2>4. PICK at \in Bijection(above, outc .. outc + n - 1) :
               out' = out \cup {[row |-> cta[c].iter, pos |-> at[i], index |-> i] : i \in above}
    BY <2>3
  <2>5. \A i \in above : at[i] \in outc .. outc + n - 1  BY <2>4 DEF Bijection, Injection
  <2>6. ASSUME NEW e \in out', NEW d \in CTAs, pc'[d] \in Collecting, e.row = cta'[d].iter
        PROVE  e.pos < outc'
    <3>1. CASE e \in out
      <4>1. pc[d] \in Collecting  BY <1>1, <2>1, <2>6 DEF Collecting
      <4>2. e.pos < outc  BY <2>1, <2>6, <3>1, <4>1 DEF ReservedOK
      <4>3. QED  BY <1>2, <2>2, <3>1, <4>2
    <3>2. CASE e \notin out
      <4>1. PICK i \in above : e = [row |-> cta[c].iter, pos |-> at[i], index |-> i]
        BY <2>4, <2>6, <3>2
      <4>2. e.pos \in outc .. outc + n - 1  BY <2>5, <4>1
      <4>3. QED  BY <4>2, <2>2, <1>2
    <3>3. QED  BY <3>1, <3>2
  <2>7. QED  BY <2>6 DEF ReservedOK
<1>4. CASE WritesTie(c)
  <2>1. PICK i \in cta[c].ties :
          /\ out' \in {out, out \cup {[row |-> cta[c].iter, pos |-> outc, index |-> i]}}
          /\ cta'[c] = [cta[c] EXCEPT !.ties = @ \ {i}]
    BY <1>4 DEF WritesTie
  <2>2. pc[c] = "ties" /\ outc' = outc + 1  BY <1>4 DEF WritesTie
  <2>3. \A d \in CTAs : cta'[d].iter = cta[d].iter  BY <1>1, <2>1 DEF TypeOK
  <2>4. \A d \in CTAs : pc'[d] \in Collecting => pc[d] \in Collecting
    BY <1>1, <2>2 DEF Collecting
  <2>5. ASSUME NEW e \in out', NEW d \in CTAs, pc'[d] \in Collecting, e.row = cta'[d].iter
        PROVE  e.pos < outc'
    <3>1. CASE e \in out
      <4>1. e.pos < outc  BY <2>3, <2>4, <2>5, <3>1 DEF ReservedOK
      <4>2. QED  BY <1>2, <2>2, <3>1, <4>1
    <3>2. CASE e \notin out
      <4>1. e = [row |-> cta[c].iter, pos |-> outc, index |-> i]  BY <2>1, <2>5, <3>2
      <4>2. e.pos = outc  BY <4>1
      <4>3. QED  BY <4>2, <2>2, <1>2
    <3>3. QED  BY <3>1, <3>2
  <2>6. QED  BY <2>5 DEF ReservedOK
<1>5. CASE WritesNothing(c) /\ ResetOutput(c)
  <2>1. pc[c] = "reset" /\ pc'[c] = "round"  BY <1>5 DEF ResetOutput, Goto, TypeOK
  <2>2. \A d \in CTAs : pc[d] \notin Collecting  BY <2>1, NobodyCollects
  <2>3. \A d \in CTAs : pc'[d] \notin Collecting  BY <1>1, <2>1, <2>2 DEF Collecting
  <2>4. QED  BY <2>3 DEF ReservedOK
<1>6. CASE WritesNothing(c) /\ Select(c)
  <2>1. /\ pc[c] = "read" /\ cta'[c].iter = cta[c].iter
        /\ pc'[c] = IF cta[c].round = 3 THEN "collect" ELSE "round"
    BY <1>6, SelectMoves
  <2>2. outc' = outc /\ out' = out  BY <1>6 DEF Select, state, WritesNothing
  <2>3. ASSUME NEW e \in out, NEW d \in CTAs, pc'[d] \in Collecting, e.row = cta'[d].iter
        PROVE  e.pos < outc
    <3>1. CASE d # c  BY <1>1, <2>3, <3>1 DEF ReservedOK
    <3>2. CASE d = c
      <4>1. cta[c].round = 3 /\ e.row = cta[c].iter  BY <2>1, <2>3, <3>2 DEF Collecting
      <4>2. PICK o \in CTAs : ServedBy(e, o)  BY DEF ServedOK, Served
      <4>3. CASE e.row < cta[o].iter
        <5>1. cta[c].iter < cta[o].iter  BY <4>1, <4>3
        <5>2. QED  BY <2>1, <4>1, <5>1, NobodyAhead
      <4>4. CASE e.row = cta[o].iter /\ pc[o] \in {"final", "ties"}
        BY <4>4 DEF ReservedOK, Collecting
      <4>5. QED  BY <4>2, <4>3, <4>4 DEF ServedBy
    <3>3. QED  BY <3>1, <3>2
  <2>4. QED  BY <2>2, <2>3 DEF ReservedOK
<1>7. CASE WritesNothing(c) /\ ~ResetOutput(c) /\ ~Select(c)
  <2>1. out' = out /\ outc' = outc  BY <1>7 DEF WritesNothing
  <2>2. pc'[c] \in Collecting => pc[c] \in Collecting /\ cta'[c].iter = cta[c].iter
    <3> USE DEF TypeOK, Goto, Collecting
    <3>1. Start(c) \/ ShortRow(c) \/ LeaveLoop(c) \/ LargeRow(c) \/ PassInit(c) \/ NextRow(c)
            => pc'[c] \notin Collecting
      BY DEF Start, ShortRow, LeaveLoop, LargeRow, PassInit, NextRow
    <3>2. ArriveRound(c) \/ PassRound(c) => pc'[c] \notin Collecting
      BY DEF ArriveRound, PassRound
    <3>3. Collect(c) \/ PassFinal(c) \/ Tie(c) => pc[c] \in Collecting /\ cta'[c].iter = cta[c].iter
      BY DEF Collect, PassFinal, Tie
    <3>4. \A w \in WaveIds : WaveStep(c, w) => pc'[c] = pc[c] /\ cta'[c].iter = cta[c].iter
      BY DEF WaveStep, Add, Clear
    <3>5. Astray(c) => pc'[c] = pc[c] /\ cta'[c].iter = cta[c].iter
      BY AstrayMoves, AstrayRegisters
    <3>6. QED  BY <1>7, <3>1, <3>2, <3>3, <3>4, <3>5 DEF Steps, Step, Astray
  <2>3. QED  BY <1>1, <2>1, <2>2 DEF ReservedOK
<1>8. QED  BY <1>3, <1>4, <1>5, <1>6, <1>7, Writes

\* No two writes to one position, and none of one index.
LEMMA DistinctNext ==
  ASSUME TypeOK, PlaceOK, ServedOK, ReservedOK, PositionsDistinct, NEW c \in CTAs, Steps(c)
  PROVE  PositionsDistinct'
<1>1. ASSUME NEW e \in out, pc[c] = "collect", e.row = cta[c].iter, e.index \in MyChunk(c)
      PROVE  FALSE
  <2>1. pc[c] \in AtRow  BY <1>1 DEF AtRow
  <2>2. OwnedBy(e, c)  BY <1>1, <2>1, AtRowType DEF OwnedBy
  <2>3. ServedBy(e, c)  BY <2>2 DEF ServedOK, Served
  <2>4. cta[c].iter \in Nat  BY DEF TypeOK
  <2>5. QED  BY <1>1, <2>3, <2>4 DEF ServedBy
<1>2. ASSUME NEW e \in out, pc[c] = "ties", e.row = cta[c].iter, e.index \in cta[c].ties,
             <<c, e.row>> \notin torn
      PROVE  FALSE
  <2>1. pc[c] \in AtRow  BY <1>2 DEF AtRow
  <2>2. e.index \in MyChunk(c) /\ Key(Row(c), e.index) = cta[c].prefix
    BY <1>2 DEF PlaceOK, PlaceAt
  <2>3. OwnedBy(e, c)  BY <1>2, <2>1, <2>2, AtRowType DEF OwnedBy
  <2>4. ServedBy(e, c)  BY <2>3 DEF ServedOK, Served
  <2>5. cta[c].iter \in Nat  BY DEF TypeOK
  <2>6. QED  BY <1>2, <2>2, <2>4, <2>5 DEF ServedBy, Row
<1>3. ASSUME NEW e \in out, pc[c] \in Collecting, e.row = cta[c].iter PROVE e.pos < outc /\ e.pos \in Nat
  BY <1>3 DEF ReservedOK, TypeOK
<1>4. outc \in Nat  BY DEF TypeOK
<1>9. \A i : Overtaken(i) => Overtaken(i)'  BY TornStays DEF Overtaken
<1>5. CASE WritesNothing(c)
  BY <1>5, <1>9 DEF WritesNothing, PositionsDistinct
<1>6. CASE WritesAbove(c)
  <2>1. pc[c] = "collect" /\ pc[c] \in Collecting  BY <1>6 DEF WritesAbove, Collecting
  <2>2. PICK n \in Nat, above \in SUBSET MyChunk(c) : \E at \in Bijection(above, outc .. outc + n - 1) :
          out' = out \cup {[row |-> cta[c].iter, pos |-> at[i], index |-> i] : i \in above}
    BY <1>6 DEF WritesAbove
  <2>3. PICK at \in Bijection(above, outc .. outc + n - 1) :
          out' = out \cup {[row |-> cta[c].iter, pos |-> at[i], index |-> i] : i \in above}
    BY <2>2
  <2>4. \A i \in above : at[i] \in outc .. outc + n - 1  BY <2>3 DEF Bijection, Injection
  <2>5. \A i, j \in above : at[i] = at[j] => i = j  BY <2>3 DEF Bijection, Injection, IsInjective
  <2>6. \A e \in out' : e \notin out =>
          \E i \in above : e = [row |-> cta[c].iter, pos |-> at[i], index |-> i]
    BY <2>3
  <2>7. ASSUME NEW e \in out, NEW f \in out', f \notin out, e.row = f.row
        PROVE  e.pos # f.pos /\ e.index # f.index
    <3>1. PICK i \in above : f = [row |-> cta[c].iter, pos |-> at[i], index |-> i]  BY <2>6, <2>7
    <3>2. e.row = cta[c].iter /\ f.pos \in outc .. outc + n - 1 /\ f.index \in MyChunk(c)
      BY <2>4, <2>7, <3>1
    <3>3. e.pos < outc /\ e.pos \in Nat  BY <1>3, <2>1, <3>2
    <3>4. QED  BY <1>1, <1>4, <2>1, <3>2, <3>3
  <2>8. ASSUME NEW e \in out', NEW f \in out', e \notin out, f \notin out,
               e.pos = f.pos \/ e.index = f.index
        PROVE  e = f
    <3>1. PICK i \in above : e = [row |-> cta[c].iter, pos |-> at[i], index |-> i]  BY <2>6, <2>8
    <3>2. PICK j \in above : f = [row |-> cta[c].iter, pos |-> at[j], index |-> j]  BY <2>6, <2>8
    <3>3. i = j  BY <2>5, <2>8, <3>1, <3>2
    <3>4. QED  BY <3>1, <3>2, <3>3
  <2>9. QED  BY <1>9, <2>7, <2>8 DEF PositionsDistinct
<1>7. CASE WritesTie(c)
  <2>1. pc[c] = "ties" /\ pc[c] \in Collecting  BY <1>7 DEF WritesTie, Collecting
  <2>2. PICK i \in cta[c].ties :
          out' \in {out, out \cup {[row |-> cta[c].iter, pos |-> outc, index |-> i]}}
    BY <1>7 DEF WritesTie
  <2>3. \A e \in out' : e \notin out => e = [row |-> cta[c].iter, pos |-> outc, index |-> i]
    BY <2>2
  <2>4. ASSUME NEW e \in out, NEW f \in out', f \notin out, e.row = f.row
        PROVE  e.pos # f.pos /\ (e.index # f.index \/ Overtaken(e.row)')
    <3>1. f = [row |-> cta[c].iter, pos |-> outc, index |-> i]  BY <2>3, <2>4
    <3>2. f.pos = outc /\ f.index = i /\ e.row = cta[c].iter  BY <2>4, <3>1
    <3>3. e.pos < outc /\ e.pos \in Nat  BY <1>3, <2>1, <3>2
    <3>4. CASE <<c, e.row>> \in torn
      <4>1. Overtaken(e.row)  BY <3>4 DEF Overtaken
      <4>2. QED  BY <1>4, <1>9, <3>2, <3>3, <4>1
    <3>5. CASE <<c, e.row>> \notin torn  BY <1>2, <1>4, <2>1, <3>2, <3>3, <3>5
    <3>6. QED  BY <3>4, <3>5
  <2>5. QED  BY <1>9, <2>3, <2>4 DEF PositionsDistinct
<1>8. QED  BY <1>5, <1>6, <1>7, Writes

-----------------------------------------------------------------------------
(* Theorems. *)

\* The launch begins with every part of the invariant.
LEMMA InitInv ==
  ASSUME Init
  PROVE  IInv
<1> USE DEF Init
<1>1. TypeOK
  <2>1. rows \in Batches /\ slots \in Slots /\ maxLen \in {Threshold, Stride}  OBVIOUS
  <2>2. hist \in [0 .. 2 -> [Buckets -> Nat]] /\ pc \in [CTAs -> Places] /\ phase \in [CTAs -> Nat]
    BY DEF Places
  <2>3. K \in 1 .. K /\ 0 \in 0 .. Rounds  BY KernelAssumption DEF Rounds
  <2>4. cta \in [CTAs -> Registers]  BY <2>3 DEF Registers
  <2>5. QED  BY <2>1, <2>2, <2>4 DEF TypeOK, Registers
<1>2. \A c \in CTAs : pc[c] \in {"start", "fallback"} /\ phase[c] = 0 /\ cta[c].iter = 1
  OBVIOUS
<1>3. \A c \in CTAs : Arrived(c) = 0  BY <1>2 DEF Arrived, Waiting
<1>4. PlaceOK /\ TornOK  BY <1>2 DEF PlaceOK, PlaceAt, AtRow, Collecting, TornOK, TornAt
<1>5. BarrierOK
  <2>1. At(0 + 1) = {}  BY <1>3 DEF At
  <2>2. Cardinality({}) = 0  BY FS_EmptySet
  <2>3. CTAs # {}
    <3>1. 0 \in 0 .. CtasPerGroup - 1  BY Layout
    <3>2. QED  BY <3>1 DEF CTAs
  <2>4. Between(0)  BY <1>2, <1>3 DEF Between
  <2>5. CtasPerGroup * 0 + 0 = 0  BY Layout
  <2>6. arrival = CtasPerGroup * 0 + Cardinality(At(0 + 1))  BY <2>1, <2>2, <2>5
  <2>7. At(0 + 1) # CTAs  BY <2>1, <2>3
  <2>8. QED  BY <2>4, <2>6, <2>7 DEF BarrierOK
<1>6. PlanOK
  <2>1. LargeRows \subseteq Nat \ {0}  BY <1>1, RowType DEF LargeRows
  <2>2. \A j \in LargeRows : ~(j < 1)  BY <2>1
  <2>3. Before(1) = {}  BY <2>2 DEF Before
  <2>4. Cardinality(Before(1)) = 0  BY <2>3, FS_EmptySet
  <2>5. \A c \in CTAs : Cardinality(Before(cta[c].iter)) = 0  BY <1>2, <2>4
  <2>6. \A c \in CTAs : Stage(pc[c], cta[c].round) = 0  BY <1>2 DEF Stage
  <2>7. QED  BY <1>3, <2>5, <2>6 DEF PlanOK, PlanAt
<1>7. ServedOK /\ ReservedOK /\ PositionsDistinct  BY DEF ServedOK, ReservedOK, PositionsDistinct
<1>8. QED  BY <1>1, <1>4, <1>5, <1>6, <1>7 DEF IInv

\* Every step keeps every part, by the lemma of that part.
LEMMA NextInv ==
  ASSUME IInv, [Next]_vars
  PROVE  IInv'
<1>1. /\ TypeOK /\ PlaceOK /\ TornOK /\ BarrierOK /\ PlanOK
      /\ ServedOK /\ ReservedOK /\ PositionsDistinct
  BY DEF IInv
<1>2. TypeOK'  BY <1>1, TypeNext
<1>3. ASSUME NEW c \in CTAs, Steps(c) PROVE IInv'
  <2>1. PlaceOK'  BY <1>1, <1>3, PlaceNext
  <2>2. BarrierOK'  BY <1>1, <1>3, BarrierNext
  <2>3. PlanOK'  BY <1>1, <1>3, PlanNext
  <2>4. ServedOK'  BY <1>1, <1>3, ServedNext
  <2>5. ReservedOK'  BY <1>1, <1>3, ReservedNext
  <2>6. PositionsDistinct'  BY <1>1, <1>3, DistinctNext
  <2>7. TornOK'  BY <1>1, <1>3, TornNext
  <2>8. QED  BY <1>2, <2>1, <2>2, <2>3, <2>4, <2>5, <2>6, <2>7 DEF IInv
<1>4. CASE UNCHANGED vars
  <2>1. /\ rows' = rows /\ arrival' = arrival /\ outc' = outc /\ out' = out
        /\ pc' = pc /\ phase' = phase /\ cta' = cta /\ torn' = torn
    BY <1>4 DEF vars
  <2>2. LargeRows' = LargeRows  BY <2>1 DEF LargeRows
  <2>3. \A c \in CTAs : Arrived(c)' = Arrived(c)  BY <2>1 DEF Arrived
  <2>4. PlaceOK' /\ TornOK'  BY <1>1, <2>1, <2>2 DEF PlaceOK, PlaceAt, MyChunk, Row, TornOK, TornAt
  <2>5. BarrierOK'
    <3>1. PICK b \in Nat : /\ Between(b)
                           /\ At(b + 1) # CTAs
                           /\ arrival = CtasPerGroup * b + Cardinality(At(b + 1))
      BY <1>1 DEF BarrierOK
    <3>2. Between(b)'  BY <2>1, <2>3, <3>1 DEF Between
    <3>3. At(b + 1)' = At(b + 1)  BY <2>3 DEF At
    <3>4. QED  BY <2>1, <3>1, <3>2, <3>3 DEF BarrierOK
  <2>6. PlanOK'
    <3>1. \A c \in CTAs : Before(cta[c].iter)' = Before(cta[c].iter)  BY <2>1, <2>2 DEF Before
    <3>2. QED  BY <1>1, <2>1, <2>3, <3>1 DEF PlanOK, PlanAt
  <2>7. ServedOK'  BY <1>1, <2>1, <2>2 DEF ServedOK, Served, OwnedBy, ServedBy
  <2>8. ReservedOK'  BY <1>1, <2>1 DEF ReservedOK
  <2>9. PositionsDistinct'  BY <1>1, <2>1 DEF PositionsDistinct, Overtaken
  <2>10. QED  BY <1>2, <2>4, <2>5, <2>6, <2>7, <2>8, <2>9 DEF IInv
<1>5. Next => \E c \in CTAs : Steps(c)  BY DEF Next, Steps
<1>6. QED  BY <1>3, <1>4, <1>5

\* The conjunction of the parts holds in every state of every launch.
THEOREM Invariance == Spec => []IInv
<1>1. Init => IInv  BY InitInv
<1>2. IInv /\ [Next]_vars => IInv'  BY NextInv
<1>3. QED  BY <1>1, <1>2, PTL DEF Spec

\* Every state is well typed: what remains to be found is never zero or more
\* than K, whatever the histograms hold.
THEOREM TypeCorrect == Spec => []TypeOK
<1>1. IInv => TypeOK  BY DEF IInv
<1>2. QED  BY <1>1, Invariance, PTL

\* No CTA gets past a barrier to which another has not come, for any number of
\* CTAs and any mixture of rows.
THEOREM InLockstep == Spec => []Lockstep
<1>1. IInv => Lockstep
  <2> SUFFICES ASSUME IInv PROVE Lockstep  OBVIOUS
  <2>1. TypeOK /\ BarrierOK  BY DEF IInv
  <2>2. QED  BY <2>1, Apart DEF Lockstep
<1>2. QED  BY <1>1, Invariance, PTL

\* CTAs that have come to the same barriers look at the same digit of the same
\* row, however many rows CTA 0 has served alone.
THEOREM RoundsAgree == Spec => []SameRound
<1>1. IInv => SameRound
  <2> SUFFICES ASSUME IInv, NEW c \in CTAs, NEW d \in CTAs, Arrived(c) = Arrived(d),
                      {pc[c], pc[d]} \subseteq {"wait", "read"}
               PROVE  cta[c].iter = cta[d].iter /\ cta[c].round = cta[d].round
    BY DEF SameRound
  <2>1. TypeOK /\ PlaceOK /\ PlanOK  BY DEF IInv
  <2>2. PICK n \in Nat, s \in 0 .. 6 :
          /\ n = Cardinality(Before(cta[c].iter))
          /\ s = Stage(pc[c], cta[c].round) /\ Arrived(c) = 6 * n + s
    BY <2>1, Planned
  <2>3. PICK m \in Nat, t \in 0 .. 6 :
          /\ m = Cardinality(Before(cta[d].iter))
          /\ t = Stage(pc[d], cta[d].round) /\ Arrived(d) = 6 * m + t
    BY <2>1, Planned
  <2>4. cta[c].round \in 0 .. 3 /\ cta[d].round \in 0 .. 3  BY <2>1 DEF PlaceOK, PlaceAt
  <2>5. s = 2 + cta[c].round /\ t = 2 + cta[d].round  BY <2>2, <2>3 DEF Stage
  <2>6. s \in 0 .. 5 /\ t \in 0 .. 5  BY <2>4, <2>5
  <2>7. n = m /\ s = t
    <3>1. 6 * n + s = 6 * m + t  BY <2>2, <2>3
    <3>2. QED  BY <2>6, <3>1, Unique
  <2>8. PICK i, j : i = cta[c].iter /\ j = cta[d].iter  OBVIOUS
  <2>9. i \in LargeRows /\ j \in LargeRows  BY <2>1, <2>8 DEF PlaceOK, PlaceAt, AtRow
  <2>10. i \in Nat \ {0} /\ j \in Nat \ {0}  BY <2>1, <2>8 DEF TypeOK
  <2>11. ~(i < j) /\ ~(j < i)
    <3>1. ~(i < j)
      <4>1. i < j => n + 1 <= m  BY <2>1, <2>2, <2>3, <2>8, <2>9, <2>10, BeforeGrows
      <4>2. QED  BY <4>1, <2>7
    <3>2. ~(j < i)
      <4>1. j < i => m + 1 <= n  BY <2>1, <2>2, <2>3, <2>8, <2>9, <2>10, BeforeGrows
      <4>2. QED  BY <4>1, <2>7
    <3>3. QED  BY <3>1, <3>2
  <2>12. i = j  BY <2>10, <2>11
  <2>13. QED  BY <2>4, <2>5, <2>7, <2>8, <2>12
<1>2. QED  BY <1>1, Invariance, PTL

\* No position of a row is written twice, and no index of it twice unless waves
\* of it are overtaken, even where histograms are wrong and whenever thread 0
\* runs ahead.
THEOREM OutputDistinct == Spec => []PositionsDistinct
<1>1. IInv => PositionsDistinct  BY DEF IInv
<1>2. QED  BY <1>1, Invariance, PTL

\* The chunks of the CTAs partition a row of any length up to the stride.
THEOREM ChunksPartition ==
  ASSUME NEW len \in 0 .. Stride, NEW i \in Nat, i < len
  PROVE  \E c \in CTAs : i \in Chunk(c, len) /\ \A d \in CTAs : i \in Chunk(d, len) => d = c
<1>1. PICK c \in CTAs : i \in Chunk(c, len)  BY ChunksCover
<1>2. \A d \in CTAs : i \in Chunk(d, len) => d = c  BY <1>1, ChunksDisjoint
<1>3. QED  BY <1>1, <1>2
=============================================================================
