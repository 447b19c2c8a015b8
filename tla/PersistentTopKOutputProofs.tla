--------------------- MODULE PersistentTopKOutputProofs ---------------------
(***************************************************************************)
(* Theorems about the output of PersistentTopK and its end: no write leaves *)
(* its row, a row that every CTA has left holds its top k, and CTAs never  *)
(* all wait.                                                               *)
(***************************************************************************)
EXTENDS PersistentTopKSearchProofs


-----------------------------------------------------------------------------
(* Elements that have had their turn.                                      *)

\* CTA d is done with element x of row i, given the pivot p.
Took(d, i, p, x) ==
  \/ cta[d].iter > i /\ Key(rows[i], x) >= p
  \/ /\ cta[d].iter = i /\ pc[d] \in {"final", "ties"}
     /\ \/ Key(rows[i], x) > p
        \/ pc[d] = "ties" /\ Key(rows[i], x) = p /\ x \notin cta[d].ties
\* The elements of row i that their CTAs are done with.
Seen(i, p) ==
  {x \in Indices(rows[i]) : \E d \in CTAs : x \in Chunk(d, Len(rows[i])) /\ Took(d, i, p, x)}

\* The output counter counts them; the first of their positions, as far as
\* there are K, hold elements that are not below the pivot and among them all
\* that are above it.  In a row in which waves are overtaken this is lost.
SeenAt(i, p) ==
  /\ outc = Cardinality(Seen(i, p))
  /\ {e.pos : e \in Written(i)} = {q \in 0 .. K - 1 : q < outc}
  /\ \A e \in Written(i) : Key(rows[i], e.index) >= p
  /\ \A x \in Seen(i, p) : Key(rows[i], x) > p => \E e \in Written(i) : e.index = x
SeenOK ==
  \A c \in CTAs :
    pc[c] \in Collecting /\ ~Overtaken(cta[c].iter) => SeenAt(cta[c].iter, cta[c].prefix)

\* Steps without a part in the output.
Idle(c) ==
  /\ outc' = outc /\ out' = out /\ cta'[c].iter = cta[c].iter
  /\ pc[c] \notin {"final", "ties"} /\ pc'[c] \notin {"final", "ties"}

\* What a step does to the output, and that other steps leave it alone.
LEMMA Turns ==
  ASSUME TypeOK, NEW c \in CTAs, Steps(c)
  PROVE  \/ ResetOutput(c) \/ Collect(c) \/ PassFinal(c) \/ Tie(c) \/ NextRow(c) \/ ShortRow(c)
         \/ Astray(c) \/ Idle(c)
<1> USE DEF TypeOK, input, state, Goto
<1>1. ASSUME Start(c) \/ LeaveLoop(c) \/ LargeRow(c) \/ PassInit(c) \/ ArriveRound(c) \/ PassRound(c)
      PROVE  Idle(c)
  BY <1>1 DEF Start, LeaveLoop, LargeRow, PassInit, ArriveRound, PassRound, Idle
<1>2. ASSUME Select(c) PROVE Idle(c)
  <2>1. pc[c] = "read" /\ cta'[c].iter = cta[c].iter /\ pc'[c] \in {"collect", "round"}
    BY <1>2, SelectMoves
  <2>2. outc' = outc /\ out' = out  BY <1>2 DEF Select
  <2>3. QED  BY <2>1, <2>2 DEF Idle
<1>3. ASSUME NEW w \in WaveIds, WaveStep(c, w) PROVE Idle(c)
  BY <1>3 DEF WaveStep, Add, Clear, Idle
<1>4. QED  BY <1>1, <1>2, <1>3 DEF Steps, Step, Astray

\* What CTAs that collect in a row have in common.
LEMMA Together ==
  ASSUME IInv, AgreeOK, NEW a \in CTAs, NEW d \in CTAs, pc[a] \in Collecting
  PROVE  \/ /\ cta[d].iter = cta[a].iter /\ pc[d] \in {"wait", "read"} \cup Collecting
            /\ pc[d] \in Collecting => cta[d].prefix = cta[a].prefix
         \/ cta[d].iter > cta[a].iter /\ pc[d] \notin AtRow \ {"init"}
<1>1. TypeOK /\ PlaceOK  BY DEF IInv
<1>2. FellowOf(a, d)  BY Fellows
<1>3. pc[d] \in Collecting => cta[d].round = 4 /\ cta[a].round = 4  BY <1>1 DEF PlaceOK, PlaceAt
<1>4. AgreeOn(a, d)  BY DEF AgreeOK
<1>5. QED  BY <1>2, <1>3, <1>4 DEF FellowOf, AgreeOn, Collecting, AtRow

\* Turns are taken when elements are collected or a tie is written.
LEMMA TookStays ==
  ASSUME IInv, AgreeOK, NEW c \in CTAs, Steps(c), ~Collect(c), ~Tie(c), ~Astray(c),
         NEW i \in LargeRows, NEW p \in Nat,
         Idle(c) \/ \E a \in CTAs : pc[a] \in Collecting /\ cta[a].iter = i /\ cta[a].prefix = p,
         NEW d \in CTAs, NEW x \in Chunk(d, Len(rows[i]))
  PROVE  Took(d, i, p, x)' <=> Took(d, i, p, x)
<1>1. TypeOK /\ PlaceOK  BY DEF IInv
<1>2. rows' = rows /\ \A e \in CTAs \ {c} : pc'[e] = pc[e] /\ cta'[e] = cta[e]  BY <1>1, Frame
<1>3. CASE d # c  BY <1>2, <1>3 DEF Took
<1>4. CASE d = c
  <2>1. CASE Idle(c)  BY <1>2, <1>4, <2>1 DEF Took, Idle
  <2>2. CASE ~Idle(c)
    <3>1. PICK a \in CTAs : pc[a] \in Collecting /\ cta[a].iter = i /\ cta[a].prefix = p  BY <2>2
    <3>2. \/ /\ cta[c].iter = i /\ pc[c] \in {"wait", "read"} \cup Collecting
             /\ pc[c] \in Collecting => cta[c].prefix = p
          \/ cta[c].iter > i /\ pc[c] \notin AtRow \ {"init"}
      BY <3>1, Together
    <3>3. PICK j \in Nat : j = cta[c].iter  BY <1>1 DEF TypeOK
    <3>4. i \in Nat /\ rows[i] \in Seq(Keys) /\ Len(rows[i]) \in Nat
      BY <1>1, RowType DEF LargeRows
    <3>5. Key(rows[i], x) \in Nat
      <4>1. x \in Nat /\ x < Len(rows[i])  BY <3>4, ChunkFinite
      <4>2. x \in Indices(rows[i])  BY <3>4, <4>1 DEF Indices
      <4>3. QED  BY <3>4, <4>2, HowManyFact
    <3>6. PICK k \in Nat : k = Key(rows[i], x) /\ k = Key(rows'[i], x)  BY <1>2, <3>5
    <3>7. CASE PassFinal(c)
      <4>1. /\ pc[c] = "final" /\ pc'[c] = "ties" /\ cta'[c].iter = cta[c].iter
            /\ cta'[c].ties = {y \in MyChunk(c) : Key(Row(c), y) = cta[c].prefix}
        BY <1>1, <3>7 DEF PassFinal, Goto, TypeOK
      <4>2. j = i /\ cta[c].prefix = p  BY <3>2, <3>3, <4>1 DEF AtRow, Collecting
      <4>3. k = p => x \in cta'[c].ties
        <5>1. MyChunk(c) = Chunk(c, Len(rows[i])) /\ Row(c) = rows[i]
          BY <1>1, <3>3, <4>1, <4>2, AtRowType DEF AtRow
        <5>2. QED  BY <1>4, <3>6, <4>1, <4>2, <5>1
      <4>4. Took(c, i, p, x) <=> k > p  BY <3>3, <3>6, <4>1, <4>2 DEF Took
      <4>5. Took(c, i, p, x)' <=> k > p  BY <3>3, <3>6, <4>1, <4>2, <4>3 DEF Took
      <4>6. QED  BY <1>4, <4>4, <4>5
    <3>8. CASE NextRow(c)
      <4>1. pc[c] = "ties" /\ pc'[c] = "row" /\ cta'[c].iter = j + 1 /\ cta[c].ties = {}
        BY <1>1, <3>3, <3>8 DEF NextRow, Goto, TypeOK
      <4>2. j = i  BY <3>2, <3>3, <4>1 DEF AtRow
      <4>3. Took(c, i, p, x) <=> k >= p  BY <3>3, <3>6, <4>1, <4>2 DEF Took
      <4>4. Took(c, i, p, x)' <=> k >= p  BY <3>4, <3>6, <4>1, <4>2 DEF Took
      <4>5. QED  BY <1>4, <4>3, <4>4
    <3>9. CASE ShortRow(c)
      <4>1. pc[c] = "row" /\ pc'[c] = "row" /\ cta'[c].iter = j + 1
        BY <1>1, <3>3, <3>9 DEF ShortRow, TypeOK
      <4>2. j > i  BY <3>2, <3>3, <4>1 DEF Collecting
      <4>3. Took(c, i, p, x) <=> k >= p  BY <3>3, <3>4, <3>6, <4>1, <4>2 DEF Took
      <4>4. Took(c, i, p, x)' <=> k >= p  BY <3>4, <3>6, <4>1, <4>2 DEF Took
      <4>5. QED  BY <1>4, <4>3, <4>4
    <3>10. CASE ResetOutput(c)
      <4>1. pc[c] = "reset"  BY <3>10 DEF ResetOutput
      <4>2. QED  BY <3>2, <4>1 DEF AtRow, Collecting
    <3>11. QED  BY <1>1, <2>2, <3>7, <3>8, <3>9, <3>10, Turns
  <2>3. QED  BY <2>1, <2>2
<1>5. QED  BY <1>3, <1>4

\* So what is seen stays what it is.
LEMMA SeenStays ==
  ASSUME IInv, AgreeOK, NEW c \in CTAs, Steps(c), ~Collect(c), ~Tie(c), ~Astray(c),
         NEW i \in LargeRows, NEW p \in Nat, SeenAt(i, p),
         Idle(c) \/ \E a \in CTAs : pc[a] \in Collecting /\ cta[a].iter = i /\ cta[a].prefix = p
  PROVE  SeenAt(i, p)'
<1>1. TypeOK /\ PlaceOK /\ BarrierOK /\ PlanOK  BY DEF IInv
<1>2. rows' = rows  BY <1>1, Frame
<1>3. \A d \in CTAs : \A x \in Chunk(d, Len(rows[i])) : Took(d, i, p, x)' <=> Took(d, i, p, x)
  BY TookStays
<1>4. Seen(i, p)' = Seen(i, p)  BY <1>2, <1>3 DEF Seen
<1>5. outc' = outc /\ out' = out
  <2>1. ~ResetOutput(c) \/ Idle(c)
    <3>1. SUFFICES ASSUME ResetOutput(c), ~Idle(c) PROVE FALSE  OBVIOUS
    <3>2. PICK a \in CTAs : pc[a] \in Collecting  BY <3>1
    <3>3. pc[c] = "reset"  BY <3>1 DEF ResetOutput
    <3>4. QED  BY <1>1, <3>2, <3>3, NobodyCollects
  <2>2. PassFinal(c) \/ NextRow(c) \/ ShortRow(c) => outc' = outc /\ out' = out
    BY DEF PassFinal, NextRow, ShortRow, state
  <2>3. QED  BY <1>1, <2>1, <2>2, Turns DEF Idle
<1>6. QED  BY <1>2, <1>4, <1>5 DEF SeenAt, Written

\* Who collects in a row finds the same row and pivot.
SeenAlike(c) ==
  \A a \in CTAs : pc'[a] \in Collecting => cta'[a].iter = cta[c].iter /\ cta'[a].prefix = cta[c].prefix

\* What lies above the pivot fits: the positions that a block reserves end at
\* K, as those of the others are among the at most K above the pivot too.
LEMMA CollectSeen ==
  ASSUME IInv, AgreeOK, SearchOK, SeenOK, NEW c \in CTAs, Collect(c)
  PROVE  /\ SeenAlike(c) /\ SeenAt(cta[c].iter, cta[c].prefix)'
         /\ \A e \in out' : e \in out \/ e.pos < K
<1>1. TypeOK /\ PlaceOK  BY DEF IInv
<1>2. pc[c] = "collect" /\ pc[c] \in AtRow /\ pc[c] \in Collecting  BY DEF Collect, AtRow, Collecting
<1>3. /\ cta' = cta /\ pc' = [pc EXCEPT ![c] = "final"] /\ rows' = rows
      /\ pc \in [CTAs -> Places]
  BY <1>1 DEF Collect, Goto, input, TypeOK
<1>4. PICK i \in LargeRows, p \in Nat, k \in 1 .. K :
        i = cta[c].iter /\ p = cta[c].prefix /\ k = cta[c].remaining /\ cta[c].round = 4
  BY <1>1, <1>2, StageFact DEF TypeOK
<1>5. /\ Row(c) = rows[i] /\ MyChunk(c) = Chunk(c, Len(rows[i])) /\ rows[i] \in Seq(Keys)
      /\ i \in DOMAIN rows /\ IsFiniteSet(MyChunk(c)) /\ Len(rows[i]) \in Nat
  BY <1>1, <1>2, <1>4, AtRowType, RowType
<1> DEFINE above == {x \in MyChunk(c) : Key(rows[i], x) > p}
           n == Cardinality(above)
<1>6. PICK at \in Bijection(above, outc .. outc + n - 1) :
        out' = out \cup {[row |-> i, pos |-> at[x], index |-> x] : x \in above}
  <2>1. above = {x \in MyChunk(c) : Key(Row(c), x) > cta[c].prefix}  BY <1>4, <1>5
  <2> HIDE DEF above
  <2>2. \E at \in Bijection(above, outc .. outc + n - 1) :
          out' = out \cup {[row |-> cta[c].iter, pos |-> at[x], index |-> x] : x \in above}
    BY <2>1, Zenon DEF Collect
  <2>3. QED  BY <1>4, <2>2
<1>7. outc' = outc + n  BY <1>4, <1>5 DEF Collect
<1>8. \A a \in CTAs : \/ /\ cta[a].iter = i /\ pc[a] \in {"wait", "read"} \cup Collecting
                         /\ pc[a] \in Collecting => cta[a].prefix = p
                         /\ pc[a] # "ties"
  <2> TAKE a \in CTAs
  <2>1. FellowOf(c, a)  BY <1>2, Fellows
  <2>2. cta[a].iter = i /\ pc[a] # "ties"  BY <1>2, <1>4, <2>1 DEF FellowOf
  <2>3. i \in Nat  BY <1>1, <1>5, RowType
  <2>4. ~(cta[a].iter > cta[c].iter)  BY <1>4, <2>2, <2>3
  <2>5. QED  BY <1>2, <1>4, <2>2, <2>4, Together
<1>9. SeenAlike(c)
  <2>1. \A a \in CTAs : pc'[a] \in Collecting => pc[a] \in Collecting  BY <1>2, <1>3
  <2>2. QED  BY <1>3, <1>4, <1>8, <2>1 DEF SeenAlike
<1>10. SeenAt(i, p)
  <2>1. i \in Nat  BY <1>1, <1>5, RowType
  <2>2. \A a \in CTAs : <<a, i>> \notin torn
    <3> TAKE a \in CTAs
    <3>1. ~(cta[a].iter > i) /\ pc[a] # "ties"  BY <1>8, <2>1
    <3>2. QED  BY <3>1 DEF IInv, TornOK, TornAt
  <2>3. ~Overtaken(i)  BY <2>2 DEF Overtaken
  <2>4. QED  BY <1>2, <1>4, <2>3 DEF SeenOK
<1>11. IsFiniteSet(above) /\ above \subseteq Indices(rows[i])
  <2>1. above \in SUBSET MyChunk(c)  OBVIOUS
  <2>2. IsFiniteSet(above)  BY <1>5, <2>1, FS_Subset
  <2>3. \A x \in Chunk(c, Len(rows[i])) : x \in Nat /\ x < Len(rows[i])  BY <1>5, ChunkFinite
  <2>4. QED  BY <1>5, <2>2, <2>3 DEF Indices
<1>12. \A x \in above : x \in Chunk(c, Len(rows[i])) /\ Key(rows[i], x) > p  BY <1>5
<1>13. \A x \in Chunk(c, Len(rows[i])) : Key(rows[i], x) > p => x \in above  BY <1>5
<1>14. n \in Nat  BY <1>11, FS_CardinalityType
<1> HIDE DEF above, n
<1>15. \A d \in CTAs \ {c} : \A x : Took(d, i, p, x)' <=> Took(d, i, p, x)  BY <1>3 DEF Took
<1>16. \A x : ~Took(c, i, p, x)
  <2>1. i \in Nat /\ ~(i > i)  BY <1>1, <1>5, RowType
  <2>2. QED  BY <1>2, <1>4, <2>1 DEF Took
<1>17. \A x : Took(c, i, p, x)' <=> Key(rows[i], x) > p
  <2>1. i \in Nat /\ ~(i > i)  BY <1>1, <1>5, RowType
  <2>2. pc'[c] = "final"  BY <1>3
  <2>3. QED  BY <1>3, <1>4, <2>1, <2>2 DEF Took
<1>18. Seen(i, p)' = Seen(i, p) \cup above
  <2>1. Seen(i, p)' = {x \in Indices(rows[i]) :
                          \E d \in CTAs : x \in Chunk(d, Len(rows[i])) /\ Took(d, i, p, x)'}
    BY <1>3 DEF Seen
  <2>2. Seen(i, p) = {x \in Indices(rows[i]) :
                          \E d \in CTAs : x \in Chunk(d, Len(rows[i])) /\ Took(d, i, p, x)}
    BY DEF Seen
  <2>3. QED  BY <1>11, <1>12, <1>13, <1>15, <1>16, <1>17, <2>1, <2>2
<1>19. Seen(i, p) \cap above = {}
  <2>1. SUFFICES ASSUME NEW x \in Seen(i, p), x \in above PROVE FALSE  OBVIOUS
  <2>2. PICK d \in CTAs : x \in Chunk(d, Len(rows[i])) /\ Took(d, i, p, x)  BY <2>1 DEF Seen
  <2>3. d = c  BY <1>12, <2>1, <2>2, ChunksDisjoint
  <2>4. QED  BY <1>16, <2>2, <2>3
<1>20. Seen(i, p)' \subseteq From(rows[i], p + 1)
  <2>1. SUFFICES ASSUME NEW x \in Seen(i, p)' PROVE x \in From(rows[i], p + 1)  OBVIOUS
  <2>2. PICK d \in CTAs : x \in Chunk(d, Len(rows[i])) /\ Took(d, i, p, x)'  BY <1>3, <2>1 DEF Seen
  <2>3. x \in Indices(rows[i])  BY <1>3, <2>1 DEF Seen
  <2>4. Key(rows[i], x) > p
    <3>1. CASE d = c  BY <1>17, <2>2, <3>1
    <3>2. CASE d # c
      <4>1. Took(d, i, p, x)  BY <1>15, <2>2, <3>2
      <4>2. i \in Nat /\ ~(i > i)  BY <1>1, <1>5, RowType
      <4>3. QED  BY <1>8, <4>1, <4>2 DEF Took
    <3>3. QED  BY <3>1, <3>2
  <2>5. Key(rows[i], x) \in Nat  BY <1>5, <2>3, HowManyFact
  <2>6. Key(rows[i], x) >= p + 1  BY <2>4, <2>5
  <2>7. QED  BY <2>3, <2>6 DEF From
<1>21. outc' = Cardinality(Seen(i, p)') /\ outc' <= K
  <2>1. IsFiniteSet(From(rows[i], p + 1)) /\ HowMany(rows[i], p + 1) \in Nat  BY <1>5, HowManyFact
  <2>2. IsFiniteSet(Seen(i, p)')  BY <1>20, <2>1, FS_Subset
  <2>3. Seen(i, p) \in SUBSET Seen(i, p)'  BY <1>18
  <2>4. IsFiniteSet(Seen(i, p))  BY <2>2, <2>3, FS_Subset
  <2>5. Cardinality(Seen(i, p) \cup above)
          = Cardinality(Seen(i, p)) + Cardinality(above) - Cardinality(Seen(i, p) \cap above)
    BY <1>11, <2>4, FS_Union
  <2>6. Cardinality(Seen(i, p) \cap above) = 0  BY <1>19, FS_EmptySet
  <2>7. Cardinality(Seen(i, p)) = outc /\ outc \in Nat  BY <1>1, <1>10 DEF SeenAt, TypeOK
  <2>8. Cardinality(Seen(i, p)') = outc + n  BY <1>14, <1>18, <2>5, <2>6, <2>7 DEF n
  <2>9. Cardinality(Seen(i, p)') <= HowMany(rows[i], p + 1)  BY <1>20, <2>1, FS_Subset DEF HowMany
  <2>10. HowMany(rows[i], p + 1) <= K
    <3>1. Bounded(rows[i], p, 4, k)  BY <1>2, <1>4, <1>5 DEF SearchOK, SearchAt
    <3>2. QED  BY <1>5, <3>1, SearchEnds
  <2>11. K \in Nat  BY KernelAssumption
  <2>12. QED  BY <1>7, <1>14, <2>1, <2>7, <2>8, <2>9, <2>10, <2>11
<1> DEFINE new == {[row |-> i, pos |-> at[x], index |-> x] : x \in above}
<1>22. /\ \A x \in above : at[x] \in outc .. outc + n - 1
       /\ \A q \in outc .. outc + n - 1 : \E x \in above : at[x] = q
  BY <1>6 DEF Bijection, Injection, Surjection
<1>23. Written(i)' = Written(i) \cup new  BY <1>6 DEF Written
<1>24. outc \in Nat /\ K \in Nat  BY <1>1, KernelAssumption DEF TypeOK
<1>25. {e.pos : e \in new} = outc .. outc' - 1
  <2>1. {e.pos : e \in new} = {at[x] : x \in above}
    <3>1. \A e \in new : \E x \in above : e.pos = at[x]  OBVIOUS
    <3>2. \A x \in above : \E e \in new : e.pos = at[x]
      <4> TAKE x \in above
      <4>1. [row |-> i, pos |-> at[x], index |-> x] \in new  OBVIOUS
      <4>2. [row |-> i, pos |-> at[x], index |-> x].pos = at[x]  OBVIOUS
      <4> HIDE DEF new
      <4>3. QED  BY <4>1, <4>2
    <3> HIDE DEF new
    <3>3. QED  BY <3>1, <3>2
  <2>2. outc + n - 1 = outc' - 1  BY <1>7, <1>14, <1>24
  <2>3. QED  BY <1>22, <2>1, <2>2
<1> HIDE DEF new
<1>26. {e.pos : e \in Written(i)'} = {q \in 0 .. K - 1 : q < outc'}
  <2>1. {e.pos : e \in Written(i)} = {q \in 0 .. K - 1 : q < outc}  BY <1>10 DEF SeenAt
  <2>2. {e.pos : e \in Written(i)'} = {q \in 0 .. K - 1 : q < outc} \cup (outc .. outc' - 1)
    BY <1>23, <1>25, <2>1
  <2>3. {q \in 0 .. K - 1 : q < outc} \cup (outc .. outc' - 1) = {q \in 0 .. K - 1 : q < outc'}
    BY <1>7, <1>14, <1>21, <1>24
  <2>4. QED  BY <2>2, <2>3
<1>27. \A e \in Written(i)' : Key(rows[i], e.index) >= p
  <2>1. \A e \in new : Key(rows[i], e.index) > p /\ Key(rows[i], e.index) \in Nat
    <3> TAKE e \in new
    <3>1. PICK x \in above : e = [row |-> i, pos |-> at[x], index |-> x]  BY DEF new
    <3>2. e.index = x  BY <3>1
    <3>3. x \in Indices(rows[i])  BY <1>11
    <3>4. QED  BY <1>5, <1>12, <3>2, <3>3, HowManyFact
  <2>2. \A e \in new : Key(rows[i], e.index) >= p  BY <2>1
  <2>3. QED  BY <1>10, <1>23, <2>2 DEF SeenAt
<1>28. \A x \in Seen(i, p)' : Key(rows[i], x) > p => \E e \in Written(i)' : e.index = x
  <2> TAKE x \in Seen(i, p)'
  <2> HAVE Key(rows[i], x) > p
  <2>1. CASE x \in Seen(i, p)  BY <1>10, <1>23, <2>1 DEF SeenAt
  <2>2. CASE x \in above
    <3>1. [row |-> i, pos |-> at[x], index |-> x] \in new  BY <2>2 DEF new
    <3>2. [row |-> i, pos |-> at[x], index |-> x].index = x  OBVIOUS
    <3>3. QED  BY <1>23, <3>1, <3>2
  <2>3. QED  BY <1>18, <2>1, <2>2
<1>29. SeenAt(i, p)'  BY <1>3, <1>21, <1>26, <1>27, <1>28 DEF SeenAt
<1>30. \A e \in out' : e \in out \/ e.pos < K
  <2>1. \A e \in new : e.pos \in outc .. outc' - 1  BY <1>25
  <2>2. \A e \in new : e.pos < K  BY <1>21, <1>24, <1>7, <1>14, <2>1
  <2>3. QED  BY <1>6, <2>2 DEF new
<1>31. SeenAt(cta[c].iter, cta[c].prefix)'
  <2>1. cta'[c].iter = i /\ cta'[c].prefix = p  BY <1>3, <1>4
  <2>2. QED  BY <1>29, <2>1 DEF SeenAt, Seen, Took, Written
<1>32. QED  BY <1>9, <1>30, <1>31

\* A tie that still finds a position takes the next; one that does not is
\* counted as well.
LEMMA TieSeen ==
  ASSUME IInv, AgreeOK, SeenOK, NEW c \in CTAs, Tie(c), ~Overtaken(cta[c].iter)
  PROVE  SeenAlike(c) /\ SeenAt(cta[c].iter, cta[c].prefix)'
<1>1. TypeOK /\ PlaceOK  BY DEF IInv
<1>2. pc[c] = "ties" /\ pc[c] \in AtRow /\ pc[c] \in Collecting  BY DEF Tie, AtRow, Collecting
<1>3. pc' = pc /\ rows' = rows /\ outc' = outc + 1  BY DEF Tie, input
<1>4. PICK i \in LargeRows, p \in Nat :
        i = cta[c].iter /\ p = cta[c].prefix /\ cta[c].round = 4
  BY <1>1, <1>2, StageFact DEF TypeOK
<1>5. /\ Row(c) = rows[i] /\ MyChunk(c) = Chunk(c, Len(rows[i])) /\ rows[i] \in Seq(Keys)
      /\ i \in DOMAIN rows /\ Len(rows[i]) \in Nat /\ i \in Nat /\ ~(i > i)
  BY <1>1, <1>2, <1>4, AtRowType, RowType
<1>6. PICK t \in cta[c].ties :
        /\ out' = IF outc < K THEN out \cup {[row |-> cta[c].iter, pos |-> outc, index |-> t]} ELSE out
        /\ cta' = [cta EXCEPT ![c].ties = @ \ {t}]
  BY DEF Tie
<1>7. /\ \A a \in CTAs \ {c} : cta'[a] = cta[a]
      /\ cta'[c].iter = i /\ cta'[c].prefix = p /\ cta'[c].ties = cta[c].ties \ {t}
  BY <1>1, <1>4, <1>6 DEF TypeOK
<1>8. t \in Chunk(c, Len(rows[i])) /\ Key(rows[i], t) = p
  <2>1. <<c, cta[c].iter>> \notin torn  BY DEF Overtaken
  <2>2. QED  BY <1>1, <1>2, <1>4, <1>5, <1>6, <2>1 DEF PlaceOK, PlaceAt
<1>9. t \in Indices(rows[i])
  <2>1. t \in Nat /\ t < Len(rows[i])  BY <1>5, <1>8, ChunkFinite
  <2>2. QED  BY <1>5, <2>1 DEF Indices
<1>10. SeenAlike(c)
  <2> SUFFICES ASSUME NEW a \in CTAs, pc'[a] \in Collecting
               PROVE  cta'[a].iter = cta[c].iter /\ cta'[a].prefix = cta[c].prefix
    BY DEF SeenAlike
  <2>1. pc[a] \in Collecting /\ pc[a] \in AtRow \ {"init"}  BY <1>3 DEF Collecting, AtRow
  <2>2. cta[a].iter = cta[c].iter /\ cta[a].prefix = cta[c].prefix  BY <1>2, <2>1, Together
  <2>3. QED  BY <1>4, <1>7, <2>2
<1>11. SeenAt(i, p)  BY <1>2, <1>4 DEF SeenOK
<1>12. \A d \in CTAs \ {c} : \A x : Took(d, i, p, x)' <=> Took(d, i, p, x)  BY <1>3, <1>7 DEF Took
<1>13. \A x : Took(c, i, p, x) <=> Key(rows[i], x) > p \/ (Key(rows[i], x) = p /\ x \notin cta[c].ties)
  BY <1>2, <1>4, <1>5 DEF Took
<1>14. \A x : Took(c, i, p, x)' <=>
                Key(rows[i], x) > p \/ (Key(rows[i], x) = p /\ x \notin cta[c].ties \ {t})
  BY <1>2, <1>3, <1>5, <1>7 DEF Took
<1>15. \A x : Took(c, i, p, x)' <=> Took(c, i, p, x) \/ x = t  BY <1>8, <1>13, <1>14
<1>16. Seen(i, p)' = Seen(i, p) \cup {t}
  <2>1. Seen(i, p)' = {x \in Indices(rows[i]) :
                          \E d \in CTAs : x \in Chunk(d, Len(rows[i])) /\ Took(d, i, p, x)'}
    BY <1>3 DEF Seen
  <2>2. Seen(i, p) = {x \in Indices(rows[i]) :
                          \E d \in CTAs : x \in Chunk(d, Len(rows[i])) /\ Took(d, i, p, x)}
    BY DEF Seen
  <2>3. QED  BY <1>8, <1>9, <1>12, <1>15, <2>1, <2>2
<1>17. t \notin Seen(i, p)
  <2>1. SUFFICES ASSUME t \in Seen(i, p) PROVE FALSE  OBVIOUS
  <2>2. PICK d \in CTAs : t \in Chunk(d, Len(rows[i])) /\ Took(d, i, p, t)  BY <2>1 DEF Seen
  <2>3. d = c  BY <1>8, <2>2, ChunksDisjoint
  <2>4. ~(Key(rows[i], t) > p)  BY <1>8
  <2>5. QED  BY <1>6, <1>13, <2>2, <2>3, <2>4
<1>18. outc' = Cardinality(Seen(i, p)')
  <2>1. Seen(i, p) \in SUBSET Indices(rows[i])  BY DEF Seen
  <2>2. IsFiniteSet(Seen(i, p))  BY <1>5, <2>1, HowManyFact, FS_Subset
  <2>3. Cardinality(Seen(i, p) \cup {t}) = Cardinality(Seen(i, p)) + 1  BY <1>17, <2>2, FS_AddElement
  <2>4. QED  BY <1>3, <1>11, <1>16, <2>3 DEF SeenAt
<1>19. outc \in Nat /\ K \in Nat  BY <1>1, KernelAssumption DEF TypeOK
<1>20. /\ {e.pos : e \in Written(i)} = {q \in 0 .. K - 1 : q < outc}
       /\ \A e \in Written(i) : Key(rows[i], e.index) >= p
       /\ \A x \in Seen(i, p) : Key(rows[i], x) > p => \E e \in Written(i) : e.index = x
  BY <1>11 DEF SeenAt
<1>21. \A x \in Seen(i, p)' : Key(rows[i], x) > p => x \in Seen(i, p)  BY <1>8, <1>16
<1>22. CASE outc < K
  <2> DEFINE e0 == [row |-> i, pos |-> outc, index |-> t]
  <2>1. e0.row = i /\ e0.pos = outc /\ e0.index = t  OBVIOUS
  <2>2. out' = out \cup {e0}  BY <1>4, <1>6, <1>22
  <2> HIDE DEF e0
  <2>3. Written(i)' = Written(i) \cup {e0}  BY <2>1, <2>2 DEF Written
  <2>4. {e.pos : e \in Written(i)'} = {q \in 0 .. K - 1 : q < outc'}
    <3>1. {e.pos : e \in Written(i)'} = {q \in 0 .. K - 1 : q < outc} \cup {outc}  BY <1>20, <2>1, <2>3
    <3>2. {q \in 0 .. K - 1 : q < outc} \cup {outc} = {q \in 0 .. K - 1 : q < outc'}
      BY <1>3, <1>19, <1>22
    <3>3. QED  BY <3>1, <3>2
  <2>5. \A e \in Written(i)' : Key(rows[i], e.index) >= p  BY <1>4, <1>8, <1>20, <2>1, <2>3
  <2>6. \A x \in Seen(i, p)' : Key(rows[i], x) > p => \E e \in Written(i)' : e.index = x
    BY <1>20, <1>21, <2>3
  <2>7. SeenAt(i, p)'  BY <1>3, <1>18, <2>4, <2>5, <2>6 DEF SeenAt
  <2>8. QED  BY <1>7, <1>10, <2>7, <2>8 DEF SeenAt, Seen, Took, Written
<1>23. CASE ~(outc < K)
  <2>1. out' = out  BY <1>6, <1>23
  <2>2. Written(i)' = Written(i)  BY <2>1 DEF Written
  <2>3. {q \in 0 .. K - 1 : q < outc} = {q \in 0 .. K - 1 : q < outc'}  BY <1>3, <1>19, <1>23
  <2>4. SeenAt(i, p)'  BY <1>3, <1>18, <1>20, <1>21, <2>2, <2>3 DEF SeenAt
  <2>5. QED  BY <1>7, <1>10, <2>1, <2>4 DEF SeenAt, Seen, Took, Written
<1>24. QED  BY <1>22, <1>23

\* Before any CTA of a row has reserved positions the counter is zero.
Begun == \E d \in CTAs : pc[d] \in {"final", "ties"}
CountedOK == pc[0] \in {"round", "wait", "read", "collect"} /\ ~Begun => outc = 0

\* No step but the collecting CTAs' raises the counter after its reset.
LEMMA CountedNext ==
  ASSUME IInv, CountedOK, NEW c \in CTAs, Steps(c)
  PROVE  CountedOK'
<1>1. TypeOK /\ PlaceOK  BY DEF IInv
<1>2. \A d \in CTAs \ {c} : pc'[d] = pc[d] /\ cta'[d] = cta[d]  BY <1>1, Frame
<1>3. 0 \in CTAs  BY CTAZero
<1> SUFFICES ASSUME pc'[0] \in {"round", "wait", "read", "collect"}, ~Begun' PROVE outc' = 0
  BY DEF CountedOK
<1>4. \A d \in CTAs : pc'[d] \notin {"final", "ties"}  BY DEF Begun
<1>5. CASE ResetOutput(c)  BY <1>5 DEF ResetOutput
<1>6. CASE Collect(c) \/ Tie(c) \/ PassFinal(c) \/ Astray(c)
  <2>1. pc'[c] \in {"final", "ties"}
    BY <1>1, <1>6, AstrayMoves DEF Collect, Tie, PassFinal, Goto, TypeOK
  <2>2. QED  BY <1>4, <2>1
<1>7. CASE NextRow(c)
  <2>1. pc[c] = "ties" /\ pc'[c] = "row"  BY <1>1, <1>7 DEF NextRow, Goto, TypeOK
  <2>2. pc[0] = pc'[0]  BY <1>2, <1>3, <2>1
  <2>3. FellowOf(c, 0)  BY <1>3, <2>1, Fellows DEF Collecting
  <2>4. QED  BY <2>1, <2>2, <2>3 DEF FellowOf, AtRow
<1>8. CASE ShortRow(c)
  <2>1. pc' = pc /\ outc' = outc  BY <1>8 DEF ShortRow, state
  <2>2. QED  BY <1>4, <2>1 DEF CountedOK, Begun
<1>9. CASE Idle(c) /\ ~ResetOutput(c)
  <2>1. outc' = outc /\ ~Begun  BY <1>2, <1>4, <1>9 DEF Idle, Begun
  <2>2. pc[0] \in {"round", "wait", "read", "collect"}
    <3>1. CASE c # 0  BY <1>2, <1>3, <3>1
    <3>2. CASE c = 0
      <4> USE DEF Goto, TypeOK
      <4>1. Start(c) \/ LeaveLoop(c) \/ LargeRow(c) \/ PassInit(c)
              => pc'[c] \notin {"round", "wait", "read", "collect"}
        BY <1>1, <3>2 DEF Start, LeaveLoop, LargeRow, PassInit
      <4>2. ArriveRound(c) \/ PassRound(c) \/ Select(c) => pc[c] \in {"round", "wait", "read", "collect"}
        BY DEF ArriveRound, PassRound, Select
      <4>3. \A w \in WaveIds : WaveStep(c, w) => pc' = pc  BY DEF WaveStep, Add, Clear
      <4>4. Collect(c) \/ PassFinal(c) \/ Tie(c) \/ Astray(c) \/ NextRow(c) => pc[c] \in Collecting
        BY <1>1, AstrayMoves DEF Collect, PassFinal, Tie, NextRow, Collecting
      <4>5. ShortRow(c) => pc' = pc  BY DEF ShortRow
      <4>6. pc[c] \in Collecting => pc[c] = "collect"  BY <1>9 DEF Idle, Collecting
      <4>7. QED  BY <1>9, <3>2, <4>1, <4>2, <4>3, <4>4, <4>5, <4>6 DEF Steps, Step, Astray
    <3>3. QED  BY <3>1, <3>2
  <2>3. QED  BY <2>1, <2>2 DEF CountedOK
<1>10. QED  BY <1>1, <1>5, <1>6, <1>7, <1>8, <1>9, Turns

\* The first to collect finds nothing seen and nothing written.
LEMMA FirstCollects ==
  ASSUME IInv, CountedOK, NEW c \in CTAs, pc[c] = "read", cta[c].round = 3,
         NEW i, i = cta[c].iter, NEW p,
         \A d \in CTAs : ~(pc[d] \in Collecting /\ cta[d].iter = i)
  PROVE  i \in LargeRows /\ SeenAt(i, p)
<1>1. TypeOK /\ PlaceOK /\ ServedOK  BY DEF IInv
<1>2. In(c) /\ pc[c] \in AtRow  BY DEF In, Searching, AtRow
<1>3. i \in LargeRows /\ i \in Nat  BY <1>1, <1>2, AtRowType
<1>4. \A d \in CTAs : cta[d].iter = i /\ pc[d] \in {"wait", "read"}
  <2> TAKE d \in CTAs
  <2>1. PeerOf(c, d)  BY <1>2, Peers
  <2>2. PICK q \in 0 .. 4 : q = cta[d].round  BY <1>1, StageFact
  <2>3. q >= 3 /\ (q = 3 => pc[d] \in {"wait", "read"}) /\ cta[d].iter = i /\ pc[d] \in AtRow
    BY <2>1, <2>2 DEF PeerOf
  <2>4. CASE q = 3  BY <2>3, <2>4
  <2>5. CASE q = 4
    <3>1. pc[d] \notin {"init", "reset", "round", "wait", "read"}
      <4>1. cta[d].round = 4  BY <2>2, <2>5
      <4>2. pc[d] \in {"init", "reset"} => cta[d].round = 0  BY <1>1 DEF PlaceOK, PlaceAt
      <4>3. pc[d] \in {"round", "wait", "read"} => cta[d].round \in 0 .. 3  BY <1>1 DEF PlaceOK, PlaceAt
      <4>4. QED  BY <4>1, <4>2, <4>3
    <3>3. pc[d] \in Collecting  BY <2>3, <3>1 DEF AtRow, Collecting
    <3>2. QED  BY <2>3, <3>3
  <2>6. QED  BY <2>3, <2>4, <2>5
<1>5. outc = 0
  <2>1. pc[0] \in {"wait", "read"}  BY <1>4, CTAZero
  <2>2. ~Begun  BY <1>4 DEF Begun
  <2>3. QED  BY <2>1, <2>2 DEF CountedOK
<1>6. Seen(i, p) = {}
  <2>1. \A d \in CTAs : \A x : ~Took(d, i, p, x)
    <3> TAKE d \in CTAs
    <3>1. ~(i > i)  BY <1>3
    <3>2. QED  BY <1>4, <3>1 DEF Took
  <2>2. QED  BY <2>1 DEF Seen
<1>7. Written(i) = {}
  <2>1. SUFFICES ASSUME NEW e \in out, e.row = i PROVE FALSE  BY DEF Written
  <2>2. PICK d \in CTAs : ServedBy(e, d)  BY <1>1 DEF ServedOK, Served
  <2>3. ~(i < i)  BY <1>3
  <2>4. QED  BY <1>4, <2>1, <2>2, <2>3 DEF ServedBy
<1>8. {q \in 0 .. K - 1 : q < 0} = {}  BY KernelAssumption
<1>9. Cardinality({}) = 0  BY FS_EmptySet
<1>10. QED  BY <1>3, <1>5, <1>6, <1>7, <1>8, <1>9 DEF SeenAt

\* Every step keeps the account of what has been seen.
LEMMA SeenNext ==
  ASSUME IInv, IInv', AgreeOK, AgreeOK', SearchOK, SeenOK, CountedOK, NEW c \in CTAs, Steps(c)
  PROVE  SeenOK'
<1>1. TypeOK /\ PlaceOK  BY DEF IInv
<1>2. TypeOK' /\ PlaceOK'  BY DEF IInv
<1>3. /\ rows' = rows /\ LargeRows' = LargeRows
      /\ \A d \in CTAs \ {c} : pc'[d] = pc[d] /\ cta'[d] = cta[d]
  BY <1>1, Frame
<1>8. \A i : Overtaken(i) => Overtaken(i)'  BY <1>1, TornStays DEF Overtaken
<1> SUFFICES ASSUME NEW a \in CTAs, pc'[a] \in Collecting, ~Overtaken(cta[a].iter)'
             PROVE  SeenAt(cta[a].iter, cta[a].prefix)'
  BY DEF SeenOK
<1>9. ~Overtaken(cta'[a].iter)  BY <1>8 DEF Overtaken
<1>4. CASE Collect(c) \/ Tie(c)
  <2>2. pc'[c] \in Collecting /\ pc[c] \in Collecting
    BY <1>1, <1>4 DEF Collect, Tie, Goto, TypeOK, Collecting
  <2>5. cta'[c].iter = cta[c].iter  BY <1>1, <1>4 DEF Collect, Tie, TypeOK
  <2>6. cta'[a].iter = cta'[c].iter
    <3>2. CASE a = c  BY <3>2
    <3>3. CASE a # c
      <4>1. pc[a] \in Collecting /\ cta'[a] = cta[a]  BY <1>3, <3>3
      <4>2. pc[a] \in AtRow \ {"init"} /\ pc[c] \in AtRow \ {"init"}
        BY <2>2, <4>1 DEF Collecting, AtRow
      <4>3. cta[a].iter = cta[c].iter  BY <2>2, <4>1, <4>2, Together
      <4>4. QED  BY <2>5, <4>1, <4>3
    <3>4. QED  BY <3>2, <3>3
  <2>1. SeenAlike(c) /\ SeenAt(cta[c].iter, cta[c].prefix)'
    BY <1>4, <1>9, <2>5, <2>6, CollectSeen, TieSeen
  <2>3. cta'[a].iter = cta'[c].iter /\ cta'[a].prefix = cta'[c].prefix
    BY <2>1, <2>2 DEF SeenAlike
  <2>4. QED  BY <2>1, <2>3 DEF SeenAt, Seen, Took, Written
<1>10. CASE Astray(c)
  <2>1. /\ pc' = pc /\ pc[c] = "ties" /\ <<c, cta[c].iter>> \in torn'
        /\ cta'[c].iter = cta[c].iter /\ cta'[a].iter = cta[a].iter
    BY <1>1, <1>10, AstrayMoves, AstrayRegisters
  <2>2. pc[c] \in Collecting /\ pc[c] \in AtRow \ {"init"} /\ pc[a] \in Collecting
    BY <2>1 DEF Collecting, AtRow
  <2>3. cta[c].iter = cta[a].iter  BY <2>2, Together
  <2>4. Overtaken(cta[a].iter)'  BY <2>1, <2>3 DEF Overtaken
  <2>5. QED  BY <2>4
<1>5. ASSUME ~Collect(c), ~Tie(c), ~Astray(c), pc[a] \in Collecting
      PROVE  SeenAt(cta[a].iter, cta[a].prefix)'
  <2>1. cta'[a].iter = cta[a].iter /\ cta'[a].prefix = cta[a].prefix
    <3>1. CASE a # c  BY <1>3, <3>1
    <3>2. CASE a = c
      <4>1. ~Opens(c) /\ ~Loads(c) /\ ~Leaves(c) /\ ~Selects(c) /\ ~Counts(c)
        BY <1>5, <3>2 DEF Opens, Loads, Leaves, Selects, Counts, Collecting
      <4>2. Quiet(c)  BY <1>1, <4>1, Kinds DEF Adds, Clears
      <4>3. QED  BY <3>2, <4>2 DEF Quiet
    <3>3. QED  BY <3>1, <3>2
  <2>2. PICK i \in LargeRows, p \in Nat : i = cta[a].iter /\ p = cta[a].prefix
    BY <1>1, <1>5 DEF PlaceOK, PlaceAt, AtRow, Collecting, TypeOK
  <2>3. SeenAt(i, p)  BY <1>5, <1>9, <2>1, <2>2 DEF SeenOK
  <2>4. SeenAt(i, p)'  BY <1>5, <2>2, <2>3, SeenStays
  <2>5. QED  BY <2>1, <2>2, <2>4 DEF SeenAt, Seen, Took, Written
<1>6. ASSUME ~Collect(c), ~Tie(c), ~Astray(c), pc[a] \notin Collecting
      PROVE  SeenAt(cta[a].iter, cta[a].prefix)'
  <2>1. a = c  BY <1>3, <1>6
  <2>2. Selects(c)
    <3>1. ~Opens(c) /\ ~Loads(c) /\ ~Leaves(c) /\ ~Counts(c)
      BY <1>6, <2>1 DEF Opens, Loads, Leaves, Counts, Collecting
    <3>2. ~Quiet(c)
      BY <1>6, <2>1 DEF Quiet, Searching, AtRow, Collecting
    <3>3. QED  BY <1>1, <3>1, <3>2, Kinds DEF Adds, Clears
  <2>3. /\ pc[c] = "read" /\ cta[c].round = 3 /\ cta'[c].iter = cta[c].iter
        /\ pc'[c] = "collect"
    BY <2>1, <2>2 DEF Selects, Collecting
  <2>4. Idle(c)
    <3>1. /\ ~ResetOutput(c) /\ ~Collect(c) /\ ~PassFinal(c) /\ ~Tie(c) /\ ~NextRow(c) /\ ~ShortRow(c)
      BY <2>3 DEF ResetOutput, Collect, PassFinal, Tie, NextRow, ShortRow
    <3>2. QED  BY <1>1, <1>6, <3>1, Turns
  <2>5. PICK i \in LargeRows, p \in Nat : i = cta'[c].iter /\ p = cta'[c].prefix /\ i = cta[c].iter
    BY <1>2, <1>3, <2>3 DEF PlaceOK, PlaceAt, AtRow, TypeOK
  <2>6. SeenAt(i, p)
    <3>1. CASE \E d \in CTAs : pc[d] \in Collecting /\ cta[d].iter = i
      <4>1. PICK d \in CTAs : pc[d] \in Collecting /\ cta[d].iter = i  BY <3>1
      <4>2. d # c  BY <2>3, <4>1 DEF Collecting
      <4>3. pc'[d] \in Collecting /\ cta'[d].iter = i /\ cta'[d].prefix = cta[d].prefix
        BY <1>3, <4>1, <4>2
      <4>4. cta'[d].round = 4 /\ cta'[c].round = 4
        BY <1>2, <2>3, <4>3 DEF PlaceOK, PlaceAt, Collecting
      <4>5. AgreeOn(c, d)'  BY DEF AgreeOK
      <4>6. cta'[d].prefix = p
        BY <2>3, <2>5, <4>3, <4>4, <4>5 DEF AgreeOn, AtRow, Collecting
      <4>7. ~Overtaken(i)  BY <1>9, <2>1, <2>5
      <4>8. QED  BY <4>1, <4>3, <4>6, <4>7 DEF SeenOK
    <3>2. CASE \A d \in CTAs : ~(pc[d] \in Collecting /\ cta[d].iter = i)
      BY <2>3, <2>5, <3>2, FirstCollects
    <3>3. QED  BY <3>1, <3>2
  <2>7. SeenAt(i, p)'  BY <1>6, <2>4, <2>6, SeenStays
  <2>8. QED  BY <2>1, <2>5, <2>7 DEF SeenAt, Seen, Took, Written
<1>7. QED  BY <1>4, <1>5, <1>6, <1>10

-----------------------------------------------------------------------------
(* Rows that are done.                                                     *)

\* What collecting leaves is the top k, when the pivot was exact.
LEMMA TopKDone ==
  ASSUME TypeOK, ServedOK, PositionsDistinct, NEW i \in LargeRows, NEW p \in Nat, SeenAt(i, p),
         ~Overtaken(i), Seen(i, p) = From(rows[i], p), HowMany(rows[i], p) >= K
  PROVE  IsTopK(i)
<1> DEFINE W == Written(i)
           chosen == {e.index : e \in W}
<1>1. K \in Nat \ {0} /\ i \in DOMAIN rows  BY KernelAssumption DEF LargeRows
<1>2. rows[i] \in Seq(Keys)  BY <1>1, RowType
<1>3. outc \in Nat /\ outc >= K
  BY <1>2, HowManyFact DEF SeenAt, HowMany, TypeOK
<1>4. {e.pos : e \in W} = 0 .. K - 1
  <2>1. {q \in 0 .. K - 1 : q < outc} = 0 .. K - 1  BY <1>1, <1>3
  <2>2. QED  BY <2>1 DEF SeenAt
<1>5. \A e, f \in W : e.pos = f.pos \/ e.index = f.index => e = f  BY DEF PositionsDistinct, Written
<1> HIDE DEF W
<1> DEFINE at == [e \in W |-> e.pos]
           of == [e \in W |-> e.index]
<1>6. at \in Injection(W, 0 .. K - 1) /\ at \in Surjection(W, 0 .. K - 1)
  <2>1. at \in [W -> 0 .. K - 1]  BY <1>4
  <2>2. \A e, f \in W : at[e] = at[f] => e = f  BY <1>5
  <2>3. \A q \in 0 .. K - 1 : \E e \in W : at[e] = q  BY <1>4
  <2> HIDE DEF at
  <2>4. QED  BY <2>1, <2>2, <2>3 DEF Injection, Surjection, IsInjective
<1>7. IsFiniteSet(W) /\ Cardinality(W) = K
  <2>1. PICK m \in Nat : m = K - 1 /\ m - 0 + 1 = K  BY <1>1
  <2>2. IsFiniteSet(0 .. m) /\ Cardinality(0 .. m) = K
    <3>1. ~(0 > m)  BY <2>1
    <3>2. QED  BY <2>1, <3>1, FS_Interval
  <2>3. QED
    <3> HIDE DEF at
    <3>1. at \in Injection(W, 0 .. m) /\ at \in Surjection(W, 0 .. m)  BY <1>6, <2>1
    <3>2. QED  BY <2>2, <3>1, FS_Injection
<1>8. Cardinality(chosen) = K
  <2>1. of \in [W -> chosen]  OBVIOUS
  <2>2. \A e, f \in W : of[e] = of[f] => e = f  BY <1>5
  <2>3. \A q \in chosen : \E e \in W : of[e] = q  OBVIOUS
  <2> HIDE DEF of, chosen
  <2>4. of \in Injection(W, chosen) /\ of \in Surjection(W, chosen)
    BY <2>1, <2>2, <2>3 DEF Injection, Surjection, IsInjective
  <2>5. QED  BY <1>7, <2>4, FS_Surjection
<1>9. \A x \in chosen, y \in (0 .. Len(rows[i]) - 1) \ chosen : Key(rows[i], x) >= Key(rows[i], y)
  <2> TAKE x \in chosen, y \in (0 .. Len(rows[i]) - 1) \ chosen
  <2>1. PICK w \in W : w.index = x  OBVIOUS
  <2>7. Key(rows[i], x) >= p  BY <2>1 DEF SeenAt, W
  <2>2. y \in Indices(rows[i])  BY DEF Indices
  <2>3. Key(rows[i], y) \in Nat  BY <1>2, <2>2, HowManyFact
  <2>4. ~(Key(rows[i], y) > p)
    <3>1. SUFFICES ASSUME Key(rows[i], y) > p PROVE FALSE  OBVIOUS
    <3>2. y \in Seen(i, p)  BY <2>2, <2>3, <3>1 DEF From
    <3>3. \E e \in W : e.index = y  BY <3>1, <3>2 DEF SeenAt, W
    <3>4. QED  BY <3>3
  <2>5. Key(rows[i], x) \in Nat
    <3>1. w \in out /\ w.row = i  BY DEF W, Written
    <3>2. PICK c \in CTAs : x \in Chunk(c, Len(rows[i]))  BY <2>1, <3>1 DEF ServedOK, Served, OwnedBy
    <3>3. Len(rows[i]) \in Nat  BY <1>1, RowType
    <3>4. x \in Nat /\ x < Len(rows[i])  BY <3>2, <3>3, ChunkFinite
    <3>5. x \in Indices(rows[i])  BY <3>3, <3>4 DEF Indices
    <3>6. QED  BY <1>2, <3>5, HowManyFact
  <2>6. QED  BY <2>7, <2>3, <2>4, <2>5
<1>10. QED  BY <1>4, <1>7, <1>8, <1>9 DEF IsTopK, W

\* A row that every CTA has left holds its top k, unless waves were overtaken.
DoneOK ==
  \A i \in LargeRows : (\A c \in CTAs : cta[c].iter > i) => Overtaken(i) \/ IsTopK(i)

\* The last CTA to leave a row has seen, with the others, all elements that
\* are not below the pivot.
LEMMA LastLeaves ==
  ASSUME IInv, NoGap, AgreeOK, SearchOK, SeenOK, NEW c \in CTAs, NextRow(c),
         NEW i, i = cta[c].iter, ~Overtaken(i), \A d \in CTAs \ {c} : cta[d].iter > i
  PROVE  IsTopK(i)
<1>1. TypeOK /\ PlaceOK /\ ServedOK /\ PositionsDistinct  BY DEF IInv
<1>2. pc[c] = "ties" /\ cta[c].ties = {}  BY DEF NextRow
<1>3. pc[c] \in AtRow /\ pc[c] \in Collecting  BY <1>2 DEF AtRow, Collecting
<1>4. i \in LargeRows /\ i \in DOMAIN rows /\ i \in Nat /\ Row(c) = rows[i] /\ cta[c].round = 4
  BY <1>1, <1>2, <1>3, AtRowType, StageFact
<1>5. rows[i] \in Seq(Keys) /\ Len(rows[i]) \in 0 .. Stride  BY <1>1, <1>4, RowType
<1>6. PICK p \in Nat, k \in 1 .. K : p = cta[c].prefix /\ k = cta[c].remaining
  BY <1>1 DEF TypeOK
<1>7. SeenAt(i, p)  BY <1>3, <1>6 DEF SeenOK
<1>8. Seen(i, p) = From(rows[i], p)
  <2>1. ASSUME NEW x \in Indices(rows[i]) PROVE x \in Seen(i, p) <=> Key(rows[i], x) >= p
    <3>1. PICK key \in Nat : key = Key(rows[i], x)  BY <1>5, HowManyFact
    <3>2. ASSUME key >= p PROVE x \in Seen(i, p)
      <4>1. x \in Nat /\ x < Len(rows[i])  BY <1>5 DEF Indices
      <4>2. PICK d \in CTAs : x \in Chunk(d, Len(rows[i]))  BY <1>5, <4>1, ChunksCover
      <4>3. CASE d # c
        <5>1. cta[d].iter > i  BY <4>3
        <5>2. QED  BY <3>1, <3>2, <4>2, <5>1 DEF Seen, Took
      <4>4. CASE d = c
        <5>1. key > p \/ key = p  BY <3>2
        <5>2. QED  BY <1>2, <3>1, <4>2, <4>4, <5>1 DEF Seen, Took
      <4>5. QED  BY <4>3, <4>4
    <3>3. ASSUME x \in Seen(i, p) PROVE key >= p
      <4>1. PICK d \in CTAs : Took(d, i, p, x)  BY <3>3 DEF Seen
      <4>2. QED  BY <3>1, <4>1 DEF Took
    <3>4. QED  BY <3>1, <3>2, <3>3
  <2>2. Seen(i, p) \subseteq Indices(rows[i])  BY DEF Seen
  <2>3. QED  BY <2>1, <2>2 DEF From
<1>9. HowMany(rows[i], p) >= K
  <2>1. Bounded(rows[i], p, 4, k) /\ Exact(rows[i], p, 4, k)
    BY <1>3, <1>4, <1>6 DEF SearchOK, SearchAt
  <2>2. QED  BY <1>5, <2>1, SearchEnds
<1>10. QED  BY <1>1, <1>4, <1>7, <1>8, <1>9, TopKDone

\* A row gets done when its last CTA leaves, and stays done: later writes
\* are to other rows.
LEMMA DoneNext ==
  ASSUME IInv, NoGap, AgreeOK, SearchOK, SeenOK, DoneOK, NEW c \in CTAs, Steps(c)
  PROVE  DoneOK'
<1>1. TypeOK /\ PlaceOK  BY DEF IInv
<1>2. /\ rows' = rows /\ LargeRows' = LargeRows
      /\ \A d \in CTAs \ {c} : pc'[d] = pc[d] /\ cta'[d] = cta[d]
  BY <1>1, Frame
<1> SUFFICES ASSUME NEW i \in LargeRows, \A d \in CTAs : cta'[d].iter > i, ~Overtaken(i)'
             PROVE  IsTopK(i)'
  BY <1>2 DEF DoneOK
<1>7. ~Overtaken(i)  BY <1>1, TornStays DEF Overtaken
<1>3. i \in Nat /\ cta[c].iter \in Nat  BY <1>1, RowType DEF LargeRows, TypeOK
<1>4. CASE \A d \in CTAs : cta[d].iter > i
  <2>1. IsTopK(i)  BY <1>4, <1>7 DEF DoneOK
  <2>2. cta[c].iter # i
    <3>1. ~(i > i)  BY <1>3
    <3>2. QED  BY <1>4, <3>1
  <2>3. Written(i)' = Written(i)
    <3>1. \A e : e \in out' /\ e \notin out => e.row = cta[c].iter
      <4>1. CASE WritesNothing(c)  BY <4>1 DEF WritesNothing
      <4>2. CASE WritesAbove(c)
        <5>1. PICK n \in Nat : \E above \in SUBSET MyChunk(c) : \E at \in Bijection(above, outc .. outc + n - 1) :
                out' = out \cup {[row |-> cta[c].iter, pos |-> at[x], index |-> x] : x \in above}
          BY <4>2 DEF WritesAbove
        <5>2. PICK above \in SUBSET MyChunk(c) : \E at \in Bijection(above, outc .. outc + n - 1) :
                out' = out \cup {[row |-> cta[c].iter, pos |-> at[x], index |-> x] : x \in above}
          BY <5>1
        <5>3. PICK at \in Bijection(above, outc .. outc + n - 1) :
                out' = out \cup {[row |-> cta[c].iter, pos |-> at[x], index |-> x] : x \in above}
          BY <5>2
        <5>4. QED  BY <5>3
      <4>3. CASE WritesTie(c)
        <5>1. \E t : out' \in {out, out \cup {[row |-> cta[c].iter, pos |-> outc, index |-> t]}}
          BY <4>3 DEF WritesTie
        <5>2. QED  BY <5>1
      <4>4. QED  BY <1>1, <4>1, <4>2, <4>3, Writes
    <3>2. out \subseteq out'
      <4>1. CASE WritesNothing(c)  BY <4>1 DEF WritesNothing
      <4>2. CASE WritesAbove(c)  BY <4>2 DEF WritesAbove
      <4>3. CASE WritesTie(c)  BY <4>3 DEF WritesTie
      <4>4. QED  BY <1>1, <4>1, <4>2, <4>3, Writes
    <3>3. QED  BY <2>2, <3>1, <3>2 DEF Written
  <2>4. QED  BY <1>2, <2>1, <2>3 DEF IsTopK
<1>5. CASE ~\A d \in CTAs : cta[d].iter > i
  <2>1. ~(cta[c].iter > i) /\ \A d \in CTAs \ {c} : cta[d].iter > i  BY <1>2, <1>5
  <2>2. cta'[c].iter # cta[c].iter  BY <2>1
  <2>3. Leaves(c)
    <3>1. ~Quiet(c) /\ ~Opens(c) /\ ~Loads(c) /\ ~Selects(c) /\ ~Counts(c)
      BY <2>2 DEF Quiet, Opens, Loads, Selects, Counts
    <3>2. QED  BY <1>1, <3>1, Kinds DEF Adds, Clears
  <2>4. cta[c].iter = i
    <3>1. cta'[c].iter = cta[c].iter + 1  BY <2>3 DEF Leaves
    <3>2. cta[c].iter + 1 > i  BY <3>1
    <3>3. QED  BY <1>3, <2>1, <3>2
  <2>5. pc[c] = "ties" /\ pc'[c] = "row"  BY <2>3, <2>4 DEF Leaves
  <2>6. NextRow(c)
    <3>1. ~Tie(c)  BY <1>1, <2>5 DEF Tie
    <3>2. ~ResetOutput(c) /\ ~Collect(c) /\ ~PassFinal(c) /\ ~ShortRow(c) /\ ~Idle(c)
      BY <2>5 DEF ResetOutput, Collect, PassFinal, ShortRow, Idle
    <3>3. ~Astray(c)
      <4>1. Astray(c) => pc' = pc  BY <1>1, AstrayMoves
      <4>2. pc'[c] # pc[c]  BY <2>5
      <4>3. QED  BY <4>1, <4>2
    <3>4. QED  BY <1>1, <3>1, <3>2, <3>3, Turns
  <2>7. IsTopK(i)  BY <1>7, <2>1, <2>4, <2>6, LastLeaves
  <2>8. out' = out  BY <2>6 DEF NextRow
  <2>9. QED  BY <1>2, <2>7, <2>8 DEF IsTopK, Written
<1>6. QED  BY <1>4, <1>5

\* A CTA ends behind the last row or has none to share.
EndOK == \A c \in CTAs : pc[c] = "done" => cta[c].iter > Len(rows) \/ LargeRows = {}
LenOK == \A i \in DOMAIN rows : Len(rows[i]) <= maxLen

\* CTAs end where the loop ends, or at once when no row is large.
LEMMA EndNext ==
  ASSUME IInv, EndOK, LenOK, NEW c \in CTAs, Steps(c)
  PROVE  EndOK' /\ LenOK'
<1>1. TypeOK  BY DEF IInv
<1>2. /\ rows' = rows /\ LargeRows' = LargeRows
      /\ \A d \in CTAs \ {c} : pc'[d] = pc[d] /\ cta'[d] = cta[d]
  BY <1>1, Frame
<1>3. maxLen' = maxLen
  BY DEF Steps, Step, WaveStep, input, Start, ShortRow, LeaveLoop, LargeRow, PassInit, ResetOutput,
         ArriveRound, PassRound, Select, Collect, PassFinal, Tie, Overtake, Miss, NextRow, Add, Clear
<1>4. LenOK'  BY <1>2, <1>3 DEF LenOK
<1>5. ASSUME pc'[c] = "done" PROVE cta'[c].iter > Len(rows) \/ LargeRows = {}
  <2> USE DEF TypeOK, Goto
  <2>1. CASE Start(c)
    <3>1. ~Cooperative  BY <1>1, <1>5, <2>1 DEF Start
    <3>2. \A i \in DOMAIN rows : ~Large(rows[i])
      <4> TAKE i \in DOMAIN rows
      <4>1. Len(rows[i]) \in Nat /\ Len(rows[i]) <= maxLen  BY <1>1, RowType DEF LenOK
      <4>2. maxLen \in Nat /\ Threshold \in Nat  BY <1>1, KernelAssumption, LaunchAssumption
      <4>3. QED  BY <3>1, <4>1, <4>2 DEF Cooperative, Large
    <3>3. QED  BY <3>2 DEF LargeRows
  <2>2. CASE LeaveLoop(c)  BY <2>2 DEF LeaveLoop
  <2>3. CASE ~Start(c) /\ ~LeaveLoop(c)
    <3>1. pc[c] # "done"
      BY DEF Steps, Step, WaveStep, Start, ShortRow, LeaveLoop, LargeRow, PassInit, ResetOutput,
             ArriveRound, PassRound, Select, Collect, PassFinal, Tie, Overtake, Miss, NextRow, Add, Clear
    <3>2. pc'[c] # "done"
      <4>1. PassInit(c) \/ ResetOutput(c) \/ ArriveRound(c) \/ PassRound(c) => pc'[c] # "done"
        BY <1>1 DEF PassInit, ResetOutput, ArriveRound, PassRound
      <4>2. LargeRow(c) \/ Select(c) \/ Collect(c) \/ PassFinal(c) \/ NextRow(c) => pc'[c] # "done"
        BY <1>1 DEF LargeRow, Select, Collect, PassFinal, NextRow
      <4>3. ShortRow(c) \/ Tie(c) \/ (\E w \in WaveIds : WaveStep(c, w)) => pc' = pc
        BY DEF ShortRow, Tie, WaveStep, Add, Clear
      <4>4. Astray(c) => pc' = pc  BY <1>1, AstrayMoves
      <4>5. QED  BY <2>3, <3>1, <4>1, <4>2, <4>3, <4>4 DEF Steps, Step, Astray
    <3>3. QED  BY <1>5, <3>2
  <2>4. QED  BY <2>1, <2>2, <2>3
<1>6. QED  BY <1>2, <1>4, <1>5 DEF EndOK

-----------------------------------------------------------------------------
(* The invariant.                                                          *)

InRowOK == \A e \in out : e.pos < K

\* Both kinds of writes keep to the row.
LEMMA InRowNext ==
  ASSUME IInv, AgreeOK, SearchOK, SeenOK, InRowOK, NEW c \in CTAs, Steps(c)
  PROVE  InRowOK'
<1>1. CASE Collect(c) \/ Tie(c)
  <2>1. Tie(c) => \A e \in out' : e \in out \/ e.pos < K  BY DEF Tie
  <2>2. \A e \in out' : e \in out \/ e.pos < K  BY <1>1, <2>1, CollectSeen
  <2>3. QED  BY <2>2 DEF InRowOK
<1>2. CASE ~Collect(c) /\ ~Tie(c)
  <2>1. ResetOutput(c) \/ PassFinal(c) \/ NextRow(c) \/ ShortRow(c) => out' = out
    BY DEF ResetOutput, PassFinal, NextRow, ShortRow
  <2>2. out' = out  BY <1>2, <2>1, Turns, AstrayMoves DEF Idle, IInv
  <2>3. QED  BY <2>2 DEF InRowOK
<1>3. QED  BY <1>1, <1>2

\* CTAs end where they should and nothing is counted before somebody collects.
\* As long as no thread 0 has arrived early what has been seen is written and
\* stays in its row; without gaps, rows that all have left are done.
OutputInv ==
  /\ EndOK /\ LenOK /\ CountedOK
  /\ ~late => SeenOK /\ InRowOK
  /\ NoGap /\ ~late => DoneOK

\* It holds at the start ...
LEMMA OutputInit ==
  ASSUME Init PROVE OutputInv
<1>1. /\ out = {} /\ \A c \in CTAs : pc[c] \in {"start", "fallback"} /\ cta[c].iter = 1
      /\ \A i \in DOMAIN rows : Len(rows[i]) <= maxLen
  BY DEF Init
<1>2. TypeOK  BY InitInv DEF IInv
<1>3. EndOK /\ LenOK /\ InRowOK  BY <1>1 DEF EndOK, LenOK, InRowOK
<1>4. CountedOK  BY <1>1, CTAZero DEF CountedOK
<1>5. SeenOK  BY <1>1 DEF SeenOK, Collecting
<1>6. DoneOK
  <2>1. SUFFICES ASSUME NEW i \in LargeRows, cta[0].iter > i PROVE FALSE  BY CTAZero DEF DoneOK
  <2>2. i \in Nat \ {0}  BY <1>2, RowType DEF LargeRows
  <2>3. QED  BY <1>1, <2>1, <2>2, CTAZero
<1>7. QED  BY <1>3, <1>4, <1>5, <1>6 DEF OutputInv

\* ... and every step keeps it,
LEMMA OutputInvNext ==
  ASSUME IInv, IInv', SearchInv, SearchInv', OutputInv, [Next]_vars PROVE OutputInv'
<1>1. TypeOK  BY DEF IInv
<1>2. ASSUME NEW c \in CTAs, Steps(c) PROVE OutputInv'
  <2>1. (late => late') /\ (NoGap' <=> NoGap)  BY <1>1, <1>2, Frame
  <2>2. EndOK' /\ LenOK'  BY <1>2, EndNext DEF OutputInv
  <2>3. CountedOK'  BY <1>2, CountedNext DEF OutputInv
  <2>4. ASSUME ~late' PROVE (SeenOK /\ InRowOK)' /\ (NoGap => DoneOK')
    <3>1. AgreeOK /\ AgreeOK' /\ SearchOK  BY <2>1, <2>4 DEF SearchInv
    <3>2. SeenOK /\ InRowOK /\ CountedOK /\ (NoGap => DoneOK)  BY <2>1, <2>4 DEF OutputInv
    <3>3. SeenOK'  BY <1>2, <3>1, <3>2, SeenNext
    <3>4. InRowOK'  BY <1>2, <3>1, <3>2, InRowNext
    <3>5. NoGap => DoneOK'  BY <1>2, <3>1, <3>2, DoneNext
    <3>6. QED  BY <3>3, <3>4, <3>5
  <2>5. QED  BY <2>1, <2>2, <2>3, <2>4 DEF OutputInv
<1>3. CASE UNCHANGED vars
  <2>1. /\ rows' = rows /\ maxLen' = maxLen /\ outc' = outc /\ out' = out
        /\ pc' = pc /\ cta' = cta /\ late' = late /\ torn' = torn
    BY <1>3 DEF vars
  <2>2. LargeRows' = LargeRows  BY <2>1 DEF LargeRows
  <2>3. NoGap' <=> NoGap  BY <2>2 DEF NoGap, Adjacent
  <2>4. (EndOK' <=> EndOK) /\ (LenOK' <=> LenOK) /\ (CountedOK' <=> CountedOK) /\ (InRowOK' <=> InRowOK)
    BY <2>1, <2>2 DEF EndOK, LenOK, CountedOK, Begun, InRowOK
  <2>5. \A i, p : SeenAt(i, p)' <=> SeenAt(i, p)  BY <2>1 DEF SeenAt, Seen, Took, Written
  <2>10. \A i : Overtaken(i)' <=> Overtaken(i)  BY <2>1 DEF Overtaken
  <2>6. SeenOK' <=> SeenOK  BY <2>1, <2>5, <2>10 DEF SeenOK
  <2>7. \A i : IsTopK(i)' <=> IsTopK(i)  BY <2>1 DEF IsTopK, Written
  <2>8. DoneOK' <=> DoneOK  BY <2>1, <2>2, <2>7, <2>10 DEF DoneOK
  <2>9. QED  BY <2>1, <2>3, <2>4, <2>6, <2>8 DEF OutputInv
<1>4. Next => \E c \in CTAs : Steps(c)  BY DEF Next, Steps
<1>5. QED  BY <1>2, <1>3, <1>4

\* so it holds in every launch.
LEMMA OutputInvariance == Spec => []OutputInv
<1>1. Init => OutputInv  BY OutputInit
<1>2. IInv /\ IInv' /\ SearchInv /\ SearchInv' /\ OutputInv /\ [Next]_vars => OutputInv'
  BY OutputInvNext
<1>3. QED  BY <1>1, <1>2, Invariance, SearchInvariance, PTL DEF Spec

\* Collect writes without a bound, yet never past the K positions of its row:
\* a count that is too high only raises the pivot.
THEOREM WritesStayInRow == Spec => []WritesInRow
<1>1. OutputInv => WritesInRow  BY DEF OutputInv, InRowOK, WritesInRow
<1>2. QED  BY <1>1, OutputInvariance, PTL

\* When all CTAs are done, every large row in which no wave was overtaken has
\* its top k in the output.
THEOREM LargeRowsExact == Spec => []TopKExact
<1>1. IInv /\ OutputInv => TopKExact
  <2> SUFFICES ASSUME IInv, OutputInv, NoGap, ~late, \A c \in CTAs : pc[c] = "done",
                      NEW i \in LargeRows
               PROVE  Overtaken(i) \/ IsTopK(i)
    BY DEF TopKExact, RowsExact
  <2>1. TypeOK  BY DEF IInv
  <2>2. rows \in Seq(Seq(Keys))  BY <2>1, KernelAssumption DEF TypeOK
  <2>3. i \in Nat /\ i <= Len(rows) /\ Len(rows) \in Nat  BY <2>2 DEF LargeRows
  <2>4. \A c \in CTAs : cta[c].iter > i
    <3> TAKE c \in CTAs
    <3>1. cta[c].iter > Len(rows) /\ cta[c].iter \in Nat  BY <2>1 DEF OutputInv, EndOK, TypeOK
    <3>2. QED  BY <2>3, <3>1
  <2>5. QED  BY <2>4 DEF OutputInv, DoneOK
<1>2. QED  BY <1>1, Invariance, OutputInvariance, PTL


-----------------------------------------------------------------------------
(* Nobody waits for ever.                                                  *)

\* All CTAs are left to another kernel, or none and there is room for those
\* that wait for each other.
RoomOK ==
  \/ \A c \in CTAs : pc[c] = "fallback"
  \/ (\A c \in CTAs : pc[c] # "fallback") /\ (Cooperative => CtasPerGroup <= slots)

\* What was decided at the launch stays decided.
LEMMA RoomNext ==
  ASSUME TypeOK, RoomOK, NEW c \in CTAs, Steps(c)
  PROVE  RoomOK'
<1>1. \A d \in CTAs \ {c} : pc'[d] = pc[d]  BY OthersStay
<1>2. pc[c] # "fallback"
  BY DEF Steps, Step, WaveStep, Start, ShortRow, LeaveLoop, LargeRow, PassInit, ResetOutput,
         ArriveRound, PassRound, Select, Collect, PassFinal, Tie, Overtake, Miss, NextRow, Add, Clear
<1>3. maxLen' = maxLen /\ slots' = slots
  BY DEF Steps, Step, WaveStep, input, Start, ShortRow, LeaveLoop, LargeRow, PassInit, ResetOutput,
         ArriveRound, PassRound, Select, Collect, PassFinal, Tie, Overtake, Miss, NextRow, Add, Clear
<1>4. pc'[c] # "fallback"
  <2> USE DEF TypeOK, Goto
  <2>1. Start(c) \/ LeaveLoop(c) \/ PassInit(c) \/ ResetOutput(c) \/ ArriveRound(c) \/ PassRound(c)
          => pc'[c] # "fallback"
    BY DEF Start, LeaveLoop, PassInit, ResetOutput, ArriveRound, PassRound
  <2>2. LargeRow(c) \/ Select(c) \/ Collect(c) \/ PassFinal(c) \/ NextRow(c) => pc'[c] # "fallback"
    BY DEF LargeRow, Select, Collect, PassFinal, NextRow
  <2>3. ShortRow(c) \/ Tie(c) \/ (\E w \in WaveIds : WaveStep(c, w)) => pc' = pc
    BY DEF ShortRow, Tie, WaveStep, Add, Clear
  <2>4. Astray(c) => pc' = pc  BY AstrayMoves
  <2>5. QED  BY <1>2, <2>1, <2>2, <2>3, <2>4 DEF Steps, Step, Astray
<1>5. QED  BY <1>1, <1>2, <1>3, <1>4 DEF RoomOK, Cooperative

\* Whoever waits for a place gets one: those that wait at barriers all have
\* places, and without a large row nobody keeps a place.
LEMMA NoneUnplaced ==
  ASSUME TypeOK, PlaceOK, LenOK, RoomOK, \A c \in CTAs : Stuck(c), NEW d \in CTAs
  PROVE  pc[d] # "start"
<1> SUFFICES ASSUME pc[d] = "start" PROVE FALSE  OBVIOUS
<1>1. slots \in Nat \ {0} /\ Cardinality(Resident) >= slots
  BY KernelAssumption DEF Stuck, TypeOK, Waiting
<1>2. IsFiniteSet(CTAs) /\ Cardinality(CTAs) = CtasPerGroup /\ CtasPerGroup \in Nat
  BY CTAsFinite, Layout
<1>3. Resident \in SUBSET (CTAs \ {d})  BY DEF Resident
<1>4. CASE Cooperative
  <2>1. CtasPerGroup <= slots  BY <1>4 DEF RoomOK
  <2>2. IsFiniteSet(CTAs \ {d}) /\ Cardinality(CTAs \ {d}) = Cardinality(CTAs) - 1
    BY <1>2, FS_RemoveElement
  <2>3. IsFiniteSet(Resident) /\ Cardinality(Resident) <= Cardinality(CTAs \ {d})
    BY <1>3, <2>2, FS_Subset
  <2>4. Cardinality(Resident) \in Nat  BY <2>3, FS_CardinalityType
  <2>5. QED  BY <1>1, <1>2, <2>1, <2>2, <2>3, <2>4
<1>5. CASE ~Cooperative
  <2>1. LargeRows = {}
    <3>1. \A i \in DOMAIN rows : ~Large(rows[i])
      <4> TAKE i \in DOMAIN rows
      <4>1. Len(rows[i]) \in Nat /\ Len(rows[i]) <= maxLen  BY RowType DEF LenOK
      <4>2. maxLen \in Nat /\ Threshold \in Nat  BY KernelAssumption, LaunchAssumption DEF TypeOK
      <4>3. QED  BY <1>5, <4>1, <4>2 DEF Cooperative, Large
    <3>2. QED  BY <3>1 DEF LargeRows
  <2>2. \A c \in CTAs : pc[c] \notin AtRow  BY <2>1 DEF PlaceOK, PlaceAt
  <2>3. \A c \in CTAs : pc[c] \in {"start", "done", "fallback"}
    BY <2>2 DEF Stuck, Waiting, AtRow
  <2>4. Resident = {}  BY <2>3 DEF Resident
  <2>5. Cardinality(Resident) = 0  BY <2>4, FS_EmptySet
  <2>6. QED  BY <1>1, <2>5
<1>6. QED  BY <1>4, <1>5

\* A CTA that waits has come to a barrier that another has not come to.  That
\* one does not wait, so it has left; but who has left has come to all barriers.
LEMMA NoneWaits ==
  ASSUME IInv, EndOK, RoomOK, \A c \in CTAs : Stuck(c) /\ pc[c] # "start", NEW a \in CTAs
  PROVE  pc[a] \notin Waiting
<1> SUFFICES ASSUME pc[a] \in Waiting PROVE FALSE  OBVIOUS
<1>1. TypeOK /\ PlaceOK /\ BarrierOK /\ PlanOK  BY DEF IInv
<1>2. PICK b \in Nat : /\ Between(b)
                       /\ At(b + 1) # CTAs
                       /\ arrival = CtasPerGroup * b + Cardinality(At(b + 1))
  BY <1>1 DEF BarrierOK
<1>3. CtasPerGroup * b \in Nat /\ arrival >= CtasPerGroup * b
  <2>1. IsFiniteSet(CTAs) /\ CtasPerGroup \in Nat  BY CTAsFinite, Layout
  <2>2. At(b + 1) \in SUBSET CTAs  BY DEF At
  <2>3. IsFiniteSet(At(b + 1))  BY <2>1, <2>2, FS_Subset
  <2>4. Cardinality(At(b + 1)) \in Nat  BY <2>3, FS_CardinalityType
  <2>5. PICK y \in Nat, z \in Nat : y = CtasPerGroup * b /\ z = Cardinality(At(b + 1))
    BY <2>1, <2>4
  <2>6. QED  BY <1>2, <2>5
<1>4. ASSUME NEW c \in CTAs, pc[c] \in Waiting PROVE Arrived(c) = b + 1
  <2>1. PICK q \in Nat : q = phase[c] /\ Arrived(c) = q + 1  BY <1>1, <1>4 DEF Arrived, TypeOK
  <2>2. CASE q + 1 = b
    <3>1. (q + 1) * CtasPerGroup = CtasPerGroup * b  BY <2>2, Layout
    <3>2. Everyone(c)  BY <1>3, <2>1, <3>1 DEF Everyone
    <3>3. QED  BY <1>4, <3>2 DEF Stuck, Waiting
  <2>3. QED  BY <1>2, <2>1, <2>2 DEF Between
<1>5. PICK c \in CTAs : Arrived(c) = b  BY <1>2 DEF Between, At
<1>6. pc[c] = "done"
  <2>1. pc[c] \notin Waiting  BY <1>4, <1>5
  <2>2. pc[a] # "fallback"  BY DEF Waiting
  <2>3. pc[c] # "fallback"  BY <2>2 DEF RoomOK
  <2>4. QED  BY <2>1, <2>3 DEF Stuck
<1>7. pc[a] \in AtRow  BY DEF Waiting, AtRow
<1>8. PICK i \in LargeRows : i = cta[a].iter /\ i \in DOMAIN rows  BY <1>1, <1>7, AtRowType
<1>9. PICK j \in Nat \ {0} : j = cta[c].iter  BY <1>1 DEF TypeOK
<1>10. i < j
  <2>1. j > Len(rows)  BY <1>6, <1>8, <1>9 DEF EndOK
  <2>2. rows \in Seq(Seq(Keys))  BY <1>1, KernelAssumption DEF TypeOK
  <2>3. i \in Nat /\ i <= Len(rows) /\ Len(rows) \in Nat  BY <1>8, <2>2
  <2>4. QED  BY <2>1, <2>3
<1>11. Cardinality(Before(i)) + 1 <= Cardinality(Before(j))  BY <1>1, <1>10, BeforeGrows
<1>12. PICK n \in Nat, s \in 0 .. 6 : n = Cardinality(Before(i)) /\ Arrived(a) = 6 * n + s
  BY <1>1, <1>8, Planned
<1>13. PICK m \in Nat : m = Cardinality(Before(j)) /\ b = 6 * m
  <2>1. Stage(pc[c], cta[c].round) = 0  BY <1>1, <1>6, StageFact DEF AtRow
  <2>2. PICK m \in Nat : m = Cardinality(Before(j))  BY <1>1, <1>9, BeforeFact
  <2>3. QED  BY <1>1, <1>5, <1>9, <2>1, <2>2 DEF PlanOK, PlanAt
<1>14. Arrived(a) = b + 1  BY <1>4
<1>15. QED  BY <1>11, <1>12, <1>13, <1>14

\* Every launch has room or is another kernel's.
LEMMA RoomInvariance == Spec => []RoomOK
<1>1. Init => RoomOK
  <2> SUFFICES ASSUME Init PROVE RoomOK  OBVIOUS
  <2>1. slots \in Nat /\ CtasPerGroup \in Nat  BY KernelAssumption, Layout DEF Init
  <2>2. CASE Launched  BY <2>1, <2>2 DEF Init, RoomOK, Launched
  <2>3. CASE ~Launched  BY <2>3 DEF Init, RoomOK
  <2>4. QED  BY <2>2, <2>3
<1>2. TypeOK /\ RoomOK /\ [Next]_vars => RoomOK'
  <2> SUFFICES ASSUME TypeOK, RoomOK, [Next]_vars PROVE RoomOK'  OBVIOUS
  <2>1. CASE UNCHANGED vars  BY <2>1 DEF vars, RoomOK, Cooperative
  <2>2. Next => \E c \in CTAs : Steps(c)  BY DEF Next, Steps
  <2>3. QED  BY <2>1, <2>2, RoomNext
<1>3. QED  BY <1>1, <1>2, TypeCorrect, PTL DEF Spec

\* CTAs never all wait for a place or for each other, however many there are
\* and whatever rows some of them skip.
THEOREM NeverDeadlocked == Spec => []NoDeadlock
<1>1. IInv /\ OutputInv /\ RoomOK => NoDeadlock
  <2> SUFFICES ASSUME IInv, OutputInv, RoomOK, \A c \in CTAs : Stuck(c), NEW a \in CTAs
               PROVE  pc[a] \in {"done", "fallback"}
    BY DEF NoDeadlock, Ended
  <2>1. TypeOK /\ PlaceOK /\ EndOK /\ LenOK  BY DEF IInv, OutputInv
  <2>2. \A c \in CTAs : pc[c] # "start"  BY <2>1, NoneUnplaced
  <2>3. pc[a] \notin Waiting  BY <2>1, <2>2, NoneWaits
  <2>4. QED  BY <2>2, <2>3 DEF Stuck
<1>2. QED  BY <1>1, Invariance, OutputInvariance, RoomInvariance, PTL

=============================================================================
