--------------------- MODULE PersistentTopKSearchProofs ---------------------
(***************************************************************************)
(* Theorems about the radix search of PersistentTopK: where the CTAs of a  *)
(* row are while one of them searches, what the buffers hold while waves   *)
(* add to them, and that a histogram that is read counts every candidate   *)
(* once.                                                                   *)
(***************************************************************************)
EXTENDS PersistentTopKCounting

-----------------------------------------------------------------------------
(* Company: where the others are while a CTA searches. *)

\* A CTA that counts in a round.
Searching == {"round", "wait", "read"}
In(c) == pc[c] \in Searching

\* The barriers of the present row that a CTA has passed.
Entered(c) == Stage(pc[c], cta[c].round) - (IF pc[c] \in Waiting THEN 1 ELSE 0)

\* Once a CTA has passed the first barrier of a row every CTA is in that row,
\* not further apart than a barrier allows, or has left it when the last
\* barrier was passed.
CompanyOf(c, d) ==
  \/ /\ cta[d].iter = cta[c].iter /\ pc[d] \in AtRow
     /\ Entered(c) <= Stage(pc[d], cta[d].round) /\ Entered(d) <= Stage(pc[c], cta[c].round)
  \/ /\ cta[d].iter > cta[c].iter /\ pc[c] \in {"final", "ties"}
     /\ pc[d] \notin AtRow \ {"init"}

\* Stages and the barriers passed, place by place.
LEMMA StageFact ==
  ASSUME TypeOK, PlaceOK, NEW c \in CTAs
  PROVE  /\ cta[c].round \in 0 .. 4 /\ cta[c].iter \in Nat \ {0}
         /\ pc[c] = "init" => Stage(pc[c], cta[c].round) = 1 /\ Entered(c) = 0 /\ cta[c].round = 0
         /\ pc[c] = "reset" => Stage(pc[c], cta[c].round) = 1 /\ Entered(c) = 1 /\ cta[c].round = 0
         /\ pc[c] = "round" => /\ Stage(pc[c], cta[c].round) = 1 + cta[c].round
                               /\ Entered(c) = 1 + cta[c].round /\ cta[c].round \in 0 .. 3
         /\ pc[c] = "wait" => /\ Stage(pc[c], cta[c].round) = 2 + cta[c].round
                              /\ Entered(c) = 1 + cta[c].round /\ cta[c].round \in 0 .. 3
         /\ pc[c] = "read" => /\ Stage(pc[c], cta[c].round) = 2 + cta[c].round
                              /\ Entered(c) = 2 + cta[c].round /\ cta[c].round \in 0 .. 3
         /\ pc[c] = "collect" => Stage(pc[c], cta[c].round) = 5 /\ Entered(c) = 5 /\ cta[c].round = 4
         /\ pc[c] = "final" => Stage(pc[c], cta[c].round) = 6 /\ Entered(c) = 5 /\ cta[c].round = 4
         /\ pc[c] = "ties" => Stage(pc[c], cta[c].round) = 6 /\ Entered(c) = 6 /\ cta[c].round = 4
         /\ pc[c] \notin AtRow => Stage(pc[c], cta[c].round) = 0 /\ Entered(c) = 0
         /\ pc[c] \in AtRow => cta[c].iter \in LargeRows
         /\ Stage(pc[c], cta[c].round) = 6 => pc[c] \in {"final", "ties"}
         /\ Entered(c) = 0 => pc[c] \notin AtRow \ {"init"}
<1>1. PlaceAt(c)  BY DEF PlaceOK
<1>2. cta[c].round \in 0 .. 4 /\ cta[c].iter \in Nat \ {0}  BY DEF TypeOK, Rounds
<1>3. PICK r \in 0 .. 4 : r = cta[c].round  BY <1>2
<1>4. PICK p \in Places : p = pc[c]  BY DEF TypeOK
<1>5. /\ p \in {"init", "reset"} => r = 0
      /\ p \in {"round", "wait", "read"} => r \in 0 .. 3
      /\ p \in Collecting => r = 4
      /\ p \in AtRow => cta[c].iter \in LargeRows
  BY <1>1, <1>3, <1>4 DEF PlaceAt
<1>6. /\ p = "init" => Stage(p, r) = 1
      /\ p \in {"reset", "round"} => Stage(p, r) = 1 + r
      /\ p \in {"wait", "read"} => Stage(p, r) = 2 + r
      /\ p = "collect" => Stage(p, r) = 5
      /\ p \in {"final", "ties"} => Stage(p, r) = 6
      /\ p \notin AtRow => Stage(p, r) = 0
  BY DEF Stage, AtRow
<1>7. Entered(c) = Stage(p, r) - (IF p \in Waiting THEN 1 ELSE 0)  BY <1>3, <1>4 DEF Entered
<1>8. QED  BY <1>2, <1>3, <1>4, <1>5, <1>6, <1>7 DEF Waiting, Collecting, AtRow

\* It follows from the barrier and the plan.
LEMMA Company ==
  IInv => \A c, d \in CTAs : pc[c] \in AtRow \ {"init"} => CompanyOf(c, d)
<1> SUFFICES ASSUME IInv, NEW c \in CTAs, NEW d \in CTAs, pc[c] \in AtRow \ {"init"}
             PROVE  CompanyOf(c, d)
  OBVIOUS
<1>1. TypeOK /\ PlaceOK /\ BarrierOK /\ PlanOK  BY DEF IInv
<1>2. PICK n \in Nat, s \in 0 .. 6 :
        /\ n = Cardinality(Before(cta[c].iter))
        /\ s = Stage(pc[c], cta[c].round) /\ Arrived(c) = 6 * n + s
  BY <1>1, Planned
<1>3. PICK m \in Nat, t \in 0 .. 6 :
        /\ m = Cardinality(Before(cta[d].iter))
        /\ t = Stage(pc[d], cta[d].round) /\ Arrived(d) = 6 * m + t
  BY <1>1, Planned
<1>4. PICK x \in 0 .. 6, y \in 0 .. 6 : x = Entered(c) /\ y = Entered(d)
  <2>1. \A e \in CTAs : Entered(e) \in 0 .. 6
    <3> TAKE e \in CTAs
    <3>1. QED  BY <1>1, StageFact DEF AtRow
  <2>2. QED  BY <2>1
<1>5. phase[c] = 6 * n + x /\ phase[d] = 6 * m + y
  <2>1. phase[c] \in Nat /\ phase[d] \in Nat  BY <1>1 DEF TypeOK
  <2>2. phase[c] = 6 * n + x  BY <1>2, <1>4, <2>1 DEF Entered, Arrived
  <2>3. phase[d] = 6 * m + y  BY <1>3, <1>4, <2>1 DEF Entered, Arrived
  <2>4. QED  BY <2>2, <2>3
<1>6. 6 * n + x <= 6 * m + t /\ 6 * m + y <= 6 * n + s
  BY <1>1, <1>2, <1>3, <1>5, Apart
<1>7. x >= 1  BY <1>1, <1>4, StageFact DEF AtRow
<1>8. PICK i \in Nat \ {0}, j \in Nat \ {0} : i = cta[c].iter /\ j = cta[d].iter  BY <1>1 DEF TypeOK
<1>9. i \in LargeRows  BY <1>1, <1>8, StageFact
<1>10. i < j => n + 1 <= m  BY <1>1, <1>2, <1>3, <1>8, <1>9, BeforeGrows
<1>11. j \in LargeRows /\ j < i => m + 1 <= n  BY <1>1, <1>2, <1>3, <1>8, <1>9, BeforeGrows
<1>12. j <= i => m <= n
  <2>1. \A a \in Nat, k \in Nat : k \in Before(a) <=> k \in LargeRows /\ k < a  BY DEF Before
  <2>2. Before(j) \subseteq Nat  BY <1>1, RowType DEF Before, LargeRows
  <2>3. j <= i => Before(j) \subseteq Before(i)
    <3>1. j <= i => \A k \in Nat : k < j => k < i  BY <1>8
    <3>2. QED  BY <2>1, <2>2, <3>1
  <2>4. IsFiniteSet(Before(i))  BY <1>1, <1>8, BeforeFact
  <2>5. j <= i => Cardinality(Before(j)) <= Cardinality(Before(i))  BY <2>3, <2>4, FS_Subset
  <2>6. QED  BY <1>2, <1>3, <1>8, <2>5
<1>13. CASE m = n
  <2>1. t >= 1  BY <1>6, <1>7, <1>13
  <2>2. pc[d] \in AtRow  BY <1>1, <1>3, <2>1, StageFact
  <2>3. j \in LargeRows  BY <1>1, <1>8, <2>2, StageFact
  <2>4. i = j  BY <1>8, <1>10, <1>11, <1>13, <2>3
  <2>5. x <= t /\ y <= s  BY <1>6, <1>13
  <2>6. QED  BY <1>2, <1>3, <1>4, <1>8, <2>2, <2>4, <2>5 DEF CompanyOf
<1>14. CASE m > n
  <2>1. y = 0 /\ s = 6  BY <1>6, <1>14
  <2>2. j > i  BY <1>8, <1>12, <1>14
  <2>3. pc[c] \in {"final", "ties"}  BY <1>1, <1>2, <2>1, StageFact
  <2>4. pc[d] \notin AtRow \ {"init"}  BY <1>1, <1>4, <2>1, StageFact
  <2>5. QED  BY <1>8, <2>2, <2>3, <2>4 DEF CompanyOf
<1>15. CASE m < n  BY <1>6, <1>7, <1>15
<1>16. QED  BY <1>13, <1>14, <1>15

\* While a CTA counts, the others are at most a round away from it, in the
\* same row; the one that is behind has come to the barrier of its round.
PeerOf(c, d) ==
  /\ cta[d].iter = cta[c].iter /\ pc[d] \in AtRow
  /\ cta[d].round <= cta[c].round + 1 /\ cta[c].round <= cta[d].round + 1
  /\ cta[d].round = cta[c].round + 1 => pc[c] \in {"wait", "read"}
  /\ cta[c].round = cta[d].round + 1 => pc[d] \in {"wait", "read"}
  /\ pc[c] = "read" => /\ cta[d].round >= cta[c].round
                       /\ cta[d].round = cta[c].round => pc[d] \in {"wait", "read"}

\* It is what company comes to among the places of a search.
LEMMA Peers ==
  IInv => \A c, d \in CTAs : In(c) => PeerOf(c, d)
<1> SUFFICES ASSUME IInv, NEW c \in CTAs, NEW d \in CTAs, In(c) PROVE PeerOf(c, d)
  OBVIOUS
<1>1. TypeOK /\ PlaceOK  BY DEF IInv
<1>2. pc[c] \in AtRow \ {"init"} /\ pc[c] \notin {"final", "ties"}
  BY DEF In, Searching, AtRow
<1>3. /\ cta[d].iter = cta[c].iter /\ pc[d] \in AtRow
      /\ Entered(c) <= Stage(pc[d], cta[d].round) /\ Entered(d) <= Stage(pc[c], cta[c].round)
  BY <1>2, Company DEF CompanyOf
<1>4. PICK r \in 0 .. 4, q \in 0 .. 4 : r = cta[c].round /\ q = cta[d].round
  BY <1>1, StageFact
<1>5. PICK s, t, x, y : /\ s = Stage(pc[c], cta[c].round) /\ t = Stage(pc[d], cta[d].round)
                        /\ x = Entered(c) /\ y = Entered(d)
  OBVIOUS
<1>6. /\ pc[c] = "round" => s = 1 + r /\ x = 1 + r
      /\ pc[c] = "wait" => s = 2 + r /\ x = 1 + r
      /\ pc[c] = "read" => s = 2 + r /\ x = 2 + r
      /\ r \in 0 .. 3
  BY <1>1, <1>4, <1>5, StageFact DEF In, Searching
<1>7. /\ pc[d] \in {"init", "reset"} => t = 1 /\ y \in 0 .. 1 /\ q = 0
      /\ pc[d] = "round" => t = 1 + q /\ y = 1 + q
      /\ pc[d] = "wait" => t = 2 + q /\ y = 1 + q
      /\ pc[d] = "read" => t = 2 + q /\ y = 2 + q
      /\ pc[d] = "collect" => t = 5 /\ y = 5 /\ q = 4
      /\ pc[d] \in {"final", "ties"} => t = 6 /\ y \in 5 .. 6 /\ q = 4
  BY <1>1, <1>4, <1>5, StageFact
<1>8. x <= t /\ y <= s  BY <1>3, <1>5
<1>9. q <= r + 1 /\ (q = r + 1 => pc[c] \in {"wait", "read"})
  BY <1>3, <1>6, <1>7, <1>8 DEF AtRow, In, Searching
<1>10. r <= q + 1 /\ (r = q + 1 => pc[d] \in {"wait", "read"})
  BY <1>3, <1>6, <1>7, <1>8 DEF AtRow, In, Searching
<1>11. pc[c] = "read" => q >= r /\ (q = r => pc[d] \in {"wait", "read"})
  BY <1>3, <1>6, <1>7, <1>8 DEF AtRow
<1>12. QED  BY <1>3, <1>4, <1>9, <1>10, <1>11 DEF PeerOf

\* While a CTA collects, the others are about to, collect as well, or have
\* left the row when all had reserved their positions.
FellowOf(c, d) ==
  \/ /\ cta[d].iter = cta[c].iter /\ pc[d] \in {"wait", "read"} \cup Collecting
     /\ pc[d] \in {"wait", "read"} => cta[d].round = 3
     /\ pc[c] = "collect" => pc[d] # "ties"
     /\ pc[c] = "ties" => pc[d] \in {"final", "ties"}
  \/ /\ cta[d].iter > cta[c].iter /\ pc[c] \in {"final", "ties"}
     /\ pc[d] \notin AtRow \ {"init"}

\* And this among the places of collecting.
LEMMA Fellows ==
  IInv => \A c, d \in CTAs : pc[c] \in Collecting => FellowOf(c, d)
<1> SUFFICES ASSUME IInv, NEW c \in CTAs, NEW d \in CTAs, pc[c] \in Collecting PROVE FellowOf(c, d)
  OBVIOUS
<1>1. TypeOK /\ PlaceOK  BY DEF IInv
<1>2. pc[c] \in AtRow \ {"init"}  BY DEF Collecting, AtRow
<1>3. CompanyOf(c, d)  BY <1>2, Company
<1>4. CASE cta[d].iter > cta[c].iter /\ pc[c] \in {"final", "ties"} /\ pc[d] \notin AtRow \ {"init"}
  BY <1>4 DEF FellowOf
<1>5. CASE /\ cta[d].iter = cta[c].iter /\ pc[d] \in AtRow
           /\ Entered(c) <= Stage(pc[d], cta[d].round) /\ Entered(d) <= Stage(pc[c], cta[c].round)
  <2>1. PICK q \in 0 .. 4 : q = cta[d].round  BY <1>1, StageFact
  <2>2. PICK s, t, x, y : /\ s = Stage(pc[c], cta[c].round) /\ t = Stage(pc[d], cta[d].round)
                          /\ x = Entered(c) /\ y = Entered(d)
    OBVIOUS
  <2>3. /\ pc[c] = "collect" => s = 5 /\ x = 5
        /\ pc[c] = "final" => s = 6 /\ x = 5
        /\ pc[c] = "ties" => s = 6 /\ x = 6
    BY <1>1, <2>2, StageFact
  <2>4. /\ pc[d] \in {"init", "reset"} => t = 1
        /\ pc[d] = "round" => t = 1 + q /\ q <= 3
        /\ pc[d] \in {"wait", "read"} => t = 2 + q /\ q <= 3
        /\ pc[d] = "collect" => t = 5
        /\ pc[d] = "ties" => y = 6
    BY <1>1, <2>1, <2>2, StageFact
  <2>5. x <= t /\ y <= s /\ x \in 5 .. 6  BY <1>5, <2>2, <2>3 DEF Collecting
  <2>6. pc[d] \notin {"init", "reset", "round"}  BY <2>4, <2>5
  <2>7. pc[d] \in {"wait", "read"} => q = 3  BY <2>4, <2>5
  <2>8. pc[c] = "collect" => pc[d] # "ties"  BY <2>3, <2>4, <2>5
  <2>9. pc[c] = "ties" => pc[d] \notin {"wait", "read", "collect"}
    BY <2>3, <2>4, <2>5
  <2>10. QED  BY <1>5, <2>1, <2>6, <2>7, <2>8, <2>9 DEF FellowOf, AtRow, Collecting
<1>6. QED  BY <1>3, <1>4, <1>5 DEF CompanyOf

-----------------------------------------------------------------------------
(* What a step does to the search. *)

\* Nothing to the search: other places, ties, output.
Quiet(c) ==
  /\ hist' = hist
  /\ cta'[c].iter = cta[c].iter /\ cta'[c].round = cta[c].round
  /\ cta'[c].prefix = cta[c].prefix /\ cta'[c].remaining = cta[c].remaining
  /\ cta'[c].added = cta[c].added /\ cta'[c].cleared = cta[c].cleared
  /\ (pc'[c] \in Searching <=> pc[c] \in Searching)
  /\ (pc'[c] \in AtRow <=> pc[c] \in AtRow)
  /\ (pc'[c] \in {"init", "reset"} <=> pc[c] \in {"init", "reset"})
\* The first round begins.
Opens(c) == hist' = hist /\ cta' = cta /\ pc[c] \in {"init", "reset"} /\ pc'[c] = "round"
\* The CTA comes to a large row.
Loads(c) ==
  /\ hist' = hist /\ pc[c] = "row" /\ pc'[c] = "init"
  /\ cta'[c].iter = cta[c].iter /\ cta'[c].round = 0 /\ cta'[c].prefix = 0
  /\ cta'[c].remaining = K /\ cta'[c].added = {} /\ cta'[c].cleared = {}
\* It leaves a row.
Leaves(c) ==
  /\ hist' = hist /\ pc[c] \in {"row", "ties"} /\ pc'[c] = "row"
  /\ pc[c] = "row" => cta[c].iter \notin LargeRows
  /\ cta'[c].iter = cta[c].iter + 1
\* A round ends.
Selects(c) ==
  LET h == hist[Current(c)]
      k == cta[c].remaining
  IN  /\ hist' = hist /\ pc[c] = "read"
      /\ pc'[c] = IF cta[c].round = 3 THEN "collect" ELSE "round"
      /\ cta'[c].iter = cta[c].iter /\ cta'[c].round = cta[c].round + 1
      /\ cta'[c].prefix = cta[c].prefix + DigitOf(h, k) * Weight[cta[c].round]
      /\ cta'[c].remaining = LeftOf(h, k)
      /\ cta'[c].added = {} /\ cta'[c].cleared = {}
\* A wave adds or clears.
Counts(c) ==
  /\ pc' = pc /\ pc[c] \in {"round", "wait"}
  /\ cta'[c].iter = cta[c].iter /\ cta'[c].round = cta[c].round
  /\ cta'[c].prefix = cta[c].prefix /\ cta'[c].remaining = cta[c].remaining
Adds(c, w) ==
  /\ Counts(c) /\ w \notin cta[c].added
  /\ cta'[c].added = cta[c].added \cup {w} /\ cta'[c].cleared = cta[c].cleared
  /\ hist' = [hist EXCEPT ![Current(c)] =
       [b \in Buckets |-> IF b \in OfWave(w) THEN @[b] + LocalCount(c, b) ELSE @[b]]]
Clears(c, w) ==
  /\ c = 0 /\ Counts(c) /\ w \in cta[c].added \ cta[c].cleared
  /\ cta'[c].added = cta[c].added /\ cta'[c].cleared = cta[c].cleared \cup {w}
  /\ hist' = [hist EXCEPT ![Following(c)] =
       [b \in Buckets |-> IF b \in OfWave(w) THEN 0 ELSE @[b]]]

\* These are all.
LEMMA Kinds ==
  ASSUME TypeOK, PlaceOK, NEW c \in CTAs, Steps(c)
  PROVE  \/ Quiet(c) \/ Opens(c) \/ Loads(c) \/ Leaves(c) \/ Selects(c)
         \/ \E w \in WaveIds : Adds(c, w) \/ Clears(c, w)
<1> USE DEF TypeOK, input, state, Goto
<1>1. ASSUME Start(c) \/ LeaveLoop(c) \/ ArriveRound(c) \/ PassRound(c) PROVE Quiet(c)
  BY <1>1 DEF Start, LeaveLoop, ArriveRound, PassRound, Quiet, Searching, AtRow
<1>2. ASSUME Collect(c) \/ PassFinal(c) \/ Tie(c) PROVE Quiet(c)
  BY <1>2 DEF Collect, PassFinal, Tie, Quiet, Searching, AtRow
<1>3. ASSUME PassInit(c) PROVE Quiet(c) \/ Opens(c)
  BY <1>3 DEF PassInit, Quiet, Opens, Searching, AtRow
<1>4. ASSUME ResetOutput(c) PROVE Opens(c)
  BY <1>4 DEF ResetOutput, Opens
<1>5. ASSUME LargeRow(c) PROVE Loads(c)
  BY <1>5 DEF LargeRow, Loads
<1>6. ASSUME ShortRow(c) PROVE Leaves(c)
  <2>1. cta[c].iter \notin LargeRows  BY <1>6 DEF ShortRow, LargeRows, Row
  <2>2. QED  BY <1>6, <2>1 DEF ShortRow, Leaves
<1>7. ASSUME NextRow(c) PROVE Leaves(c)
  BY <1>7 DEF NextRow, Leaves
<1>8. ASSUME Select(c) PROVE Selects(c)
  <2> DEFINE h == hist[Current(c)]
             k == cta[c].remaining
  <2>1. cta' = [cta EXCEPT ![c].prefix = @ + DigitOf(h, k) * Weight[cta[c].round],
                           ![c].remaining = LeftOf(h, k),
                           ![c].round = @ + 1, ![c].added = {}, ![c].cleared = {}]
    BY <1>8 DEF Select, DigitOf, LeftOf
  <2>2. /\ cta'[c].iter = cta[c].iter /\ cta'[c].round = cta[c].round + 1
        /\ cta'[c].prefix = cta[c].prefix + DigitOf(h, k) * Weight[cta[c].round]
        /\ cta'[c].remaining = LeftOf(h, k)
        /\ cta'[c].added = {} /\ cta'[c].cleared = {}
    BY <2>1
  <2>3. hist' = hist  BY <1>8 DEF Select
  <2>4. QED  BY <1>8, <2>2, <2>3, SelectMoves DEF Selects
<1>9. ASSUME NEW w \in WaveIds, Add(c, w) PROVE Adds(c, w)
  BY <1>9 DEF Add, Adds, Counts
<1>10. ASSUME NEW w \in WaveIds, Clear(c, w) PROVE Clears(c, w)
  BY <1>10 DEF Clear, Clears, Counts
<1>11. ASSUME Astray(c) PROVE Quiet(c)
  BY <1>11, AstrayMoves, AstrayRegisters DEF Quiet, Searching, AtRow
<1>12. QED
  BY <1>1, <1>2, <1>3, <1>4, <1>5, <1>6, <1>7, <1>8, <1>9, <1>10, <1>11
  DEF Steps, Step, WaveStep, Astray

\* What no step changes, and what a step leaves to the others.
LEMMA Frame ==
  ASSUME TypeOK, NEW c \in CTAs, Steps(c)
  PROVE  /\ rows' = rows /\ LargeRows' = LargeRows /\ (NoGap' <=> NoGap) /\ (late => late')
         /\ \A d \in CTAs \ {c} : pc'[d] = pc[d] /\ cta'[d] = cta[d]
<1>1. rows' = rows /\ \A d \in CTAs \ {c} : pc'[d] = pc[d] /\ cta'[d] = cta[d]  BY OthersStay
<1>2. LargeRows' = LargeRows  BY <1>1 DEF LargeRows
<1>3. NoGap' <=> NoGap  BY <1>2 DEF NoGap, Adjacent
<1>4. late => late'
  <2>1. Start(c) \/ ShortRow(c) \/ LeaveLoop(c) \/ LargeRow(c) \/ PassInit(c) \/ ResetOutput(c) => late' = late
    BY DEF Start, ShortRow, LeaveLoop, LargeRow, PassInit, ResetOutput
  <2>2. PassRound(c) \/ Select(c) \/ Collect(c) \/ PassFinal(c) \/ Tie(c) \/ NextRow(c) => late' = late
    BY DEF PassRound, Select, Collect, PassFinal, Tie, NextRow
  <2>3. ArriveRound(c) /\ late => late'  BY DEF ArriveRound
  <2>4. \A w \in WaveIds : WaveStep(c, w) => late' = late  BY DEF WaveStep, Add, Clear
  <2>5. Astray(c) => late' = late  BY AstrayMoves
  <2>6. QED  BY <2>1, <2>2, <2>3, <2>4, <2>5 DEF Steps, Step, Astray
<1>5. QED  BY <1>1, <1>2, <1>3, <1>4

-----------------------------------------------------------------------------
(* The first parts of the invariant: blocks are ready, rounds start right, *)
(* and CTAs agree.                                                         *)

\* No thread 0 has arrived before its waves.
ReadyOK == \A c \in CTAs : pc[c] \in {"wait", "read"} => BlockReady(c)

\* A row is begun with nothing found, counted or cleared.
StartAt(c) ==
  pc[c] \in AtRow /\ cta[c].round = 0 =>
    /\ cta[c].prefix = 0 /\ cta[c].remaining = K
    /\ pc[c] \in {"init", "reset"} => cta[c].added = {} /\ cta[c].cleared = {}
StartOK == \A c \in CTAs : StartAt(c)

\* A block that waits has added and cleared, if its thread 0 never was early.
LEMMA ReadyNext ==
  ASSUME TypeOK, ReadyOK, NEW c \in CTAs, Steps(c), ~late'
  PROVE  ReadyOK'
<1>1. \A d \in CTAs \ {c} : pc'[d] = pc[d] /\ cta'[d] = cta[d]  BY Frame
<1>2. \A d \in CTAs \ {c} : pc'[d] \in {"wait", "read"} => BlockReady(d)'
  BY <1>1 DEF ReadyOK, BlockReady, WaveReady
<1>3. pc'[c] \in {"wait", "read"} => BlockReady(c)'
  <2> USE DEF TypeOK, Goto
  <2>1. CASE Start(c) \/ ShortRow(c) \/ LeaveLoop(c) \/ LargeRow(c) \/ PassInit(c) \/ ResetOutput(c)
    BY <2>1 DEF Start, ShortRow, LeaveLoop, LargeRow, PassInit, ResetOutput
  <2>2. CASE Collect(c) \/ PassFinal(c) \/ Tie(c) \/ NextRow(c)
    BY <2>2 DEF Collect, PassFinal, Tie, NextRow
  <2>3. CASE Select(c)
    <3>1. pc'[c] \in {"collect", "round"}  BY <2>3, SelectMoves
    <3>2. QED  BY <3>1
  <2>4. CASE ArriveRound(c)
    BY <2>4 DEF ArriveRound, BlockReady, WaveReady
  <2>5. CASE PassRound(c)
    BY <2>5 DEF PassRound, BlockReady, WaveReady
  <2>6. ASSUME NEW w \in WaveIds, WaveStep(c, w), pc'[c] \in {"wait", "read"} PROVE BlockReady(c)'
    <3>1. /\ pc' = pc /\ cta[c].added \subseteq cta'[c].added /\ cta[c].cleared \subseteq cta'[c].cleared
      BY <2>6, SMTT(40) DEF WaveStep, Add, Clear
    <3>2. QED  BY <2>6, <3>1 DEF ReadyOK, BlockReady, WaveReady
  <2>7. Astray(c) => pc'[c] \notin {"wait", "read"}  BY AstrayMoves
  <2>8. QED  BY <2>1, <2>2, <2>3, <2>4, <2>5, <2>6, <2>7 DEF Steps, Step, Astray
<1>4. QED  BY <1>2, <1>3 DEF ReadyOK

\* A search starts from nothing, with K left to find.
LEMMA StartNext ==
  ASSUME TypeOK, PlaceOK, StartOK, NEW c \in CTAs, Steps(c)
  PROVE  StartOK'
<1>1. \A d \in CTAs \ {c} : pc'[d] = pc[d] /\ cta'[d] = cta[d]  BY Frame
<1>2. \A d \in CTAs \ {c} : StartAt(d)'  BY <1>1 DEF StartOK, StartAt
<1>3. StartAt(c)  BY DEF StartOK
<1>4. StartAt(c)'
  <2>1. CASE Quiet(c)  BY <2>1, <1>3 DEF Quiet, StartAt
  <2>2. CASE Opens(c)  BY <2>2, <1>3 DEF Opens, StartAt, AtRow
  <2>3. CASE Loads(c)  BY <2>3 DEF Loads, StartAt
  <2>4. CASE Leaves(c)  BY <2>4 DEF Leaves, StartAt, AtRow
  <2>5. CASE Selects(c)
    <3>1. cta'[c].round = cta[c].round + 1 /\ cta[c].round \in 0 .. 4
      BY <2>5, StageFact DEF Selects
    <3>2. QED  BY <3>1 DEF StartAt
  <2>6. CASE Counts(c)  BY <2>6, <1>3 DEF Counts, StartAt, AtRow
  <2>7. QED  BY <2>1, <2>2, <2>3, <2>4, <2>5, <2>6, Kinds DEF Adds, Clears
<1>5. QED  BY <1>2, <1>4 DEF StartOK

\* CTAs at the same round have found the same, and one that is a round ahead
\* has found what the others will.
AgreeOn(c, d) ==
  pc[c] \in AtRow /\ pc[d] \in AtRow /\ cta[c].iter = cta[d].iter =>
    /\ cta[c].round = cta[d].round => cta[c].prefix = cta[d].prefix /\ cta[c].remaining = cta[d].remaining
    /\ In(c) /\ cta[d].round = cta[c].round + 1 =>
         /\ cta[d].prefix = cta[c].prefix
                              + DigitOf(hist[Current(c)], cta[c].remaining) * Weight[cta[c].round]
         /\ cta[d].remaining = LeftOf(hist[Current(c)], cta[c].remaining)
AgreeOK == \A c, d \in CTAs : AgreeOn(c, d)

\* The buffers of neighbouring rounds of a row differ.
LEMMA BuffersDiffer ==
  ASSUME TypeOK, PlaceOK, NEW c \in CTAs, NEW d \in CTAs, In(c), In(d), cta[d].iter = cta[c].iter
  PROVE  /\ Current(c) \in 0 .. 2 /\ Following(c) \in 0 .. 2
         /\ cta[d].round = cta[c].round => Current(d) = Current(c) /\ Following(c) # Current(d)
         /\ cta[d].round = cta[c].round + 1 => Current(d) # Current(c) /\ Current(d) = Following(c)
         /\ cta[c].round = cta[d].round + 1 => Current(d) # Current(c) /\ Following(c) # Current(d)
<1>1. PICK i \in Nat \ {0}, r \in 0 .. 3, q \in 0 .. 3 :
        i = cta[c].iter /\ r = cta[c].round /\ q = cta[d].round
  BY StageFact DEF In, Searching
<1>2. PICK x \in Nat : x = (i - 1) * 4  OBVIOUS
<1>3. /\ Current(c) = (x + r) % 3 /\ Current(d) = (x + q) % 3 /\ Following(c) = (x + r + 1) % 3
  BY <1>1, <1>2 DEF Current, Following, GlobalRound, Rounds
<1>4. /\ (x + r) % 3 \in 0 .. 2 /\ (x + r + 1) % 3 \in 0 .. 2
      /\ q = r => (x + r + 1) % 3 # (x + q) % 3
      /\ q = r + 1 => (x + q) % 3 # (x + r) % 3
      /\ r = q + 1 => (x + q) % 3 # (x + r) % 3 /\ (x + r + 1) % 3 # (x + q) % 3
  OBVIOUS
<1>5. q = r + 1 => x + q = x + r + 1  OBVIOUS
<1>6. QED  BY <1>1, <1>3, <1>4, <1>5

\* A wave that still has to add or clear belongs to the last round of anyone.
LEMMA NotBehind ==
  ASSUME IInv, ReadyOK, NEW c \in CTAs, NEW a \in CTAs, NEW w \in WaveIds,
         In(c), ~WaveReady(c, w)
  PROVE  /\ cta[a].iter = cta[c].iter /\ pc[a] \in AtRow
         /\ cta[a].round = cta[c].round \/ cta[c].round = cta[a].round + 1
<1>1. PeerOf(c, a)  BY Peers
<1>2. pc[c] \notin {"wait", "read"}  BY DEF ReadyOK, BlockReady
<1>3. cta[a].round # cta[c].round + 1  BY <1>1, <1>2 DEF PeerOf
<1>4. TypeOK /\ PlaceOK  BY DEF IInv
<1>5. PICK r \in 0 .. 4, q \in 0 .. 4 : r = cta[c].round /\ q = cta[a].round  BY <1>4, StageFact
<1>6. q <= r + 1 /\ r <= q + 1 /\ q # r + 1  BY <1>1, <1>3, <1>5 DEF PeerOf
<1>7. QED  BY <1>1, <1>5, <1>6 DEF PeerOf

\* So it changes no buffer that is read, and what is added goes to CTAs of the
\* same round only.
LEMMA Elsewhere ==
  ASSUME IInv, ReadyOK, NEW c \in CTAs, NEW a \in CTAs, NEW w \in WaveIds, In(a)
  PROVE  /\ Clears(c, w) => hist'[Current(a)] = hist[Current(a)]
         /\ Adds(c, w) => /\ In(c) /\ cta[a].iter = cta[c].iter
                          /\ \/ cta[a].round = cta[c].round
                             \/ /\ cta[c].round = cta[a].round + 1
                                /\ hist'[Current(a)] = hist[Current(a)]
<1>1. TypeOK /\ PlaceOK  BY DEF IInv
<1>2. hist \in [0 .. 2 -> [Buckets -> Nat]]  BY <1>1 DEF TypeOK
<1>3. ASSUME Clears(c, w) PROVE hist'[Current(a)] = hist[Current(a)]
  <2>1. In(c) /\ ~WaveReady(c, w)  BY <1>3 DEF Clears, Counts, In, Searching, WaveReady
  <2>2. /\ cta[a].iter = cta[c].iter
        /\ cta[a].round = cta[c].round \/ cta[c].round = cta[a].round + 1
    BY <2>1, NotBehind
  <2>3. Following(c) # Current(a)  BY <1>1, <2>1, <2>2, BuffersDiffer
  <2>4. Current(a) \in 0 .. 2
    <3>1. cta[a].iter = cta[a].iter  OBVIOUS
    <3>2. QED  BY <1>1, <3>1, BuffersDiffer
  <2>5. hist' = [hist EXCEPT ![Following(c)] = [b \in Buckets |-> IF b \in OfWave(w) THEN 0 ELSE @[b]]]
    BY <1>3 DEF Clears
  <2>6. PICK f, e : f = Following(c) /\ e = Current(a)  OBVIOUS
  <2>7. QED  BY <1>2, <2>3, <2>4, <2>5, <2>6
<1>4. ASSUME Adds(c, w)
      PROVE  /\ In(c) /\ cta[a].iter = cta[c].iter
             /\ \/ cta[a].round = cta[c].round
                \/ /\ cta[c].round = cta[a].round + 1
                   /\ hist'[Current(a)] = hist[Current(a)]
  <2>1. In(c) /\ ~WaveReady(c, w)  BY <1>4 DEF Adds, Counts, In, Searching, WaveReady
  <2>2. /\ cta[a].iter = cta[c].iter
        /\ cta[a].round = cta[c].round \/ cta[c].round = cta[a].round + 1
    BY <2>1, NotBehind
  <2>3. ASSUME cta[c].round = cta[a].round + 1 PROVE hist'[Current(a)] = hist[Current(a)]
    <3>1. Current(c) # Current(a) /\ Current(c) \in 0 .. 2  BY <1>1, <2>1, <2>2, <2>3, BuffersDiffer
    <3>2. PICK f : f = [b \in Buckets |-> IF b \in OfWave(w) THEN hist[Current(c)][b] + LocalCount(c, b)
                                                             ELSE hist[Current(c)][b]]
      OBVIOUS
    <3>3. hist' = [hist EXCEPT ![Current(c)] = f]  BY <1>4, <3>2 DEF Adds
    <3>4. Current(a) \in 0 .. 2
      <4>1. cta[a].iter = cta[a].iter  OBVIOUS
      <4>2. QED  BY <1>1, <4>1, BuffersDiffer
    <3>5. PICK e, g : e = Current(a) /\ g = Current(c)  OBVIOUS
    <3>6. QED  BY <1>2, <3>1, <3>3, <3>4, <3>5
  <2>4. QED  BY <2>1, <2>2, <2>3
<1>5. QED  BY <1>3, <1>4

\* The histogram of a round stays when a CTA has gone on to the next.
LEMMA BufferStays ==
  ASSUME IInv, ReadyOK, NEW c \in CTAs, Steps(c), NEW a \in CTAs, In(a),
         NEW d \in CTAs, cta[d].round = cta[a].round + 1
  PROVE  hist'[Current(a)] = hist[Current(a)]
<1>1. TypeOK /\ PlaceOK  BY DEF IInv
<1>2. CASE hist' = hist  BY <1>2
<1>3. ASSUME NEW w \in WaveIds, Clears(c, w) PROVE hist'[Current(a)] = hist[Current(a)]
  BY <1>3, Elsewhere
<1>4. ASSUME NEW w \in WaveIds, Adds(c, w) PROVE hist'[Current(a)] = hist[Current(a)]
  <2>1. /\ In(c) /\ cta[a].iter = cta[c].iter
        /\ cta[a].round = cta[c].round \/ hist'[Current(a)] = hist[Current(a)]
    BY <1>4, Elsewhere
  <2>2. ~WaveReady(c, w)  BY <1>4 DEF Adds, WaveReady
  <2>3. cta[d].round = cta[c].round \/ cta[c].round = cta[d].round + 1  BY <2>1, <2>2, NotBehind
  <2>4. cta[a].round \in 0 .. 4  BY <1>1, StageFact
  <2>5. cta[a].round # cta[c].round  BY <2>3, <2>4
  <2>6. QED  BY <2>1, <2>5
<1>5. QED  BY <1>1, <1>2, <1>3, <1>4, Kinds DEF Quiet, Opens, Loads, Leaves, Selects

\* Peers, after a step.
LEMMA PeersAfter == IInv' => (\A c, d \in CTAs : In(c) => PeerOf(c, d))'
<1>1. IInv => \A c, d \in CTAs : In(c) => PeerOf(c, d)  BY Peers
<1>2. QED  BY <1>1, PTL
\* Fellows, after a step.
LEMMA FellowsAfter == IInv' => (\A c, d \in CTAs : pc[c] \in Collecting => FellowOf(c, d))'
<1>1. IInv => \A c, d \in CTAs : pc[c] \in Collecting => FellowOf(c, d)  BY Fellows
<1>2. QED  BY <1>1, PTL

\* Every step keeps CTAs of a round in agreement: the one that selects later
\* finds the histogram the other has found.
LEMMA AgreeNext ==
  ASSUME IInv, IInv', ReadyOK, StartOK, AgreeOK, NEW c \in CTAs, Steps(c)
  PROVE  AgreeOK'
<1>1. TypeOK /\ PlaceOK  BY DEF IInv
<1>2. \A d \in CTAs \ {c} : pc'[d] = pc[d] /\ cta'[d] = cta[d]  BY <1>1, Frame
<1>3. \A d \in CTAs : cta[d].round \in 0 .. 4  BY <1>1, StageFact
<1>4. \A a \in CTAs : /\ cta'[a].iter = cta[a].iter /\ cta'[a].round = cta[a].round
                         => Current(a)' = Current(a)
  BY DEF Current, GlobalRound
<1>5. ASSUME NEW a \in CTAs \ {c}, NEW b \in CTAs \ {c} PROVE AgreeOn(a, b)'
  <2>1. AgreeOn(a, b)  BY DEF AgreeOK
  <2>2. pc'[a] = pc[a] /\ cta'[a] = cta[a] /\ pc'[b] = pc[b] /\ cta'[b] = cta[b]  BY <1>2
  <2>3. Current(a)' = Current(a)  BY <1>4, <2>2
  <2>4. In(a) /\ cta[b].round = cta[a].round + 1 => hist'[Current(a)] = hist[Current(a)]
    BY BufferStays
  <2>5. QED  BY <2>1, <2>2, <2>3, <2>4 DEF AgreeOn, In
<1>6. CASE Quiet(c) \/ Counts(c)
  <2>1. \A d \in CTAs : /\ cta'[d].iter = cta[d].iter /\ cta'[d].round = cta[d].round
                        /\ cta'[d].prefix = cta[d].prefix /\ cta'[d].remaining = cta[d].remaining
                        /\ (In(d)' <=> In(d)) /\ (pc'[d] \in AtRow <=> pc[d] \in AtRow)
    BY <1>2, <1>6 DEF Quiet, Counts, In
  <2>2. ASSUME NEW a \in CTAs, NEW b \in CTAs PROVE AgreeOn(a, b)'
    <3>1. AgreeOn(a, b)  BY DEF AgreeOK
    <3>2. Current(a)' = Current(a)  BY <1>4, <2>1
    <3>3. In(a) /\ cta[b].round = cta[a].round + 1 => hist'[Current(a)] = hist[Current(a)]
      BY BufferStays
    <3>4. QED  BY <2>1, <3>1, <3>2, <3>3 DEF AgreeOn
  <2>3. QED  BY <2>2 DEF AgreeOK
<1>7. CASE Opens(c)
  <2>1. cta' = cta /\ hist' = hist /\ \A d \in CTAs : pc'[d] \in AtRow <=> pc[d] \in AtRow
    BY <1>2, <1>7 DEF Opens, AtRow
  <2>2. ASSUME NEW a \in CTAs, NEW b \in CTAs PROVE AgreeOn(a, b)'
    <3>1. AgreeOn(a, b)  BY DEF AgreeOK
    <3>2. Current(a)' = Current(a)  BY <1>4, <2>1
    <3>3. CASE a # c
      <4>1. In(a)' <=> In(a)  BY <1>2, <3>3 DEF In
      <4>2. QED  BY <2>1, <3>1, <3>2, <4>1 DEF AgreeOn
    <3>4. CASE a = c
      <4>1. In(c)' /\ pc'[c] = "round"  BY <1>7 DEF Opens, In, Searching
      <4>2. PeerOf(c, b)'  BY <4>1, PeersAfter
      <4>3. cta'[b].round # cta'[a].round + 1  BY <3>4, <4>1, <4>2 DEF PeerOf
      <4>4. QED  BY <2>1, <3>1, <4>3 DEF AgreeOn
    <3>5. QED  BY <3>3, <3>4
  <2>3. QED  BY <2>2 DEF AgreeOK
<1>8. CASE Loads(c)
  <2>1. ~In(c)' /\ cta'[c].round = 0 /\ cta'[c].prefix = 0 /\ cta'[c].remaining = K
    BY <1>8 DEF Loads, In, Searching
  <2>2. ASSUME NEW a \in CTAs \ {c} PROVE AgreeOn(a, c)' /\ AgreeOn(c, a)'
    <3>1. pc[a] \in AtRow /\ cta[a].round = 0 => cta[a].prefix = 0 /\ cta[a].remaining = K
      BY DEF StartOK, StartAt
    <3>2. cta'[a] = cta[a] /\ pc'[a] = pc[a]  BY <1>2
    <3>3. cta'[c].round # cta'[a].round + 1  BY <1>3, <2>1, <3>2
    <3>4. QED  BY <2>1, <3>1, <3>2, <3>3 DEF AgreeOn
  <2>3. AgreeOn(c, c)'  BY <2>1 DEF AgreeOn
  <2>4. QED  BY <1>5, <2>2, <2>3 DEF AgreeOK
<1>9. CASE Leaves(c)
  <2>1. pc'[c] \notin AtRow  BY <1>9 DEF Leaves, AtRow
  <2>2. \A a \in CTAs : AgreeOn(a, c)' /\ AgreeOn(c, a)'  BY <2>1 DEF AgreeOn
  <2>3. QED  BY <1>5, <2>2 DEF AgreeOK
<1>10. CASE Selects(c)
  <2> DEFINE h == hist[Current(c)]
             k == cta[c].remaining
  <2>1. /\ hist' = hist /\ pc[c] = "read" /\ In(c) /\ pc[c] \in AtRow
        /\ cta'[c].iter = cta[c].iter /\ cta'[c].round = cta[c].round + 1
        /\ cta'[c].prefix = cta[c].prefix + DigitOf(h, k) * Weight[cta[c].round]
        /\ cta'[c].remaining = LeftOf(h, k)
    BY <1>10 DEF Selects, In, Searching, AtRow
  <2> HIDE DEF h, k
  <2>2. ASSUME NEW a \in CTAs \ {c}, pc'[a] \in AtRow, cta'[a].iter = cta'[c].iter
        PROVE  AgreeOn(a, c)' /\ AgreeOn(c, a)'
    <3>1. pc'[a] = pc[a] /\ cta'[a] = cta[a] /\ pc[a] \in AtRow /\ cta[a].iter = cta[c].iter
      BY <1>2, <2>1, <2>2
    <3>2. AgreeOn(c, a) /\ AgreeOn(a, c)  BY DEF AgreeOK
    <3>3. ASSUME cta'[a].round = cta'[c].round
          PROVE  cta'[a].prefix = cta'[c].prefix /\ cta'[a].remaining = cta'[c].remaining
      <4>1. cta[a].round = cta[c].round + 1  BY <2>1, <3>1, <3>3
      <4>2. QED  BY <2>1, <3>1, <3>2, <4>1 DEF AgreeOn, h, k
    <3>4. cta'[a].round # cta'[c].round + 1
      <4>1. PeerOf(c, a)  BY <2>1, Peers
      <4>2. QED  BY <1>3, <2>1, <3>1, <4>1 DEF PeerOf
    <3>5. ASSUME In(a)', cta'[c].round = cta'[a].round + 1
          PROVE  /\ cta'[c].prefix = cta'[a].prefix + DigitOf(hist'[Current(a)'], cta'[a].remaining)
                                                        * Weight[cta'[a].round]
                 /\ cta'[c].remaining = LeftOf(hist'[Current(a)'], cta'[a].remaining)
      <4>1. cta[a].round = cta[c].round  BY <1>3, <2>1, <3>1, <3>5
      <4>2. cta[a].prefix = cta[c].prefix /\ cta[a].remaining = cta[c].remaining
        BY <2>1, <3>1, <3>2, <4>1 DEF AgreeOn
      <4>3. Current(a)' = Current(c)  BY <3>1, <4>1 DEF Current, GlobalRound
      <4>4. QED  BY <2>1, <3>1, <4>1, <4>2, <4>3 DEF h, k
    <3>6. QED  BY <3>3, <3>4, <3>5 DEF AgreeOn
  <2>3. ASSUME NEW a \in CTAs PROVE AgreeOn(a, c)' /\ AgreeOn(c, a)'
    <3>1. CASE a # c  BY <2>2, <3>1 DEF AgreeOn
    <3>2. CASE a = c
      <4>1. cta'[c].round # cta'[c].round + 1  BY <1>3, <2>1
      <4>2. QED  BY <3>2, <4>1 DEF AgreeOn
    <3>3. QED  BY <3>1, <3>2
  <2>4. QED  BY <1>5, <2>3 DEF AgreeOK
<1>11. QED  BY <1>1, <1>6, <1>7, <1>8, <1>9, <1>10, Kinds DEF Adds, Clears

-----------------------------------------------------------------------------
(* Rounds of large rows are numbered; their buffers rotate.                *)

\* The number of a round of a large row, that of the round a CTA is at or
\* comes to next, and the buffer of a round.
Number(i, r) == 4 * Cardinality(Before(i)) + r
Behind(c) == Number(cta[c].iter, IF pc[c] \in AtRow THEN cta[c].round ELSE 0)
Buffer(i, r) == ((i - 1) * Rounds + r) % 3

\* A number tells the row and the round, and where no gap puts the rotation out
\* of step the buffers of three rounds in a row differ.
LEMMA Rotation ==
  ASSUME TypeOK, NEW i \in LargeRows, NEW j \in LargeRows, NEW r \in 0 .. 3, NEW s \in 0 .. 3,
         NEW more \in 0 .. 2, Number(j, s) = Number(i, r) + more
  PROVE  /\ Buffer(i, r) \in 0 .. 2
         /\ NoGap => Buffer(j, s) = (Buffer(i, r) + more) % 3
<1>1. LargeRows \subseteq Nat \ {0}  BY RowType DEF LargeRows
<1>2. PICK n \in Nat, m \in Nat : n = Cardinality(Before(i)) /\ m = Cardinality(Before(j))
  BY <1>1, BeforeFact
<1>3. 4 * m + s = 4 * n + r + more  BY <1>2 DEF Number
<1>4. i < j => n + 1 <= m  BY <1>1, <1>2, BeforeGrows
<1>5. j < i => m + 1 <= n  BY <1>1, <1>2, BeforeGrows
<1>6. i \in Nat \ {0} /\ j \in Nat \ {0}  BY <1>1
<1>7. PICK x \in Nat : x = (i - 1) * 4  BY <1>6
<1>8. Buffer(i, r) = (x + r) % 3 /\ (x + r) % 3 \in 0 .. 2  BY <1>7 DEF Buffer, Rounds
<1>9. CASE m = n
  <2>1. i = j /\ s = r + more  BY <1>3, <1>4, <1>5, <1>6, <1>9
  <2>2. Buffer(j, s) = (x + r + more) % 3  BY <1>7, <2>1 DEF Buffer, Rounds
  <2>3. (x + r + more) % 3 = (((x + r) % 3) + more) % 3  OBVIOUS
  <2>4. QED  BY <1>8, <2>2, <2>3
<1>10. CASE m = n + 1
  <2>1. i < j
    <3>1. ASSUME i = j PROVE FALSE
      <4>1. Before(i) = Before(j)  BY <3>1
      <4>2. m = n  BY <1>2, <4>1
      <4>3. QED  BY <1>10, <4>2
    <3>2. QED  BY <1>5, <1>6, <1>10, <3>1
  <2>2. Adjacent(i, j)
    <3>1. ASSUME NEW k \in LargeRows, i < k, k < j PROVE FALSE
      <4>1. PICK l \in Nat : l = Cardinality(Before(k))  BY <1>1, BeforeFact
      <4>2. n + 1 <= l  BY <1>1, <1>2, <3>1, <4>1, BeforeGrows
      <4>3. l + 1 <= m  BY <1>1, <1>2, <3>1, <4>1, BeforeGrows
      <4>4. QED  BY <1>10, <4>2, <4>3
    <3>2. \A k \in LargeRows : k <= i \/ k >= j  BY <1>1, <3>1
    <3>3. QED  BY <2>1, <3>2 DEF Adjacent
  <2>3. ASSUME NoGap PROVE Buffer(j, s) = (Buffer(i, r) + more) % 3
    <3>1. (j - i) % 3 = 1  BY <2>2, <2>3 DEF NoGap
    <3>2. PICK t \in Nat : j - i = 3 * t + 1
      <4>1. j - i \in Nat  BY <1>6, <2>1
      <4>2. (j - i) \div 3 \in Nat /\ j - i = 3 * ((j - i) \div 3) + 1  BY <3>1, <4>1
      <4>3. QED  BY <4>2
    <3>3. 4 + s = r + more  BY <1>3, <1>10
    <3>4. (j - 1) * 4 + s = x + r + more + 12 * t
      <4>1. (j - 1) * 4 = x + 12 * t + 4  BY <1>6, <1>7, <3>2
      <4>2. QED  BY <3>3, <4>1
    <3>5. Buffer(j, s) = (x + r + more + 12 * t) % 3  BY <3>4 DEF Buffer, Rounds
    <3>6. (x + r + more + 12 * t) % 3 = (((x + r) % 3) + more) % 3  OBVIOUS
    <3>7. QED  BY <1>8, <3>5, <3>6
  <2>4. QED  BY <1>8, <2>3
<1>11. m = n \/ m = n + 1  BY <1>3
<1>12. QED  BY <1>9, <1>10, <1>11

\* Where a CTA counts is its number, and its buffer that of the number.
LEMMA Numbered ==
  ASSUME TypeOK, PlaceOK, NEW c \in CTAs
  PROVE  /\ Behind(c) \in Nat
         /\ pc[c] \in AtRow => Behind(c) = Number(cta[c].iter, cta[c].round)
         /\ pc[c] \notin AtRow => Behind(c) = Number(cta[c].iter, 0)
         /\ In(c) => /\ cta[c].iter \in LargeRows /\ cta[c].round \in 0 .. 3
                     /\ Current(c) = Buffer(cta[c].iter, cta[c].round)
                     /\ Current(c) \in 0 .. 2
                     /\ Following(c) = (Current(c) + 1) % 3
<1>1. cta[c].round \in 0 .. 4 /\ cta[c].iter \in Nat \ {0}  BY StageFact
<1>2. PICK i \in Nat \ {0}, r \in 0 .. 4 : i = cta[c].iter /\ r = cta[c].round  BY <1>1
<1>3. Cardinality(Before(i)) \in Nat  BY BeforeFact
<1>4. /\ pc[c] \in AtRow => Behind(c) = Number(i, r)
      /\ pc[c] \notin AtRow => Behind(c) = Number(i, 0)
  BY <1>2 DEF Behind
<1>5. Number(i, r) \in Nat /\ Number(i, 0) \in Nat  BY <1>3 DEF Number
<1>6. Behind(c) \in Nat  BY <1>4, <1>5
<1>7. ASSUME In(c)
      PROVE  /\ i \in LargeRows /\ r \in 0 .. 3
             /\ Current(c) = Buffer(i, r) /\ Current(c) \in 0 .. 2
             /\ Following(c) = (Current(c) + 1) % 3
  <2>1. i \in LargeRows /\ r \in 0 .. 3  BY <1>2, <1>7, StageFact DEF In, Searching, AtRow
  <2>2. PICK x \in Nat : x = (i - 1) * 4 + r  BY <1>2
  <2>3. Current(c) = x % 3 /\ Following(c) = (x + 1) % 3
    BY <1>2, <2>2 DEF Current, Following, GlobalRound, Rounds
  <2>4. Current(c) = Buffer(i, r)  BY <1>2 DEF Current, GlobalRound, Buffer
  <2>5. x % 3 \in 0 .. 2 /\ (x + 1) % 3 = ((x % 3) + 1) % 3  OBVIOUS
  <2>6. QED  BY <2>1, <2>3, <2>4, <2>5
<1>8. QED  BY <1>2, <1>4, <1>6, <1>7

\* The buffer of the round that CTA 0 is at, and what it has cleared of the
\* next, is clean until a CTA counts there.
Claimed(i, r, b) ==
  \/ Number(i, r) = Behind(0)
  \/ Number(i, r) = Behind(0) + 1 /\ In(0) /\ WaveOf(b) \in cta[0].cleared
Untouched(i, r) == \A c \in CTAs : In(c) => Behind(c) < Number(i, r)
FreshAt(i, r, b) == Claimed(i, r, b) /\ Untouched(i, r) => hist[Buffer(i, r)][b] = 0
FreshOK == \A i \in LargeRows, r \in 0 .. 3, b \in Buckets : FreshAt(i, r, b)

\* Numbers of the others while a CTA counts.
LEMMA PeerNumbers ==
  ASSUME IInv, NEW c \in CTAs, In(c), NEW d \in CTAs
  PROVE  /\ Behind(d) <= Behind(c) + 1 /\ Behind(c) <= Behind(d) + 1
         /\ Behind(d) - Behind(c) = cta[d].round - cta[c].round
         /\ Behind(c) \in Nat /\ Behind(d) \in Nat
         /\ cta[c].round \in 0 .. 3 /\ cta[d].round \in 0 .. 4
<1>1. TypeOK /\ PlaceOK  BY DEF IInv
<1>2. PeerOf(c, d)  BY Peers
<1>3. pc[c] \in AtRow  BY DEF In, Searching, AtRow
<1>4. PICK i \in Nat \ {0} : i = cta[c].iter /\ i = cta[d].iter
  BY <1>1, <1>2, StageFact DEF PeerOf
<1>5. PICK n \in Nat : n = Cardinality(Before(i))  BY <1>1, BeforeFact
<1>6. PICK r \in 0 .. 4, q \in 0 .. 4 : r = cta[c].round /\ q = cta[d].round  BY <1>1, StageFact
<1>7. Behind(c) = 4 * n + r /\ Behind(d) = 4 * n + q
  BY <1>1, <1>2, <1>3, <1>4, <1>5, <1>6, Numbered DEF PeerOf, Number
<1>8. q <= r + 1 /\ r <= q + 1  BY <1>2, <1>6 DEF PeerOf
<1>9. r \in 0 .. 3  BY <1>1, <1>6, Numbered
<1>10. PICK x \in Nat, y \in Nat : x = Behind(c) /\ y = Behind(d) /\ x = 4 * n + r /\ y = 4 * n + q
  BY <1>7
<1>11. y <= x + 1 /\ x <= y + 1 /\ y - x = q - r  BY <1>8, <1>10
<1>12. QED  BY <1>6, <1>9, <1>10, <1>11

\* There is a CTA 0.
LEMMA CTAZero == 0 \in CTAs
<1>1. CtasPerGroup \in Nat \ {0}  BY Layout
<1>2. QED  BY <1>1 DEF CTAs

\* A buffer that is claimed and untouched stays clean: what others add goes to
\* buffers one or two rounds behind it.
LEMMA FreshNext ==
  ASSUME IInv, IInv', ReadyOK, StartOK, NoGap, FreshOK, NEW c \in CTAs, Steps(c)
  PROVE  FreshOK'
<1>1. TypeOK /\ PlaceOK  BY DEF IInv
<1>2. LargeRows' = LargeRows /\ \A d \in CTAs \ {c} : pc'[d] = pc[d] /\ cta'[d] = cta[d]
  BY <1>1, Frame
<1>3. 0 \in CTAs  BY CTAZero
<1>4. LargeRows \subseteq Nat \ {0}  BY <1>1, RowType DEF LargeRows
<1>5. \A i, r : Number(i, r)' = Number(i, r)  BY <1>2 DEF Number, Before
<1>6. \A d \in CTAs \ {c} : Behind(d)' = Behind(d) /\ (In(d)' <=> In(d))  BY <1>2, <1>5 DEF Behind, In
<1>7. \A d \in CTAs : Behind(d) \in Nat  BY <1>1, Numbered
<1> SUFFICES ASSUME NEW i \in LargeRows, NEW r \in 0 .. 3, NEW b \in Buckets,
                    Claimed(i, r, b)', Untouched(i, r)'
             PROVE  hist'[Buffer(i, r)][b] = 0
  BY <1>2 DEF FreshOK, FreshAt, Buffer
<1>8. Number(i, r) \in Nat
  <2>1. Cardinality(Before(i)) \in Nat  BY <1>1, <1>4, BeforeFact
  <2>2. QED  BY <2>1 DEF Number
<1>9. Claimed(i, r, b) /\ Untouched(i, r) => hist[Buffer(i, r)][b] = 0
  BY DEF FreshOK, FreshAt
<1>10. \/ Number(i, r) = Behind(0)'
       \/ Number(i, r) = Behind(0)' + 1 /\ In(0)' /\ WaveOf(b) \in cta'[0].cleared
  BY <1>5 DEF Claimed
<1>11. \A d \in CTAs : In(d)' => Behind(d)' < Number(i, r)  BY <1>5 DEF Untouched
<1>12. CASE Quiet(c)
  <2>1. \A d \in CTAs : Behind(d)' = Behind(d) /\ (In(d)' <=> In(d)) /\ cta'[d].cleared = cta[d].cleared
    BY <1>2, <1>5, <1>6, <1>12 DEF Quiet, Behind, In
  <2>2. Claimed(i, r, b) /\ Untouched(i, r)  BY <1>3, <1>10, <1>11, <2>1 DEF Claimed, Untouched
  <2>3. QED  BY <1>9, <1>12, <2>2 DEF Quiet
<1>13. CASE Opens(c)
  <2>1. /\ cta' = cta /\ hist' = hist /\ pc[c] \in AtRow /\ pc'[c] \in AtRow /\ ~In(c)
    BY <1>13 DEF Opens, AtRow, In, Searching
  <2>2. \A d \in CTAs : Behind(d)' = Behind(d) /\ (In(d) => In(d)')
    BY <1>2, <1>5, <1>6, <2>1 DEF Behind
  <2>3. c = 0 => cta[0].cleared = {}
    <3>1. cta[c].round = 0 /\ StartAt(c)  BY <1>1, <1>13, StageFact DEF Opens, StartOK
    <3>2. QED  BY <1>13, <2>1, <3>1 DEF Opens, StartAt
  <2>4. Claimed(i, r, b)  BY <1>3, <1>6, <1>10, <2>1, <2>2, <2>3 DEF Claimed
  <2>5. Untouched(i, r)  BY <1>11, <2>2 DEF Untouched
  <2>6. QED  BY <1>9, <2>1, <2>4, <2>5
<1>14. CASE Loads(c)
  <2>1. /\ ~In(c) /\ ~In(c)' /\ pc[c] \notin AtRow /\ pc'[c] \in AtRow /\ hist' = hist
        /\ cta'[c].iter = cta[c].iter /\ cta'[c].round = 0
    BY <1>14 DEF Loads, In, Searching, AtRow
  <2>2. Behind(c)' = Behind(c)  BY <1>5, <2>1 DEF Behind
  <2>3. \A d \in CTAs : Behind(d)' = Behind(d) /\ (In(d)' <=> In(d))  BY <1>6, <2>1, <2>2
  <2>4. In(0) => cta'[0].cleared = cta[0].cleared  BY <1>2, <1>3, <2>1
  <2>5. Claimed(i, r, b) /\ Untouched(i, r)  BY <1>3, <1>10, <1>11, <2>3, <2>4 DEF Claimed, Untouched
  <2>6. QED  BY <1>9, <2>1, <2>5
<1>15. CASE Leaves(c)
  <2>1. /\ ~In(c) /\ ~In(c)' /\ pc'[c] \notin AtRow /\ hist' = hist
        /\ cta'[c].iter = cta[c].iter + 1
    BY <1>15 DEF Leaves, In, Searching, AtRow
  <2>2. Behind(c)' = Behind(c)
    <3>1. PICK j \in Nat \ {0} : j = cta[c].iter  BY <1>1, StageFact
    <3>2. Behind(c)' = Number(j + 1, 0)  BY <1>5, <2>1, <3>1 DEF Behind
    <3>3. PICK n \in Nat : n = Cardinality(Before(j))  BY <1>1, BeforeFact
    <3>4. CASE pc[c] = "row"
      <4>1. Before(j + 1) = Before(j)  BY <1>1, <1>15, <3>1, <3>4, BeforeFact DEF Leaves
      <4>2. Behind(c) = Number(j, 0)  BY <3>1, <3>4 DEF Behind, AtRow
      <4>3. QED  BY <3>2, <4>1, <4>2 DEF Number
    <3>5. CASE pc[c] = "ties"
      <4>1. j \in LargeRows /\ cta[c].round = 4  BY <1>1, <3>1, <3>5, StageFact DEF AtRow
      <4>2. Cardinality(Before(j + 1)) = n + 1  BY <1>1, <3>3, <4>1, BeforeFact
      <4>3. Behind(c) = Number(j, 4)  BY <3>1, <3>5, <4>1 DEF Behind, AtRow
      <4>4. QED  BY <3>2, <3>3, <4>2, <4>3 DEF Number
    <3>6. QED  BY <1>15, <3>4, <3>5 DEF Leaves
  <2>3. \A d \in CTAs : Behind(d)' = Behind(d) /\ (In(d)' <=> In(d))  BY <1>6, <2>1, <2>2
  <2>4. In(0) => cta'[0].cleared = cta[0].cleared  BY <1>2, <1>3, <2>1
  <2>5. Claimed(i, r, b) /\ Untouched(i, r)  BY <1>3, <1>10, <1>11, <2>3, <2>4 DEF Claimed, Untouched
  <2>6. QED  BY <1>9, <2>1, <2>5
<1>16. ASSUME NEW w \in WaveIds, Adds(c, w) PROVE hist'[Buffer(i, r)][b] = 0
  <2>1. /\ pc' = pc /\ In(c) /\ cta'[c].iter = cta[c].iter /\ cta'[c].round = cta[c].round
        /\ cta'[c].cleared = cta[c].cleared
    BY <1>16 DEF Adds, Counts, In, Searching
  <2>2. \A d \in CTAs : Behind(d)' = Behind(d) /\ (In(d)' <=> In(d)) /\ cta'[d].cleared = cta[d].cleared
    BY <1>2, <1>5, <1>6, <2>1 DEF Behind, In
  <2>3. Claimed(i, r, b) /\ Untouched(i, r)  BY <1>3, <1>10, <1>11, <2>2 DEF Claimed, Untouched
  <2>4. Buffer(i, r) # Current(c)
    <3>1. PICK j \in LargeRows, s \in 0 .. 3 :
            /\ j = cta[c].iter /\ s = cta[c].round /\ Current(c) = Buffer(j, s)
            /\ Behind(c) = Number(j, s)
      BY <1>1, <2>1, Numbered DEF In, Searching, AtRow
    <3>2. Behind(0) <= Behind(c) + 1 /\ Behind(c) < Number(i, r)
      BY <1>3, <2>1, <2>3, PeerNumbers DEF Untouched
    <3>3. Number(i, r) = Behind(0) \/ Number(i, r) = Behind(0) + 1  BY <2>3 DEF Claimed
    <3>4. PICK more \in 0 .. 2 : Number(i, r) = Number(j, s) + more /\ more # 0
      <4>1. PICK x \in Nat, y \in Nat, z \in Nat : x = Behind(0) /\ y = Behind(c) /\ z = Number(i, r)
        BY <1>3, <1>7, <1>8
      <4>2. z - y \in 1 .. 2 /\ z = y + (z - y)  BY <3>2, <3>3, <4>1
      <4>3. QED  BY <3>1, <4>1, <4>2
    <3>5. Buffer(i, r) = (Buffer(j, s) + more) % 3 /\ Buffer(j, s) \in 0 .. 2
      BY <1>1, <3>4, Rotation
    <3>6. PICK x \in 0 .. 2 : x = Buffer(j, s)  BY <3>5
    <3>7. (x + more) % 3 # x
      <4>1. (x + more) % 3 = IF x + more < 3 THEN x + more ELSE x + more - 3  OBVIOUS
      <4>2. QED  BY <3>4, <4>1
    <3>8. QED  BY <3>1, <3>5, <3>6, <3>7
  <2>5. hist'[Buffer(i, r)] = hist[Buffer(i, r)]
    <3>1. PICK f : hist' = [hist EXCEPT ![Current(c)] = f]  BY <1>16 DEF Adds
    <3>2. hist \in [0 .. 2 -> [Buckets -> Nat]] /\ Current(c) \in 0 .. 2
      BY <1>1, <2>1, Numbered DEF TypeOK
    <3>3. Buffer(i, r) \in 0 .. 2
      <4>1. Number(i, r) = Number(i, r) + 0  BY <1>8
      <4>2. QED  BY <1>1, <4>1, Rotation
    <3>4. QED  BY <2>4, <3>1, <3>2, <3>3
  <2>6. QED  BY <1>9, <2>3, <2>5
<1>17. ASSUME NEW w \in WaveIds, Clears(c, w) PROVE hist'[Buffer(i, r)][b] = 0
  <2>1. /\ c = 0 /\ pc' = pc /\ In(c) /\ cta'[c].iter = cta[c].iter /\ cta'[c].round = cta[c].round
        /\ cta'[c].cleared = cta[c].cleared \cup {w}
    BY <1>17 DEF Clears, Counts, In, Searching
  <2>2. \A d \in CTAs : Behind(d)' = Behind(d) /\ (In(d)' <=> In(d))
    BY <1>5, <1>6, <2>1 DEF Behind, In
  <2>3. Untouched(i, r)  BY <1>11, <2>2 DEF Untouched
  <2>4. Following(c) \in 0 .. 2 /\ hist \in [0 .. 2 -> [Buckets -> Nat]]
    <3>1. cta[c].iter = cta[c].iter  OBVIOUS
    <3>2. QED  BY <1>1, <2>1, <3>1, BuffersDiffer DEF TypeOK
  <2>5. Buffer(i, r) \in 0 .. 2
    <3>1. Number(i, r) = Number(i, r) + 0  BY <1>8
    <3>2. QED  BY <1>1, <3>1, Rotation
  <2>6. PICK f : f = Following(c) /\ f \in 0 .. 2  BY <2>4
  <2>7. hist' = [hist EXCEPT ![f] = [x \in Buckets |-> IF x \in OfWave(w) THEN 0 ELSE @[x]]]
    BY <1>17, <2>6 DEF Clears
  <2>8. hist'[Buffer(i, r)][b] \in {hist[Buffer(i, r)][b], 0}  BY <2>4, <2>5, <2>6, <2>7
  <2>9. CASE Claimed(i, r, b)  BY <1>9, <2>3, <2>8, <2>9
  <2>10. CASE ~Claimed(i, r, b)
    <3>1. Number(i, r) = Behind(c) + 1 /\ WaveOf(b) = w
      BY <1>3, <1>10, <2>1, <2>2, <2>10 DEF Claimed
    <3>2. PICK j \in LargeRows, s \in 0 .. 3 :
            Current(c) = Buffer(j, s) /\ Behind(c) = Number(j, s) /\ Following(c) = (Current(c) + 1) % 3
      BY <1>1, <2>1, Numbered DEF In, Searching, AtRow
    <3>3. Number(i, r) = Number(j, s) + 1  BY <3>1, <3>2
    <3>4. Buffer(i, r) = (Buffer(j, s) + 1) % 3  BY <1>1, <3>3, Rotation
    <3>5. Buffer(i, r) = f  BY <2>6, <3>2, <3>4
    <3>6. b \in OfWave(w)  BY <3>1, OneWave
    <3>7. QED  BY <2>4, <2>6, <2>7, <3>5, <3>6
  <2>11. QED  BY <2>9, <2>10
<1>18. CASE Selects(c)
  <2>1. /\ hist' = hist /\ pc[c] = "read" /\ In(c) /\ pc[c] \in AtRow
        /\ pc'[c] = IF cta[c].round = 3 THEN "collect" ELSE "round"
        /\ cta'[c].iter = cta[c].iter /\ cta'[c].round = cta[c].round + 1
        /\ cta'[c].cleared = {}
    BY <1>18 DEF Selects, In, Searching, AtRow
  <2>2. pc'[c] \in AtRow /\ (In(c)' <=> cta[c].round # 3)  BY <2>1 DEF AtRow, In, Searching
  <2>3. Behind(c)' = Behind(c) + 1
    <3>1. PICK q \in 0 .. 3, j \in Nat \ {0} : q = cta[c].round /\ j = cta[c].iter
      BY <1>1, <2>1, Numbered, StageFact
    <3>2. PICK n \in Nat : n = Cardinality(Before(j))  BY <1>1, BeforeFact
    <3>3. Behind(c) = Number(j, q) /\ Behind(c)' = Number(j, q + 1)
      BY <1>5, <2>1, <2>2, <3>1 DEF Behind
    <3>4. QED  BY <3>2, <3>3 DEF Number
  <2>4. Behind(c) < Number(i, r)
    <3>1. CASE cta[c].round # 3
      <4>1. Behind(c) + 1 < Number(i, r)  BY <1>11, <2>2, <2>3, <3>1
      <4>2. QED  BY <1>7, <1>8, <4>1
    <3>2. CASE cta[c].round = 3 /\ c = 0
      <4>1. Number(i, r) = Behind(c) + 1 \/ Number(i, r) = Behind(c) + 2
        BY <1>7, <1>10, <2>3, <3>2
      <4>2. QED  BY <1>7, <1>8, <4>1
    <3>3. CASE cta[c].round = 3 /\ c # 0
      <4>1. Behind(0)' = Behind(0) /\ (In(0)' <=> In(0))  BY <1>3, <1>6, <3>3
      <4>2. PeerOf(c, 0)  BY <1>3, <2>1, Peers
      <4>3. /\ Behind(0) - Behind(c) = cta[0].round - cta[c].round /\ cta[0].round \in 0 .. 4
        BY <1>3, <2>1, PeerNumbers
      <4>4. cta[0].round >= cta[c].round /\ (cta[0].round = 3 => In(0))
        BY <2>1, <3>3, <4>2 DEF PeerOf, In, Searching
      <4>5. PICK x \in Nat, y \in Nat, z \in Nat, q \in 0 .. 4 :
              x = Behind(0) /\ y = Behind(c) /\ z = Number(i, r) /\ q = cta[0].round
        BY <1>3, <1>7, <1>8, <4>3
      <4>6. x - y = q - 3 /\ q >= 3 /\ (q = 3 => x < z)
        BY <1>3, <1>11, <3>3, <4>1, <4>3, <4>4, <4>5
      <4>7. z = x \/ z = x + 1  BY <1>10, <4>1, <4>5
      <4>8. y < z  BY <4>6, <4>7
      <4>9. QED  BY <4>5, <4>8
    <3>4. QED  BY <3>1, <3>2, <3>3
  <2>5. Untouched(i, r)  BY <1>6, <1>11, <2>4 DEF Untouched
  <2>6. Claimed(i, r, b)
    <3>1. CASE c # 0
      <4>1. Behind(0)' = Behind(0) /\ (In(0)' <=> In(0)) /\ cta'[0] = cta[0]  BY <1>2, <1>3, <1>6, <3>1
      <4>2. QED  BY <1>10, <4>1 DEF Claimed
    <3>2. CASE c = 0
      <4>1. Number(i, r) = Behind(0) + 1  BY <1>10, <2>1, <2>3, <3>2
      <4>2. WaveOf(b) \in cta[0].cleared
        <5>1. BlockReady(c)  BY <2>1 DEF ReadyOK
        <5>2. WaveOf(b) \in WaveIds  BY OneWave
        <5>3. QED  BY <3>2, <5>1, <5>2 DEF BlockReady, WaveReady
      <4>3. QED  BY <2>1, <3>2, <4>1, <4>2 DEF Claimed
    <3>3. QED  BY <3>1, <3>2
  <2>7. QED  BY <1>9, <2>1, <2>5, <2>6
<1>19. QED  BY <1>1, <1>12, <1>13, <1>14, <1>15, <1>16, <1>17, <1>18, Kinds


-----------------------------------------------------------------------------
(* What the histogram of a round counts while waves still add to it.       *)

\* A wave of CTA d has added its buckets for round r of row i.
Did(d, i, r, w) ==
  /\ cta[d].iter = i /\ pc[d] \in AtRow
  /\ cta[d].round > r \/ (cta[d].round = r /\ w \in cta[d].added)

\* The part of a bucket that has been added.
Part(i, p, r, b) ==
  {x \in Bucket(rows[i], p, r, b) :
     \E d \in CTAs : x \in Chunk(d, Len(rows[i])) /\ Did(d, i, r, WaveOf(b))}

\* The counters count no less, and without a gap between rows no more.
Filled(n, i, p, r) ==
  \A b \in Buckets : /\ hist[n][b] >= Cardinality(Part(i, p, r, b))
                     /\ NoGap => hist[n][b] = Cardinality(Part(i, p, r, b))
FilledAt(c) == Filled(Current(c), cta[c].iter, cta[c].prefix, cta[c].round)
FillOK == \A c \in CTAs : In(c) => FilledAt(c)

\* What has been added changes by an addition in the same round only.
LEMMA DidStays ==
  ASSUME IInv, ReadyOK, NEW c \in CTAs, Steps(c), NEW a \in CTAs, In(a),
         NEW i, NEW r \in 0 .. 3, i = cta[a].iter, r = cta[a].round,
         NEW d \in CTAs, NEW w \in WaveIds
  PROVE  /\ ~(d = c /\ Adds(c, w) /\ cta[c].round = r) => (Did(d, i, r, w)' <=> Did(d, i, r, w))
         /\ d = c /\ Adds(c, w) /\ cta[c].round = r => Did(d, i, r, w)' /\ ~Did(d, i, r, w)
<1>1. TypeOK /\ PlaceOK  BY DEF IInv
<1>2. PICK q \in 0 .. 4 : q = cta[c].round  BY <1>1, StageFact
<1>3. CASE d # c
  <2>1. pc'[d] = pc[d] /\ cta'[d] = cta[d]  BY <1>1, <1>3, Frame
  <2>2. Did(d, i, r, w)' <=> Did(d, i, r, w)  BY <2>1 DEF Did
  <2>3. QED  BY <1>3, <2>2
<1>4. CASE d = c
  <2>1. CASE Quiet(c)
    <3>1. ~Adds(c, w)
      <4>1. ASSUME Adds(c, w) PROVE FALSE
        <5>1. cta'[c].added = cta[c].added \cup {w} /\ w \notin cta[c].added  BY <4>1 DEF Adds
        <5>2. QED  BY <2>1, <5>1 DEF Quiet
      <4>2. QED  BY <4>1
    <3>2. QED  BY <1>4, <2>1, <3>1 DEF Quiet, Did
  <2>2. CASE Opens(c)
    <3>1. ~Adds(c, w)  BY <2>2 DEF Opens, Adds, Counts
    <3>2. QED  BY <1>4, <2>2, <3>1 DEF Opens, Did, AtRow
  <2>3. CASE Loads(c)
    <3>1. ~Adds(c, w)  BY <2>3 DEF Loads, Adds, Counts
    <3>2. ~Did(c, i, r, w)  BY <2>3 DEF Loads, Did, AtRow
    <3>3. cta'[c].round = 0 /\ w \notin cta'[c].added  BY <2>3 DEF Loads
    <3>4. ~Did(c, i, r, w)'  BY <3>3 DEF Did
    <3>5. QED  BY <1>4, <3>1, <3>2, <3>4
  <2>4. CASE Leaves(c)
    <3>1. ~Adds(c, w)  BY <2>4 DEF Leaves, Adds, Counts
    <3>2. ~Did(c, i, r, w)'  BY <2>4 DEF Leaves, Did, AtRow
    <3>3. ~Did(c, i, r, w)
      <4>1. CASE pc[c] = "row"  BY <4>1 DEF Did, AtRow
      <4>2. CASE pc[c] = "ties"
        <5>1. FellowOf(c, a)  BY <4>2, Fellows DEF Collecting
        <5>2. FALSE  BY <4>2, <5>1 DEF FellowOf, In, Searching, AtRow
        <5>3. QED  BY <5>2
      <4>3. QED  BY <2>4, <4>1, <4>2 DEF Leaves
    <3>4. QED  BY <1>4, <3>1, <3>2, <3>3
  <2>5. CASE Selects(c)
    <3>1. /\ pc[c] = "read" /\ In(c) /\ pc[c] \in AtRow /\ pc'[c] \in AtRow
          /\ cta'[c].iter = cta[c].iter /\ cta'[c].round = q + 1 /\ cta'[c].added = {}
      BY <1>2, <2>5 DEF Selects, In, Searching, AtRow
    <3>2. ~Adds(c, w)  BY <3>1 DEF Adds, Counts
    <3>3. PeerOf(c, a)  BY <3>1, Peers
    <3>4. cta[c].iter = i /\ r >= q /\ r <= q + 1  BY <1>2, <3>1, <3>3 DEF PeerOf
    <3>5. w \in cta[c].added  BY <3>1 DEF ReadyOK, BlockReady, WaveReady
    <3>6. Did(c, i, r, w) <=> q = r  BY <1>2, <3>1, <3>4, <3>5 DEF Did
    <3>7. Did(c, i, r, w)' <=> q + 1 > r
      <4>1. w \notin cta'[c].added /\ cta'[c].iter = i /\ cta'[c].round = q + 1  BY <3>1, <3>4
      <4>2. QED  BY <3>1, <4>1 DEF Did
    <3>8. QED  BY <1>4, <3>2, <3>4, <3>6, <3>7
  <2>6. ASSUME NEW v \in WaveIds, Clears(c, v)
        PROVE  ~Adds(c, w) /\ (Did(d, i, r, w)' <=> Did(d, i, r, w))
    <3>1. cta'[c].added = cta[c].added /\ Counts(c)  BY <2>6 DEF Clears
    <3>2. ~Adds(c, w)
      <4>1. ASSUME Adds(c, w) PROVE FALSE
        <5>1. cta'[c].added = cta[c].added \cup {w} /\ w \notin cta[c].added  BY <4>1 DEF Adds
        <5>2. QED  BY <3>1, <5>1
      <4>2. QED  BY <4>1
    <3>3. QED  BY <1>4, <3>1, <3>2 DEF Counts, Did
  <2>7. ASSUME NEW v \in WaveIds, Adds(c, v)
        PROVE  /\ ~(Adds(c, w) /\ q = r) => (Did(d, i, r, w)' <=> Did(d, i, r, w))
               /\ Adds(c, w) /\ q = r => Did(d, i, r, w)' /\ ~Did(d, i, r, w)
    <3>1. /\ cta'[c].added = cta[c].added \cup {v} /\ Counts(c) /\ cta[c].iter = i
          /\ v \notin cta[c].added
      BY <2>7, Elsewhere DEF Adds
    <3>2. /\ pc[c] \in AtRow /\ pc' = pc /\ cta'[c].iter = i /\ cta'[c].round = q
      BY <1>2, <3>1 DEF Counts, AtRow
    <3>3. Did(c, i, r, w) <=> q > r \/ (q = r /\ w \in cta[c].added)  BY <1>2, <3>1, <3>2 DEF Did
    <3>4. Did(c, i, r, w)' <=> q > r \/ (q = r /\ (w \in cta[c].added \/ w = v))
      BY <3>1, <3>2 DEF Did
    <3>5. CASE w = v
      <4>1. w \notin cta[c].added  BY <3>1, <3>5
      <4>2. Did(c, i, r, w) <=> q > r  BY <3>3, <4>1
      <4>3. Did(c, i, r, w)' <=> q > r \/ q = r  BY <3>4, <3>5
      <4>4. Adds(c, w)  BY <2>7, <3>5
      <4>5. QED  BY <1>4, <4>2, <4>3, <4>4
    <3>6. CASE w # v
      <4>1. ~Adds(c, w)
        <5>1. ASSUME Adds(c, w) PROVE FALSE
          <6>1. cta'[c].added = cta[c].added \cup {w} /\ w \notin cta[c].added  BY <5>1 DEF Adds
          <6>2. QED  BY <3>1, <3>6, <6>1
        <5>2. QED  BY <5>1
      <4>2. QED  BY <1>4, <3>3, <3>4, <3>6, <4>1
    <3>7. QED  BY <3>5, <3>6
  <2>8. QED  BY <1>1, <1>2, <1>4, <2>1, <2>2, <2>3, <2>4, <2>5, <2>6, <2>7, Kinds
<1>5. QED  BY <1>3, <1>4

\* What has been added is part of a bucket, and finite.
LEMMA PartFact ==
  ASSUME TypeOK, NEW i \in LargeRows, NEW p, NEW r \in 0 .. 3, NEW b
  PROVE  /\ rows[i] \in Seq(Keys) /\ i \in DOMAIN rows
         /\ Part(i, p, r, b) \subseteq Bucket(rows[i], p, r, b)
         /\ IsFiniteSet(Bucket(rows[i], p, r, b)) /\ IsFiniteSet(Part(i, p, r, b))
         /\ Cardinality(Part(i, p, r, b)) \in Nat
<1>1. i \in DOMAIN rows  BY DEF LargeRows
<1>2. rows[i] \in Seq(Keys)  BY <1>1, RowType
<1>3. IsFiniteSet(Bucket(rows[i], p, r, b))  BY <1>2, BucketFact
<1>4. Part(i, p, r, b) \subseteq Bucket(rows[i], p, r, b)  BY DEF Part
<1>5. IsFiniteSet(Part(i, p, r, b))  BY <1>3, <1>4, FS_Subset
<1>6. QED  BY <1>1, <1>2, <1>3, <1>4, <1>5, FS_CardinalityType

\* A wave that adds its buckets counts what its block has of each.
LEMMA PartGrows ==
  ASSUME IInv, ReadyOK, AgreeOK, NEW c \in CTAs, Steps(c), NEW a \in CTAs, In(a),
         NEW i \in LargeRows, NEW r \in 0 .. 3, NEW p, i = cta[a].iter, r = cta[a].round, p = cta[a].prefix,
         NEW b \in Buckets
  PROVE  /\ Cardinality(Part(i, p, r, b)') \in Nat /\ Cardinality(Part(i, p, r, b)) \in Nat
         /\ ~(Adds(c, WaveOf(b)) /\ cta[c].round = r) => Part(i, p, r, b)' = Part(i, p, r, b)
         /\ Adds(c, WaveOf(b)) /\ cta[c].round = r =>
              /\ LocalCount(c, b) \in Nat
              /\ Cardinality(Part(i, p, r, b)') = Cardinality(Part(i, p, r, b)) + LocalCount(c, b)
<1>1. TypeOK /\ PlaceOK  BY DEF IInv
<1>2. rows' = rows  BY <1>1, Frame
<1> DEFINE w == WaveOf(b)
           all == Bucket(rows[i], p, r, b)
           done(d) == Did(d, i, r, w)
           part == {x \in all : \E d \in CTAs : x \in Chunk(d, Len(rows[i])) /\ done(d)}
           part1 == {x \in all : \E d \in CTAs : x \in Chunk(d, Len(rows[i])) /\ done(d)'}
<1>3. w \in WaveIds  BY OneWave
<1>4. Part(i, p, r, b) = part  BY DEF Part
<1>5. Part(i, p, r, b)' = part1  BY <1>2 DEF Part
<1>6. /\ all \subseteq Indices(rows[i]) /\ IsFiniteSet(all) /\ i \in DOMAIN rows
  <2>1. rows[i] \in Seq(Keys) /\ i \in DOMAIN rows  BY <1>1, PartFact
  <2>2. QED  BY <2>1, BucketFact
<1>7. \A d \in CTAs : /\ ~(d = c /\ Adds(c, w) /\ cta[c].round = r) => (done(d)' <=> done(d))
                      /\ d = c /\ Adds(c, w) /\ cta[c].round = r => done(d)' /\ ~done(d)
  BY <1>3, DidStays
<1> HIDE DEF w, all, done
<1>8. IsFiniteSet(part) /\ IsFiniteSet(part1)
  <2>1. part \in SUBSET all /\ part1 \in SUBSET all  OBVIOUS
  <2>2. QED  BY <1>6, <2>1, FS_Subset
<1>9. ~(Adds(c, w) /\ cta[c].round = r) => part1 = part  BY <1>7
<1>10. ASSUME Adds(c, w), cta[c].round = r
       PROVE  /\ LocalCount(c, b) \in Nat
              /\ Cardinality(part1) = Cardinality(part) + LocalCount(c, b)
  <2> DEFINE own == {x \in all : x \in Chunk(c, Len(rows[i]))}
  <2>1. In(c) /\ cta[c].iter = i /\ pc[c] \in AtRow
    <3>1. In(c) /\ cta[a].iter = cta[c].iter  BY <1>3, <1>10, Elsewhere
    <3>2. QED  BY <3>1 DEF In, Searching, AtRow
  <2>2. cta[c].prefix = p
    <3>1. AgreeOn(c, a)  BY DEF AgreeOK
    <3>2. pc[a] \in AtRow  BY DEF In, Searching, AtRow
    <3>3. QED  BY <1>10, <2>1, <3>1, <3>2 DEF AgreeOn
  <2>3. Row(c) = rows[i] /\ MyChunk(c) = Chunk(c, Len(rows[i]))  BY <1>1, <2>1, AtRowType
  <2>4. own = InBucket(Row(c), MyChunk(c), cta[c].prefix, cta[c].round, b)
    <3>1. Chunk(c, Len(rows[i])) \subseteq Indices(rows[i])
      <4>1. Len(rows[i]) \in Nat  BY <1>1, <1>6, RowType
      <4>2. \A x \in Chunk(c, Len(rows[i])) : x \in Nat /\ x < Len(rows[i])  BY <4>1, ChunkFinite
      <4>3. QED  BY <4>1, <4>2 DEF Indices
    <3>2. QED  BY <1>10, <2>2, <2>3, <3>1 DEF all, Bucket, InBucket
  <2>5. LocalCount(c, b) = Cardinality(own)  BY <2>4 DEF LocalCount
  <2>6. LocalCount(c, b) \in Nat  BY <1>1, <2>1, LocalCountType
  <2>7. part1 = part \cup own  BY <1>7, <1>10
  <2>8. part \cap own = {}
    <3>1. SUFFICES ASSUME NEW x \in part, x \in own PROVE FALSE  OBVIOUS
    <3>2. PICK d \in CTAs : x \in Chunk(d, Len(rows[i])) /\ done(d)  BY <3>1
    <3>3. x \in Chunk(c, Len(rows[i]))  BY <3>1
    <3>4. d = c  BY <3>2, <3>3, ChunksDisjoint
    <3>5. QED  BY <1>7, <1>10, <3>2, <3>4
  <2>9. IsFiniteSet(own)
    <3>1. own \in SUBSET all  OBVIOUS
    <3>2. QED  BY <1>6, <3>1, FS_Subset
  <2> HIDE DEF own, part, part1
  <2>10. Cardinality(part \cup own) = Cardinality(part) + Cardinality(own) - Cardinality(part \cap own)
    BY <1>8, <2>9, FS_Union
  <2>11. Cardinality(part \cap own) = 0 /\ Cardinality(part) \in Nat /\ Cardinality(own) \in Nat
    BY <1>8, <2>8, <2>9, FS_EmptySet, FS_CardinalityType
  <2>12. PICK x \in Nat, y \in Nat : x = Cardinality(part) /\ y = Cardinality(own)  BY <2>11
  <2>13. Cardinality(part1) = x + y  BY <2>7, <2>10, <2>11, <2>12
  <2>14. QED  BY <2>5, <2>6, <2>12, <2>13
<1>11. QED  BY <1>4, <1>5, <1>8, <1>9, <1>10, FS_CardinalityType DEF w

\* The histogram of a round that a CTA is in stays filled.
LEMMA FillStays ==
  ASSUME IInv, ReadyOK, AgreeOK, FillOK, NEW c \in CTAs, Steps(c), NEW a \in CTAs, In(a),
         ~(a = c /\ Selects(c))
  PROVE  /\ cta'[a].iter = cta[a].iter /\ cta'[a].round = cta[a].round
         /\ cta'[a].prefix = cta[a].prefix
         /\ FilledAt(a)'
<1>1. TypeOK /\ PlaceOK  BY DEF IInv
<1>2. /\ cta'[a].iter = cta[a].iter /\ cta'[a].round = cta[a].round
      /\ cta'[a].prefix = cta[a].prefix
  <2>1. CASE a # c  BY <1>1, <2>1, Frame
  <2>2. CASE a = c
    <3>1. ~Opens(c) /\ ~Loads(c) /\ ~Leaves(c)
      BY <2>2 DEF Opens, Loads, Leaves, In, Searching
    <3>2. QED  BY <1>1, <2>2, <3>1, Kinds DEF Quiet, Adds, Clears, Counts
  <2>3. QED  BY <2>1, <2>2
<1>3. PICK i \in LargeRows, r \in 0 .. 3, p \in Nat, n \in 0 .. 2 :
        i = cta[a].iter /\ r = cta[a].round /\ p = cta[a].prefix /\ n = Current(a)
  BY <1>1, Numbered DEF TypeOK
<1>4. Current(a)' = n  BY <1>2, <1>3 DEF Current, GlobalRound
<1>5. NoGap' <=> NoGap  BY <1>1, Frame
<1>6. hist \in [0 .. 2 -> [Buckets -> Nat]]  BY <1>1 DEF TypeOK
<1>7. Filled(n, i, p, r)  BY <1>3 DEF FillOK, FilledAt
<1>8. ASSUME NEW b \in Buckets
      PROVE  /\ hist'[n][b] >= Cardinality(Part(i, p, r, b)')
             /\ NoGap => hist'[n][b] = Cardinality(Part(i, p, r, b)')
  <2>1. PICK w \in WaveIds : w = WaveOf(b) /\ b \in OfWave(w)  BY OneWave
  <2>2. /\ hist[n][b] >= Cardinality(Part(i, p, r, b))
        /\ NoGap => hist[n][b] = Cardinality(Part(i, p, r, b))
    BY <1>7 DEF Filled
  <2>3. /\ Cardinality(Part(i, p, r, b)') \in Nat /\ Cardinality(Part(i, p, r, b)) \in Nat
        /\ ~(Adds(c, w) /\ cta[c].round = r) => Part(i, p, r, b)' = Part(i, p, r, b)
        /\ Adds(c, w) /\ cta[c].round = r =>
              /\ LocalCount(c, b) \in Nat
              /\ Cardinality(Part(i, p, r, b)') = Cardinality(Part(i, p, r, b)) + LocalCount(c, b)
    BY <1>3, <2>1, PartGrows
  <2>4. CASE Adds(c, w) /\ cta[c].round = r
    <3>1. In(c) /\ cta[a].iter = cta[c].iter  BY <2>4, Elsewhere
    <3>2. Current(c) = n  BY <1>1, <1>3, <2>4, <3>1, BuffersDiffer
    <3>3. hist' = [hist EXCEPT ![n] = [x \in Buckets |->
             IF x \in OfWave(w) THEN @[x] + LocalCount(c, x) ELSE @[x]]]
      BY <2>4, <3>2 DEF Adds
    <3>4. hist'[n][b] = hist[n][b] + LocalCount(c, b)  BY <1>6, <2>1, <3>3
    <3>5. PICK x \in Nat, y \in Nat, z \in Nat :
            x = hist[n][b] /\ y = LocalCount(c, b) /\ z = Cardinality(Part(i, p, r, b))
      BY <1>6, <2>3, <2>4
    <3>6. QED  BY <2>2, <2>3, <2>4, <3>4, <3>5
  <2>5. CASE ~(Adds(c, w) /\ cta[c].round = r)
    <3>1. hist'[n][b] = hist[n][b]
      <4>1. CASE hist' = hist  BY <4>1
      <4>2. ASSUME NEW v \in WaveIds, Clears(c, v) PROVE hist'[n] = hist[n]
        BY <1>3, <4>2, Elsewhere
      <4>3. ASSUME NEW v \in WaveIds, Adds(c, v) PROVE hist'[n][b] = hist[n][b]
        <5>1. /\ In(c) /\ cta[a].iter = cta[c].iter
              /\ cta[c].round = r \/ hist'[n] = hist[n]
          BY <1>3, <4>3, Elsewhere
        <5>2. CASE cta[c].round = r
          <6>1. Current(c) = n  BY <1>1, <1>3, <5>1, <5>2, BuffersDiffer
          <6>2. v # w  BY <2>5, <4>3, <5>2
          <6>3. b \notin OfWave(v)  BY <2>1, <6>2, OneWave
          <6>4. hist' = [hist EXCEPT ![n] = [x \in Buckets |->
                   IF x \in OfWave(v) THEN @[x] + LocalCount(c, x) ELSE @[x]]]
            BY <4>3, <6>1 DEF Adds
          <6>5. QED  BY <1>6, <6>3, <6>4
        <5>3. QED  BY <5>1, <5>2
      <4>4. QED  BY <1>1, <4>1, <4>2, <4>3, Kinds DEF Quiet, Opens, Loads, Leaves, Selects
    <3>2. QED  BY <2>2, <2>3, <2>5, <3>1
  <2>6. QED  BY <2>4, <2>5
<1>9. Filled(n, i, p, r)'  BY <1>5, <1>8 DEF Filled
<1>10. QED  BY <1>2, <1>3, <1>4, <1>9 DEF FilledAt


\* A CTA that comes to a round finds others in it, whose histogram is filled,
\* or is the first, and finds the buffer clean.
LEMMA FillBegins ==
  ASSUME IInv, IInv', ReadyOK, StartOK, StartOK', AgreeOK, AgreeOK', FillOK, NoGap => FreshOK,
         NEW c \in CTAs, Steps(c), In(c)', Opens(c) \/ Selects(c)
  PROVE  FilledAt(c)'
<1>1. TypeOK /\ PlaceOK  BY DEF IInv
<1>2. TypeOK' /\ PlaceOK'  BY DEF IInv
<1>3. /\ rows' = rows /\ LargeRows' = LargeRows /\ (NoGap' <=> NoGap)
      /\ \A d \in CTAs \ {c} : pc'[d] = pc[d] /\ cta'[d] = cta[d]
  BY <1>1, Frame
<1>4. /\ hist' = hist /\ pc'[c] = "round" /\ pc[c] \in AtRow /\ cta'[c].iter = cta[c].iter
      /\ cta'[c].added = {} /\ pc'[c] \in AtRow
  <2>1. CASE Opens(c)
    <3>1. StartAt(c) /\ cta[c].round = 0  BY <1>1, <2>1, StageFact DEF Opens, StartOK
    <3>2. QED  BY <2>1, <3>1 DEF Opens, StartAt, AtRow
  <2>2. CASE Selects(c)
    <3>1. pc'[c] # "collect"  BY DEF In, Searching
    <3>2. QED  BY <2>2, <3>1 DEF Selects, AtRow
  <2>3. QED  BY <2>1, <2>2
<1>5. PICK i \in LargeRows, r \in 0 .. 3, p \in Nat, n \in 0 .. 2 :
        /\ i = cta'[c].iter /\ r = cta'[c].round /\ p = cta'[c].prefix /\ n = Current(c)'
        /\ n = Buffer(i, r)
  <2>1. cta'[c].iter \in LargeRows /\ cta'[c].round \in 0 .. 3 /\ cta'[c].prefix \in Nat
    <3>1. cta'[c].round \in 0 .. 3 /\ cta'[c].iter \in LargeRows
      BY <1>2, <1>3, <1>4 DEF PlaceOK, PlaceAt
    <3>2. QED  BY <1>2, <3>1 DEF TypeOK
  <2>2. Current(c)' = Buffer(cta'[c].iter, cta'[c].round)  BY DEF Current, GlobalRound, Buffer
  <2>3. PICK j \in Nat \ {0}, s \in 0 .. 3 : j = cta'[c].iter /\ s = cta'[c].round
    BY <1>2, <2>1 DEF TypeOK
  <2>4. Buffer(j, s) \in 0 .. 2
    <3>1. PICK x \in Nat : x = (j - 1) * 4 + s  BY <2>3
    <3>2. Buffer(j, s) = x % 3  BY <3>1 DEF Buffer, Rounds
    <3>3. QED  BY <3>2
  <2>5. QED  BY <2>1, <2>2, <2>3, <2>4
<1>6. \A d \in CTAs : /\ cta'[d].iter = i /\ pc'[d] \in AtRow /\ cta'[d].round <= r
                      /\ cta'[d].round = r => In(d)' \/ (r = 0 /\ cta'[d].added = {})
  <2> TAKE d \in CTAs
  <2>1. PeerOf(c, d)'  BY PeersAfter
  <2>2. PICK q \in Int : q = cta'[d].round  BY <1>2 DEF TypeOK, Rounds
  <2>3. q <= r + 1 /\ q # r + 1  BY <1>4, <1>5, <2>1, <2>2 DEF PeerOf
  <2>4. cta'[d].iter = i /\ pc'[d] \in AtRow  BY <1>5, <2>1 DEF PeerOf
  <2>5. ASSUME q = r, ~In(d)' PROVE r = 0 /\ cta'[d].added = {}
    <3>1. pc'[d] \in {"init", "reset"} \cup Collecting  BY <2>4, <2>5 DEF AtRow, Collecting, In, Searching
    <3>2. pc'[d] \in Collecting => cta'[d].round = 4  BY <1>2 DEF PlaceOK, PlaceAt
    <3>3. pc'[d] \in {"init", "reset"} => cta'[d].round = 0  BY <1>2 DEF PlaceOK, PlaceAt
    <3>4. pc'[d] \in {"init", "reset"} /\ r = 0  BY <2>2, <2>5, <3>1, <3>2, <3>3
    <3>5. QED  BY <2>2, <2>4, <2>5, <3>4 DEF StartOK, StartAt
  <2>6. QED  BY <2>2, <2>3, <2>4, <2>5
<1>7. CASE \E d \in CTAs \ {c} : In(d)' /\ cta'[d].round = r
  <2>1. PICK d \in CTAs \ {c} : In(d)' /\ cta'[d].round = r  BY <1>7
  <2>2. In(d)  BY <1>3, <2>1 DEF In
  <2>3. FilledAt(d)'  BY <2>2, FillStays
  <2>4. cta'[d].iter = i /\ pc'[d] \in AtRow  BY <1>6
  <2>5. cta'[d].prefix = p  BY <1>4, <1>5, <2>1, <2>4 DEF AgreeOK, AgreeOn
  <2>6. Current(d)' = Current(c)'  BY <1>5, <2>1, <2>4 DEF Current, GlobalRound
  <2>7. QED  BY <1>5, <2>1, <2>3, <2>4, <2>5, <2>6 DEF FilledAt
<1>8. CASE \A d \in CTAs \ {c} : ~(In(d)' /\ cta'[d].round = r)
  <2>1. \A d \in CTAs, w \in WaveIds : ~Did(d, i, r, w)'
    <3> TAKE d \in CTAs, w \in WaveIds
    <3>1. PICK q \in Int : q = cta'[d].round  BY <1>2 DEF TypeOK, Rounds
    <3>2. q <= r /\ (q = r => cta'[d].added = {})  BY <1>4, <1>5, <1>6, <1>8, <3>1
    <3>3. QED  BY <3>1, <3>2 DEF Did
  <2>2. \A b \in Buckets : Part(i, p, r, b)' = {}
    <3> TAKE b \in Buckets
    <3>1. WaveOf(b) \in WaveIds  BY OneWave
    <3>2. \A d \in CTAs : ~Did(d, i, r, WaveOf(b))'  BY <2>1, <3>1
    <3>3. QED  BY <3>2 DEF Part
  <2>3. ASSUME NoGap, NEW b \in Buckets PROVE hist[n][b] = 0
    <3>1. FreshAt(i, r, b)  BY <2>3 DEF FreshOK
    <3>2. 0 \in CTAs  BY CTAZero
    <3>3. PICK m \in Nat : m = Cardinality(Before(i))
      <4>1. i \in Nat \ {0}  BY <1>1, RowType DEF LargeRows
      <4>2. QED  BY <1>1, <4>1, BeforeFact
    <3>4. CASE Opens(c)
      <4>1. cta' = cta /\ r = 0 /\ ~In(c) /\ pc[c] \in {"init", "reset"} /\ pc[c] \in AtRow
        BY <1>1, <1>5, <3>4, StageFact DEF Opens, In, Searching, AtRow
      <4>2. \A d \in CTAs : pc[d] \in AtRow
        BY <1>3, <1>6, <4>1
      <4>3. \A d \in CTAs : cta[d].iter = i /\ cta[d].round = 0
        <5> TAKE d \in CTAs
        <5>1. PICK q \in 0 .. 4 : q = cta[d].round  BY <1>1, StageFact
        <5>2. q <= 0 /\ cta[d].iter = i  BY <1>6, <4>1, <5>1
        <5>3. QED  BY <5>1, <5>2
      <4>4. \A d \in CTAs : ~In(d)
        <5> TAKE d \in CTAs
        <5>1. d # c => (In(d) => In(d)')  BY <1>3 DEF In
        <5>2. d # c => cta'[d].round = r  BY <4>1, <4>3
        <5>3. QED  BY <1>8, <4>1, <5>1, <5>2
      <4>5. Behind(0) = Number(i, r)  BY <3>2, <4>1, <4>2, <4>3 DEF Behind
      <4>6. QED  BY <1>5, <3>1, <4>4, <4>5 DEF FreshAt, Claimed, Untouched
    <3>5. CASE Selects(c)
      <4>1. PICK q \in 0 .. 3 : q = cta[c].round /\ r = q + 1
        BY <1>1, <1>5, <3>5, StageFact DEF Selects
      <4>2. In(c) /\ pc[c] = "read" /\ cta[c].iter = i
        BY <1>4, <1>5, <3>5 DEF Selects, In, Searching
      <4>3. \A d \in CTAs : /\ cta[d].iter = i /\ pc[d] \in AtRow
                            /\ cta[d].round = q \/ cta[d].round = r
                            /\ cta[d].round = q => pc[d] \in {"wait", "read"}
        <5> TAKE d \in CTAs
        <5>1. PeerOf(c, d)  BY <4>2, Peers
        <5>2. PICK s \in 0 .. 4 : s = cta[d].round  BY <1>1, StageFact
        <5>3. s <= q + 1 /\ s >= q  BY <4>1, <4>2, <5>1, <5>2 DEF PeerOf
        <5>4. QED  BY <4>1, <4>2, <5>1, <5>2, <5>3 DEF PeerOf
      <4>4. Number(i, r) = Number(i, q) + 1 /\ Number(i, q) \in Nat  BY <3>3, <4>1 DEF Number
      <4>5. Untouched(i, r)
        <5>1. SUFFICES ASSUME NEW d \in CTAs, In(d) PROVE Behind(d) < Number(i, r)  BY DEF Untouched
        <5>2. cta[d].round = q
          <6>1. CASE d = c  BY <4>1, <6>1
          <6>2. CASE d # c
            <7>1. In(d)' /\ cta'[d].round = cta[d].round  BY <1>3, <5>1, <6>2 DEF In
            <7>2. QED  BY <1>8, <4>3, <6>2, <7>1
          <6>3. QED  BY <6>1, <6>2
        <5>3. Behind(d) = Number(i, q)  BY <4>3, <5>2 DEF Behind
        <5>4. QED  BY <4>4, <5>3
      <4>6. Claimed(i, r, b)
        <5>1. CASE cta[0].round = r
          <6>1. Behind(0) = Number(i, r)  BY <3>2, <4>3, <5>1 DEF Behind
          <6>2. QED  BY <6>1 DEF Claimed
        <5>2. CASE cta[0].round = q
          <6>1. Behind(0) = Number(i, q)  BY <3>2, <4>3, <5>2 DEF Behind
          <6>2. pc[0] \in {"wait", "read"}  BY <3>2, <4>3, <5>2
          <6>3. In(0)  BY <6>2 DEF In, Searching
          <6>4. WaveOf(b) \in WaveIds  BY OneWave
          <6>5. WaveOf(b) \in cta[0].cleared
            BY <3>2, <6>2, <6>4 DEF ReadyOK, BlockReady, WaveReady
          <6>6. QED  BY <4>4, <6>1, <6>3, <6>5 DEF Claimed
        <5>3. QED  BY <3>2, <4>3, <5>1, <5>2
      <4>7. QED  BY <1>5, <3>1, <4>5, <4>6 DEF FreshAt
    <3>6. QED  BY <3>4, <3>5
  <2>4. \A b \in Buckets : hist[n][b] \in Nat /\ Cardinality(Part(i, p, r, b)') = 0
    <3> TAKE b \in Buckets
    <3>1. Cardinality({}) = 0  BY FS_EmptySet
    <3>2. hist \in [0 .. 2 -> [Buckets -> Nat]]  BY <1>1 DEF TypeOK
    <3>3. QED  BY <2>2, <3>1, <3>2
  <2>5. Filled(n, i, p, r)'  BY <1>3, <1>4, <2>3, <2>4 DEF Filled
  <2>6. QED  BY <1>5, <2>5 DEF FilledAt
<1>9. QED  BY <1>7, <1>8

\* Every step keeps a histogram of a round at what has been added.
LEMMA FillNext ==
  ASSUME IInv, IInv', ReadyOK, StartOK, StartOK', AgreeOK, AgreeOK', FillOK, NoGap => FreshOK,
         NEW c \in CTAs, Steps(c)
  PROVE  FillOK'
<1>1. TypeOK /\ PlaceOK  BY DEF IInv
<1> SUFFICES ASSUME NEW a \in CTAs, In(a)' PROVE FilledAt(a)'  BY DEF FillOK
<1>2. CASE In(a) /\ ~(a = c /\ Selects(c))  BY <1>2, FillStays
<1>3. CASE ~In(a) \/ (a = c /\ Selects(c))
  <2>1. a = c
    <3>1. a # c => (In(a)' <=> In(a))  BY <1>1, Frame DEF In
    <3>2. QED  BY <1>3, <3>1
  <2>2. Opens(c) \/ Selects(c)
    <3>1. In(c)' /\ (~In(c) \/ Selects(c))  BY <1>3, <2>1
    <3>2. Quiet(c) => In(c)  BY <3>1 DEF Quiet, In
    <3>3. ~Loads(c) /\ ~Leaves(c)  BY <3>1 DEF Loads, Leaves, In, Searching
    <3>4. Counts(c) => In(c)  BY DEF Counts, In, Searching
    <3>5. QED  BY <1>1, <3>1, <3>2, <3>3, <3>4, Kinds DEF Adds, Clears
  <2>3. QED  BY <2>1, <2>2, FillBegins
<1>4. QED  BY <1>2, <1>3

\* When a CTA reads, all have added all they have.
LEMMA ReadsAll ==
  ASSUME IInv, ReadyOK, FillOK, NEW c \in CTAs, pc[c] = "read"
  PROVE  /\ hist[Current(c)] \in [Buckets -> Nat]
         /\ \A b \in Buckets :
              /\ hist[Current(c)][b] >= Cardinality(Bucket(Row(c), cta[c].prefix, cta[c].round, b))
              /\ NoGap => hist[Current(c)][b]
                           = Cardinality(Bucket(Row(c), cta[c].prefix, cta[c].round, b))
<1>1. TypeOK /\ PlaceOK  BY DEF IInv
<1>2. In(c) /\ pc[c] \in AtRow  BY DEF In, Searching, AtRow
<1>3. PICK i \in LargeRows, r \in 0 .. 3, p \in Nat, n \in 0 .. 2 :
        i = cta[c].iter /\ r = cta[c].round /\ p = cta[c].prefix /\ n = Current(c)
  BY <1>1, <1>2, Numbered DEF TypeOK
<1>4. Row(c) = rows[i] /\ i \in DOMAIN rows  BY <1>1, <1>2, <1>3, AtRowType
<1>5. Len(rows[i]) \in 0 .. Stride /\ Len(rows[i]) \in Nat /\ rows[i] \in Seq(Keys)
  <2>1. Len(rows[i]) \in 1 .. Stride /\ rows[i] \in Seq(Keys)  BY <1>1, <1>4, RowType
  <2>2. Stride \in Nat  BY LaunchAssumption
  <2>3. QED  BY <2>1, <2>2
<1>6. \A d \in CTAs, w \in WaveIds : Did(d, i, r, w)
  <2> TAKE d \in CTAs, w \in WaveIds
  <2>1. PeerOf(c, d)  BY <1>2, Peers
  <2>2. PICK q \in 0 .. 4 : q = cta[d].round  BY <1>1, StageFact
  <2>3. q = r => w \in cta[d].added
    BY <1>3, <2>1, <2>2 DEF PeerOf, ReadyOK, BlockReady, WaveReady
  <2>4. q >= r  BY <1>3, <2>1, <2>2 DEF PeerOf
  <2>5. q > r \/ q = r  BY <2>4
  <2>6. QED  BY <1>3, <2>1, <2>2, <2>3, <2>5 DEF Did, PeerOf
<1>7. ASSUME NEW b \in Buckets PROVE Part(i, p, r, b) = Bucket(rows[i], p, r, b)
  <2>1. WaveOf(b) \in WaveIds  BY OneWave
  <2>2. ASSUME NEW x \in Bucket(rows[i], p, r, b) PROVE \E d \in CTAs : x \in Chunk(d, Len(rows[i]))
    <3>1. x \in Indices(rows[i])  BY <1>5, <2>2, BucketFact
    <3>2. x \in Nat /\ x < Len(rows[i])  BY <1>5, <3>1 DEF Indices
    <3>3. QED  BY <1>5, <3>2, ChunksCover
  <2>3. QED  BY <1>6, <2>1, <2>2 DEF Part
<1>8. Filled(n, i, p, r)  BY <1>2, <1>3 DEF FillOK, FilledAt
<1>9. hist[n] \in [Buckets -> Nat]  BY <1>1 DEF TypeOK
<1>10. QED  BY <1>3, <1>4, <1>7, <1>8, <1>9 DEF Filled

-----------------------------------------------------------------------------
(* The search stays within the bound.                                      *)

SearchAt(c) ==
  pc[c] \in AtRow =>
    /\ Bounded(Row(c), cta[c].prefix, cta[c].round, cta[c].remaining)
    /\ NoGap => Exact(Row(c), cta[c].prefix, cta[c].round, cta[c].remaining)
SearchOK == \A c \in CTAs : SearchAt(c)

\* Every step keeps the search between its bounds.
LEMMA SearchNext ==
  ASSUME IInv, IInv', ReadyOK, FillOK, SearchOK, NEW c \in CTAs, Steps(c)
  PROVE  SearchOK'
<1>1. TypeOK /\ PlaceOK /\ PlaceOK'  BY DEF IInv
<1>2. /\ rows' = rows /\ LargeRows' = LargeRows /\ (NoGap' <=> NoGap)
      /\ \A d \in CTAs \ {c} : pc'[d] = pc[d] /\ cta'[d] = cta[d]
  BY <1>1, Frame
<1>3. \A d \in CTAs \ {c} : SearchAt(d)'  BY <1>2 DEF SearchOK, SearchAt, Row
<1>4. SearchAt(c)  BY DEF SearchOK
<1>5. ASSUME /\ cta'[c].iter = cta[c].iter /\ cta'[c].round = cta[c].round
             /\ cta'[c].prefix = cta[c].prefix /\ cta'[c].remaining = cta[c].remaining
             /\ (pc'[c] \in AtRow <=> pc[c] \in AtRow)
      PROVE  SearchAt(c)'
  BY <1>2, <1>4, <1>5 DEF SearchAt, Row
<1>6. ASSUME Quiet(c) PROVE SearchAt(c)'  BY <1>5, <1>6 DEF Quiet
<1>7. ASSUME Opens(c) PROVE SearchAt(c)'  BY <1>5, <1>7 DEF Opens, AtRow
<1>8. ASSUME Counts(c) PROVE SearchAt(c)'  BY <1>5, <1>8 DEF Counts
<1>9. ASSUME Leaves(c) PROVE SearchAt(c)'  BY <1>9 DEF Leaves, SearchAt, AtRow
<1>10. ASSUME Loads(c) PROVE SearchAt(c)'
  <2>1. pc'[c] = "init" /\ cta'[c].round = 0 /\ cta'[c].prefix = 0 /\ cta'[c].remaining = K
    BY <1>10 DEF Loads
  <2>2. PICK i \in LargeRows : i = cta'[c].iter  BY <1>1, <1>2, <2>1 DEF PlaceOK, PlaceAt, AtRow
  <2>3. rows[i] \in Seq(Keys) /\ Large(rows[i])  BY <1>1, RowType DEF LargeRows
  <2>4. Bounded(rows[i], 0, 0, K) /\ Exact(rows[i], 0, 0, K)  BY <2>3, SearchStarts
  <2>5. Row(c)' = rows[i]  BY <1>2, <2>2 DEF Row
  <2>6. QED  BY <2>1, <2>4, <2>5 DEF SearchAt
<1>11. ASSUME Selects(c) PROVE SearchAt(c)'
  <2> DEFINE h == hist[Current(c)]
  <2>1. /\ pc[c] = "read" /\ pc[c] \in AtRow
        /\ cta'[c].iter = cta[c].iter /\ cta'[c].round = cta[c].round + 1
        /\ cta'[c].prefix = cta[c].prefix + DigitOf(h, cta[c].remaining) * Weight[cta[c].round]
        /\ cta'[c].remaining = LeftOf(h, cta[c].remaining)
    BY <1>11 DEF Selects, AtRow
  <2>2. PICK i \in LargeRows, r \in 0 .. 3, p \in Nat, k \in 1 .. K, row \in Seq(Keys) :
          /\ i = cta[c].iter /\ r = cta[c].round /\ p = cta[c].prefix /\ k = cta[c].remaining
          /\ row = rows[i] /\ row = Row(c)
    <3>1. cta[c].iter \in LargeRows /\ cta[c].round \in 0 .. 3 /\ Row(c) = rows[cta[c].iter]
      BY <1>1, <2>1, StageFact, AtRowType
    <3>2. cta[c].prefix \in Nat /\ cta[c].remaining \in 1 .. K  BY <1>1 DEF TypeOK
    <3>3. rows[cta[c].iter] \in Seq(Keys)
      <4>1. PICK i \in LargeRows : i = cta[c].iter  BY <3>1
      <4>2. rows[i] \in Seq(Keys)  BY <1>1, RowType DEF LargeRows
      <4>3. QED  BY <4>1, <4>2
    <3>4. QED  BY <3>1, <3>2, <3>3
  <2>3. /\ h \in [Buckets -> Nat]
        /\ \A b \in Buckets : /\ h[b] >= Cardinality(Bucket(row, p, r, b))
                              /\ NoGap => h[b] = Cardinality(Bucket(row, p, r, b))
    BY <2>1, <2>2, ReadsAll
  <2>4. Bounded(row, p, r, k) /\ (NoGap => Exact(row, p, r, k))
    BY <1>4, <2>1, <2>2 DEF SearchAt
  <2> HIDE DEF h
  <2>5. LET q == p + DigitOf(h, k) * Weight[r]
        IN  /\ Bounded(row, q, r + 1, LeftOf(h, k))
            /\ (\A d \in Buckets : h[d] = Cardinality(Bucket(row, p, r, d))) /\ Exact(row, p, r, k)
                 => Exact(row, q, r + 1, LeftOf(h, k))
    BY <2>3, <2>4, SearchNarrows
  <2>6. Row(c)' = row  BY <1>2, <2>1, <2>2 DEF Row
  <2>7. QED  BY <1>2, <2>1, <2>2, <2>3, <2>4, <2>5, <2>6 DEF SearchAt
<1>12. SearchAt(c)'  BY <1>1, <1>6, <1>7, <1>8, <1>9, <1>10, <1>11, Kinds DEF Adds, Clears
<1>13. QED  BY <1>3, <1>12 DEF SearchOK

-----------------------------------------------------------------------------
(* Histograms are exact.                                                   *)

\* The search is in order as long as no thread 0 has arrived early: blocks are
\* ready, CTAs agree, histograms count what was added to them, prefixes keep
\* the bound; and without gaps, the buffer of the next round is clean.
SearchInv ==
  /\ StartOK
  /\ ~late => ReadyOK /\ AgreeOK /\ FillOK /\ SearchOK
  /\ NoGap /\ ~late => FreshOK

\* It holds at the start ...
LEMMA SearchInit ==
  ASSUME Init PROVE SearchInv
<1>1. /\ \A c \in CTAs : pc[c] \in {"start", "fallback"}
      /\ hist = [h \in 0 .. 2 |-> [b \in Buckets |-> 0]]
  BY DEF Init
<1>2. StartOK  BY <1>1 DEF StartOK, StartAt, AtRow
<1>3. ReadyOK  BY <1>1 DEF ReadyOK
<1>4. AgreeOK  BY <1>1 DEF AgreeOK, AgreeOn, AtRow
<1>5. FillOK  BY <1>1 DEF FillOK, In, Searching
<1>6. SearchOK  BY <1>1 DEF SearchOK, SearchAt, AtRow
<1>7. FreshOK
  <2>1. TypeOK  BY InitInv DEF IInv
  <2>2. ASSUME NEW i \in LargeRows, NEW r \in 0 .. 3, NEW b \in Buckets PROVE hist[Buffer(i, r)][b] = 0
    <3>1. i \in Nat \ {0}  BY <2>1, RowType DEF LargeRows
    <3>2. PICK x \in Nat : x = (i - 1) * 4 + r  BY <3>1
    <3>3. Buffer(i, r) = x % 3 /\ x % 3 \in 0 .. 2  BY <3>2 DEF Buffer, Rounds
    <3>4. QED  BY <1>1, <3>3
  <2>3. QED  BY <2>2 DEF FreshOK, FreshAt
<1>8. QED  BY <1>2, <1>3, <1>4, <1>5, <1>6, <1>7 DEF SearchInv

\* ... and every step keeps it,
LEMMA SearchInvNext ==
  ASSUME IInv, IInv', SearchInv, [Next]_vars PROVE SearchInv'
<1>1. TypeOK /\ PlaceOK  BY DEF IInv
<1>2. ASSUME NEW c \in CTAs, Steps(c) PROVE SearchInv'
  <2>1. (late => late') /\ (NoGap' <=> NoGap)  BY <1>1, <1>2, Frame
  <2>2. StartOK'  BY <1>1, <1>2, StartNext DEF SearchInv
  <2>3. ASSUME ~late' PROVE (ReadyOK /\ AgreeOK /\ FillOK /\ SearchOK)' /\ (NoGap => FreshOK')
    <3>1. ReadyOK /\ AgreeOK /\ FillOK /\ SearchOK /\ StartOK /\ (NoGap => FreshOK)
      BY <2>1, <2>3 DEF SearchInv
    <3>2. ReadyOK'  BY <1>1, <1>2, <2>3, <3>1, ReadyNext
    <3>3. AgreeOK'  BY <1>2, <3>1, AgreeNext
    <3>4. FillOK'  BY <1>2, <2>2, <3>1, <3>3, FillNext
    <3>5. SearchOK'  BY <1>2, <3>1, SearchNext
    <3>6. NoGap => FreshOK'  BY <1>2, <3>1, FreshNext
    <3>7. QED  BY <3>2, <3>3, <3>4, <3>5, <3>6
  <2>4. QED  BY <2>1, <2>2, <2>3 DEF SearchInv
<1>3. CASE UNCHANGED vars
  <2>1. rows' = rows /\ hist' = hist /\ pc' = pc /\ cta' = cta /\ late' = late  BY <1>3 DEF vars
  <2>2. LargeRows' = LargeRows  BY <2>1 DEF LargeRows
  <2>3. NoGap' <=> NoGap  BY <2>2 DEF NoGap, Adjacent
  <2>4. \A c \in CTAs : Current(c)' = Current(c) /\ Row(c)' = Row(c) /\ (In(c)' <=> In(c))
    BY <2>1 DEF Current, GlobalRound, Row, In
  <2>5. StartOK' <=> StartOK  BY <2>1 DEF StartOK, StartAt
  <2>6. ReadyOK' <=> ReadyOK  BY <2>1 DEF ReadyOK, BlockReady, WaveReady
  <2>7. AgreeOK' <=> AgreeOK  BY <2>1, <2>4 DEF AgreeOK, AgreeOn
  <2>8. SearchOK' <=> SearchOK  BY <2>1, <2>3, <2>4 DEF SearchOK, SearchAt
  <2>9. FillOK' <=> FillOK
    <3>1. \A i, p, r, b : Part(i, p, r, b)' = Part(i, p, r, b)  BY <2>1 DEF Part, Did
    <3>2. \A c \in CTAs : FilledAt(c)' <=> FilledAt(c)  BY <2>1, <2>3, <2>4, <3>1 DEF FilledAt, Filled
    <3>3. QED  BY <2>4, <3>2 DEF FillOK
  <2>10. FreshOK' <=> FreshOK
    <3>1. \A i, r : Number(i, r)' = Number(i, r)  BY <2>2 DEF Number, Before
    <3>2. \A c \in CTAs : Behind(c)' = Behind(c)  BY <2>1, <3>1 DEF Behind
    <3>3. Behind(0)' = Behind(0) /\ (In(0)' <=> In(0))  BY <3>2, <2>4, CTAZero
    <3>4. \A i, r, b : FreshAt(i, r, b)' <=> FreshAt(i, r, b)
      BY <2>1, <2>4, <3>1, <3>2, <3>3 DEF FreshAt, Claimed, Untouched, Buffer
    <3>5. QED  BY <2>2, <3>4 DEF FreshOK
  <2>11. QED  BY <2>1, <2>3, <2>5, <2>6, <2>7, <2>8, <2>9, <2>10 DEF SearchInv
<1>4. Next => \E c \in CTAs : Steps(c)  BY DEF Next, Steps
<1>5. QED  BY <1>2, <1>3, <1>4

\* so it holds in every launch.
LEMMA SearchInvariance == Spec => []SearchInv
<1>1. Init => SearchInv  BY SearchInit
<1>2. IInv /\ IInv' /\ SearchInv /\ [Next]_vars => SearchInv'  BY SearchInvNext
<1>3. QED  BY <1>1, <1>2, Invariance, PTL DEF Spec

\* A CTA that reads the histogram of a round finds every candidate of the row
\* counted once.
THEOREM HistogramsExact == Spec => []HistogramExact
<1>1. IInv /\ SearchInv => HistogramExact
  <2> SUFFICES ASSUME IInv, SearchInv, NoGap, ~late, NEW c \in CTAs, pc[c] = "read"
               PROVE  hist[Current(c)] = [b \in Buckets |->
                        Cardinality(InBucket(Row(c), 0 .. Len(Row(c)) - 1, cta[c].prefix, cta[c].round, b))]
    BY DEF HistogramExact
  <2>1. ReadyOK /\ FillOK  BY DEF SearchInv
  <2>2. /\ hist[Current(c)] \in [Buckets -> Nat]
        /\ \A b \in Buckets : hist[Current(c)][b] = Cardinality(Bucket(Row(c), cta[c].prefix, cta[c].round, b))
    BY <2>1, ReadsAll
  <2>3. QED  BY <2>2 DEF Bucket, Indices
<1>2. QED  BY <1>1, Invariance, SearchInvariance, PTL

=============================================================================
