------------------------ MODULE LamportReduceProofs -------------------------
(* Theorems about LamportReduce: its inductive invariant and what follows.  *)
EXTENDS LamportReduce, FiniteSetTheorems, TLAPS

-----------------------------------------------------------------------------
(* Arithmetic. *)

\* Division with remainder, as the solver knows it.
LEMMA Division ==
  ASSUME NEW x \in Int, NEW g \in Int, g > 0
  PROVE  x = g * (x \div g) + (x % g)
  BY Z3T(30)

\* Remainders of the groups a block takes.
LEMMA Remainder ==
  ASSUME NEW x \in Nat, NEW g \in Nat \ {0}
  PROVE  /\ x % g \in 0 .. g - 1
         /\ x = g * (x \div g) + (x % g)
         /\ x \div g \in Nat
<1>1. x % g \in 0 .. g - 1  OBVIOUS
<1>2. x = g * (x \div g) + (x % g)
  <2>1. x \in Int /\ g \in Int /\ g > 0  OBVIOUS
  <2>2. QED  BY <2>1, Division
<1>3. x \div g \in Nat  OBVIOUS
<1>4. QED  BY <1>1, <1>2, <1>3

\* A quotient and a remainder are determined by their number.
LEMMA Unique ==
  ASSUME NEW m \in Nat \ {0}, NEW a \in Nat, NEW c \in Nat,
         NEW x \in 0 .. m - 1, NEW y \in 0 .. m - 1, m * a + x = m * c + y
  PROVE  a = c /\ x = y
<1>1. CASE a < c
  <2>1. PICK k \in Nat : c = a + 1 + k
    <3>1. c - a - 1 \in Nat /\ c = a + 1 + (c - a - 1)  BY <1>1
    <3>2. QED  BY <3>1
  <2>2. m * c = m * a + m + m * k /\ m * k \in Nat  BY <2>1
  <2>3. QED  BY <2>2
<1>2. CASE c < a
  <2>1. PICK k \in Nat : a = c + 1 + k
    <3>1. a - c - 1 \in Nat /\ a = c + 1 + (a - c - 1)  BY <1>2
    <3>2. QED  BY <3>1
  <2>2. m * a = m * c + m + m * k /\ m * k \in Nat  BY <2>1
  <2>3. QED  BY <2>2
<1>3. CASE a = c
  BY <1>3
<1>4. QED  BY <1>1, <1>2, <1>3

\* The stride of a block keeps its remainder, and skips nothing with it.
LEMMA Stride ==
  ASSUME NEW x \in Nat, NEW g \in Nat \ {0}
  PROVE  /\ (x + g) % g = x % g
         /\ x < g => x % g = x
         /\ \A y \in Nat : y % g = x % g /\ y < x + g => y <= x
<1>1. (x + g) % g = x % g
  <2>1. x + g = g * (x \div g) + g + (x % g)  BY Remainder
  <2>2. x + g = g * (x \div g + 1) + (x % g)  BY <2>1, Remainder
  <2>3. x + g = g * ((x + g) \div g) + ((x + g) % g)  BY Remainder
  <2>4. x + g \in Nat /\ x \div g + 1 \in Nat  BY Remainder
  <2>5. (x + g) \div g \in Nat /\ (x + g) % g \in 0 .. g - 1  BY <2>4, Remainder
  <2>6. x % g \in 0 .. g - 1  BY Remainder
  <2> DEFINE a == x \div g + 1  c == (x + g) \div g  u == x % g  v == (x + g) % g
  <2>7. a \in Nat /\ c \in Nat /\ u \in 0 .. g - 1 /\ v \in 0 .. g - 1 /\ g * a + u = g * c + v
    BY <2>2, <2>3, <2>4, <2>5, <2>6
  <2> HIDE DEF a, c, u, v
  <2>8. u = v  BY <2>7, Unique
  <2>9. QED  BY <2>8 DEF u, v
<1>2. ASSUME x < g PROVE x % g = x
  <2>1. x = g * 0 + x  OBVIOUS
  <2>2. x \in 0 .. g - 1  BY <1>2
  <2>3. QED  BY <2>1, <2>2, Remainder, Unique
<1>3. ASSUME NEW y \in Nat, y % g = x % g, y < x + g PROVE y <= x
  <2>1. SUFFICES ASSUME x < y PROVE FALSE  BY <1>3
  <2>2. x = g * (x \div g) + (x % g) /\ y = g * (y \div g) + (x % g)  BY <1>3, Remainder
  <2>3. x \div g \in Nat /\ y \div g \in Nat /\ x % g \in 0 .. g - 1  BY Remainder
  <2> DEFINE a == x \div g  c == y \div g
  <2>4. a \in Nat /\ c \in Nat /\ g * a < g * c /\ g * c < g * a + g
    BY <2>1, <2>2, <2>3, <1>3
  <2> HIDE DEF a, c
  <2>5. c > a
    <3>1. SUFFICES ASSUME c <= a PROVE FALSE  BY <2>4
    <3>2. PICK k \in Nat : a = c + k
      <4>1. a - c \in Nat /\ a = c + (a - c)  BY <2>4, <3>1
      <4>2. QED  BY <4>1
    <3>3. g * a = g * c + g * k /\ g * k \in Nat  BY <2>4, <3>2
    <3>4. QED  BY <3>3, <2>4
  <2>6. PICK k \in Nat : c = a + 1 + k
    <3>1. c - a - 1 \in Nat /\ c = a + 1 + (c - a - 1)  BY <2>4, <2>5
    <3>2. QED  BY <3>1
  <2>7. g * c = g * a + g + g * k /\ g * k \in Nat  BY <2>4, <2>6
  <2>8. QED  BY <2>7, <2>4
<1>4. QED  BY <1>1, <1>2, <1>3

\* Two of three consecutive numbers never share a slot.
LEMMA ThreeSlots ==
  ASSUME NEW a \in Nat, NEW c \in Nat, a <= c + 2, c <= a + 2, (a + 2) % 3 = (c + 2) % 3
  PROVE  a = c
  OBVIOUS

\* The cells of a round are distinct and lie in its slot.
LEMMA CellInjective ==
  ASSUME NEW n \in Nat \ {0},
         NEW s1 \in Ranks, NEW g1 \in 0 .. n - 1, NEW w1 \in Warps,
         NEW s2 \in Ranks, NEW g2 \in 0 .. n - 1, NEW w2 \in Warps,
         Cell(n, s1, g1, w1) = Cell(n, s2, g2, w2)
  PROVE  s1 = s2 /\ g1 = g2 /\ w1 = w2
<1> DEFINE L == Leaders  m == n * L  x1 == L * g1 + w1  x2 == L * g2 + w2
<1>1. L \in Nat \ {0} /\ w1 \in 0 .. L - 1 /\ w2 \in 0 .. L - 1 /\ s1 \in Nat /\ s2 \in Nat
  BY GridAssumption DEF Ranks, Warps
<1> HIDE DEF L
<1>2. m \in Nat \ {0}  BY <1>1
<1>3. ASSUME NEW g \in 0 .. n - 1, NEW w \in 0 .. L - 1 PROVE L * g + w \in 0 .. m - 1
  <2>1. PICK k \in Nat : n = g + 1 + k
    <3>1. n - g - 1 \in Nat /\ n = g + 1 + (n - g - 1)  OBVIOUS
    <3>2. QED  BY <3>1
  <2>2. m = L * g + L + L * k /\ L * k \in Nat /\ L * g \in Nat  BY <1>1, <2>1
  <2>3. QED  BY <1>1, <2>2
<1>4. x1 \in 0 .. m - 1 /\ x2 \in 0 .. m - 1  BY <1>1, <1>3
<1>5. m * s1 + x1 = m * s2 + x2
  <2>1. s1 * n * L + L * g1 + w1 = s2 * n * L + L * g2 + w2  BY DEF Cell, L
  <2>2. m * s1 = s1 * n * L /\ m * s2 = s2 * n * L  BY <1>1
  <2>3. m * s1 \in Nat /\ m * s2 \in Nat /\ L * g1 \in Nat /\ L * g2 \in Nat  BY <1>1, <1>2
  <2> HIDE DEF m
  <2>4. QED  BY <2>1, <2>2, <2>3, <1>1
<1> HIDE DEF m, x1, x2
<1>6. s1 = s2 /\ x1 = x2  BY <1>1, <1>2, <1>4, <1>5, Unique
<1>7. g1 = g2 /\ w1 = w2
  <2>1. L * g1 + w1 = L * g2 + w2  BY <1>6 DEF x1, x2
  <2>2. QED  BY <2>1, <1>1, Unique
<1>8. QED  BY <1>6, <1>7

\* The cells of a round lie in the part of the slot it uses.
LEMMA CellBound ==
  ASSUME NEW n \in Nat \ {0}, NEW s \in Ranks, NEW g \in 0 .. n - 1, NEW w \in Warps
  PROVE  Cell(n, s, g, w) \in 0 .. Leaders * n * NRanks - 1
<1> DEFINE L == Leaders  m == n * L
<1>1. L \in Nat \ {0} /\ w \in 0 .. L - 1 /\ s \in Nat /\ s \in 0 .. NRanks - 1 /\ NRanks \in Nat
  BY GridAssumption DEF Ranks, Warps
<1> HIDE DEF L
<1>2. m \in Nat \ {0}  BY <1>1
<1>3. L * g + w \in 0 .. m - 1
  <2>1. PICK k \in Nat : n = g + 1 + k
    <3>1. n - g - 1 \in Nat /\ n = g + 1 + (n - g - 1)  OBVIOUS
    <3>2. QED  BY <3>1
  <2>2. m = L * g + L + L * k /\ L * k \in Nat /\ L * g \in Nat  BY <1>1, <2>1
  <2>3. QED  BY <1>1, <2>2
<1>4. PICK j \in Nat : NRanks = s + 1 + j
  <2>1. NRanks - s - 1 \in Nat /\ NRanks = s + 1 + (NRanks - s - 1)  BY <1>1
  <2>2. QED  BY <2>1
<1>5. L * n * NRanks = m * s + m + m * j /\ m * j \in Nat /\ m * s \in Nat  BY <1>1, <1>2, <1>4
<1>6. Cell(n, s, g, w) = m * s + (L * g + w)
  <2>1. Cell(n, s, g, w) = s * n * L + L * g + w  BY DEF Cell, L
  <2>2. m * s = s * n * L /\ L * g \in Nat  BY <1>1
  <2> HIDE DEF m
  <2>3. QED  BY <2>1, <2>2, <1>1, <1>5
<1> HIDE DEF m
<1>7. QED  BY <1>2, <1>3, <1>5, <1>6 DEF L

-----------------------------------------------------------------------------
(* The inductive invariant. *)

\* The slot and the number of cells of a rank's k-th round.
Slot(k) == (k + 2) % 3
Size(k) == IF k = 0 THEN 0 ELSE Leaders * sizes[k] * NRanks

\* Block 0 has updated the workspace, or no kernel has run.
Rotated(r) == blk[r][0].pc = "done"

Entering == {"read", "count"}
Working == {"read", "count", "work"}
Past == {"clear", "update", "done"}

\* The blocks of the running kernel that have said they have read.
Counted(r) == {b \in Blocks : b < Grid(Groups(r)) /\ blk[r][b].pc \notin Entering}

BlocksOK ==
  \A r \in Ranks, b \in Blocks :
    LET me == blk[r][b] IN
    /\ me.pc # "done" => round[r] > 0 /\ b < Grid(Groups(r))
    /\ me.pc \in {"count", "work", "clear", "update"} =>
         me.flag = Slot(round[r]) /\ me.clear = Size(round[r] - 1)
    /\ me.pc \in Working => me.group < Groups(r) /\ me.group % Grid(Groups(r)) = b
    /\ me.pc \in Entering => ~Rotated(r)

WorkspaceOK ==
  \A r \in Ranks :
    IF Rotated(r)
    THEN /\ flag[r] = Slot(round[r] + 1)
         /\ clear[r] = Size(round[r])
         /\ counter[r] = 0
    ELSE /\ flag[r] = Slot(round[r])
         /\ clear[r] = Size(round[r] - 1)
         /\ counter[r] = Cardinality(Counted(r))

\* Rank r has pushed its sum of the group to rank t in the round it is in.
Pushed(r, g, w, t) ==
  LET me == blk[r][g % Grid(Groups(r))] IN
  \/ me.pc \in Past
  \/ me.pc = "work" /\ (g < me.group \/ (g = me.group /\ <<w, t>> \in me.sent))

\* What lies in a cell: a sum of the round before that its block has yet to
\* clear, one of this round, or already one of the next.
CellOK(t, s, i) ==
  LET v == buf[t][s][i] IN
  v # Empty =>
    /\ v.round \in 1 .. round[v.src] /\ v.round <= round[t] + 1 /\ round[t] <= v.round + 1
    /\ s = Slot(v.round)
    /\ v.group < sizes[v.round]
    /\ i = Cell(sizes[v.round], v.src, v.group, v.warp)
    /\ v.round + 1 = round[t] =>
         blk[t][(i \div BlockDim) % Grid(Groups(t))].pc \in {"read", "count", "work", "clear"}
    /\ v.round = round[v.src] => Pushed(v.src, v.group, v.warp, t)

CellsOK == \A t \in Ranks, s \in Slots, i \in Cells : CellOK(t, s, i)

\* What a rank has taken was pushed in the same round.
From(r, g, w, t) ==
  round[t] >= round[r] /\ (round[t] = round[r] => Pushed(t, g, w, r))

TakenOK(r, b, w, t) ==
  LET me == blk[r][b] IN
  /\ me.pc = "work"
  /\ me.got[<<w, t>>] = [src |-> t, round |-> round[r], group |-> me.group, warp |-> w]
  /\ From(r, me.group, w, t)

SumsOK ==
  \A r \in Ranks, b \in Blocks, w \in Warps, t \in Ranks :
    blk[r][b].got[<<w, t>>] # Empty => TakenOK(r, b, w, t)

ReducedOK ==
  \A r \in Ranks :
    /\ reduced[r] # {} => round[r] > 0
    /\ \A g \in reduced[r] :
         g < Groups(r) /\ \A w \in Warps, t \in Ranks : From(r, g, w, t)
    /\ round[r] > 0 =>
         \A g \in 0 .. Groups(r) - 1 :
           LET me == blk[r][g % Grid(Groups(r))] IN
           me.pc \in Past \/ g < me.group => g \in reduced[r]

PaceOK ==
  \A r, q \in Ranks :
    /\ round[r] <= round[q] + 1
    /\ round[r] = round[q] + 1 /\ round[q] > 0 =>
         \A g \in 0 .. Groups(q) - 1, w \in Warps : Pushed(q, g, w, r)

IInv ==
  /\ TypeOK
  /\ BlocksOK
  /\ WorkspaceOK
  /\ CellsOK
  /\ SumsOK
  /\ ReducedOK
  /\ PaceOK

-----------------------------------------------------------------------------
(* Consequences of the type invariant. *)

\* A grid has at least one block and no more than groups or places.
LEMMA GridBounds ==
  ASSUME NEW n \in Nat \ {0}
  PROVE  Grid(n) \in Nat \ {0} /\ Grid(n) <= n /\ Grid(n) <= MaxGrid
  BY GridAssumption DEF Grid

\* A round uses as many cells as a slot has, or fewer.
LEMMA RoundSize ==
  ASSUME TypeOK, NEW k \in 1 .. Len(sizes)
  PROVE  /\ sizes[k] \in Nat \ {0}
         /\ Size(k) = Leaders * sizes[k] * NRanks
         /\ Size(k) \in 0 .. CommSize
<1>1. sizes \in Seq(Nat \ {0}) /\ k \in DOMAIN sizes  BY SizeAssumption DEF TypeOK
<1>2. sizes[k] \in Nat \ {0}  BY <1>1
<1>3. NRanks * sizes[k] * Leaders <= CommSize  BY <1>1, SizeAssumption DEF TypeOK
<1>4. NRanks * sizes[k] * Leaders = Leaders * sizes[k] * NRanks
      /\ Leaders * sizes[k] * NRanks \in Nat
  BY <1>2, GridAssumption
<1>5. QED  BY <1>2, <1>3, <1>4, SizeAssumption DEF Size

\* So does the round before the first, which uses none.
LEMMA SizeType ==
  ASSUME TypeOK, NEW k \in 0 .. Len(sizes)
  PROVE  Size(k) \in 0 .. CommSize
<1>1. CASE k = 0  BY <1>1, SizeAssumption DEF Size
<1>2. CASE k # 0
  <2>1. k \in 1 .. Len(sizes)  BY <1>2
  <2>2. QED  BY <2>1, RoundSize
<1>3. QED  BY <1>1, <1>2

\* The registers of a block.
LEMMA BlockType ==
  ASSUME TypeOK, NEW r \in Ranks, NEW b \in Blocks
  PROVE  /\ blk[r][b] \in BlockStates
         /\ blk[r][b].got \in [Threads -> Sums \cup {Empty}]
         /\ blk[r][b].group \in Nat
         /\ round[r] \in Nat /\ round[r] <= Len(sizes) /\ Len(sizes) \in Nat
<1>1. Len(sizes) \in Nat  BY SizeAssumption DEF TypeOK
<1>2. blk[r][b] \in BlockStates  BY DEF TypeOK
<1>3. blk[r][b].got \in [Threads -> Sums \cup {Empty}] /\ blk[r][b].group \in Nat
  BY <1>2 DEF BlockStates
<1>4. round[r] \in 0 .. Len(sizes)  BY DEF TypeOK
<1>5. QED  BY <1>1, <1>2, <1>3, <1>4

\* Rounds are counted from zero.
LEMMA RoundType ==
  ASSUME TypeOK, NEW r \in Ranks
  PROVE  round[r] \in Nat
  BY DEF TypeOK

\* The kernel of a block that runs has groups of tokens.
LEMMA Running ==
  ASSUME TypeOK, NEW r \in Ranks, round[r] > 0
  PROVE  /\ round[r] \in 1 .. Len(sizes)
         /\ Groups(r) \in Nat \ {0}
         /\ Grid(Groups(r)) \in Nat \ {0}
         /\ Grid(Groups(r)) <= Groups(r) /\ Grid(Groups(r)) <= MaxGrid
         /\ \A g \in Nat : g % Grid(Groups(r)) \in Blocks
                           /\ g % Grid(Groups(r)) < Grid(Groups(r))
<1>1. Len(sizes) \in Nat /\ round[r] \in 1 .. Len(sizes)
  BY SizeAssumption DEF TypeOK
<1>2. Groups(r) \in Nat \ {0}  BY <1>1, RoundSize DEF Groups
<1>3. /\ Grid(Groups(r)) \in Nat \ {0}
      /\ Grid(Groups(r)) <= Groups(r) /\ Grid(Groups(r)) <= MaxGrid
  BY <1>2, GridBounds
<1>4. ASSUME NEW g \in Nat
      PROVE  g % Grid(Groups(r)) \in Blocks /\ g % Grid(Groups(r)) < Grid(Groups(r))
  <2> DEFINE n == Grid(Groups(r))
  <2>1. n \in Nat \ {0} /\ n <= MaxGrid  BY <1>3
  <2>2. g % n \in 0 .. n - 1  BY <2>1, Remainder
  <2> HIDE DEF n
  <2>3. g % n \in 0 .. MaxGrid - 1 /\ g % n < n  BY <2>1, <2>2, GridAssumption
  <2>4. QED  BY <2>3 DEF Blocks, n
<1>5. QED  BY <1>1, <1>2, <1>3, <1>4

\* A sum is never negative zero.
LEMMA SentinelFact ==
  ASSUME NEW v \in Sums
  PROVE  v # Empty /\ v.src \in Ranks /\ v.round \in Nat /\ v.group \in Nat /\ v.warp \in Warps
  BY SentinelAssumption DEF Sums

\* The span of a cell, which decides on the block that clears it.
LEMMA SpanType ==
  ASSUME NEW i \in Cells
  PROVE  i \div BlockDim \in Nat
  BY Remainder, SizeAssumption, GridAssumption DEF Cells

\* There is a block 0, which keeps the workspace.
LEMMA BlockZero == 0 \in Blocks
  BY GridAssumption DEF Blocks

-----------------------------------------------------------------------------
\* The invariant holds at the start.
LEMMA InitInv == Init => IInv
<1> SUFFICES ASSUME Init PROVE IInv
  OBVIOUS
<1> USE DEF Init
<1>1. Len(sizes) \in Nat  BY SizeAssumption
<1>2. Gone \in BlockStates
  BY SizeAssumption DEF Gone, NoSums, Slots, BlockStates
<1>3. TypeOK
  BY <1>1, <1>2, SizeAssumption DEF TypeOK, Slots
<1>4. \A r \in Ranks, b \in Blocks : blk[r][b] = Gone  OBVIOUS
<1>5. BlocksOK
  BY <1>4 DEF BlocksOK, Gone, Working, Entering
<1>6. WorkspaceOK
  BY <1>4, BlockZero DEF WorkspaceOK, Rotated, Gone, Slot, Size
<1>7. CellsOK
  BY DEF CellsOK, CellOK
<1>8. SumsOK
  BY <1>4 DEF SumsOK, Gone, NoSums, Threads
<1>9. ReducedOK /\ PaceOK
  BY DEF ReducedOK, PaceOK
<1>10. QED  BY <1>3, <1>5, <1>6, <1>7, <1>8, <1>9 DEF IInv

-----------------------------------------------------------------------------
(* What a step that launches nothing keeps. *)

\* A block goes on, in the order of its places.
Advances(x, y) ==
  /\ x.pc \in Past => y.pc \in Past
  /\ x.pc = "work" =>
       \/ y.pc \in Past
       \/ y.pc = "work" /\ (x.group < y.group \/ (x.group = y.group /\ x.sent \subseteq y.sent))

NoLaunch ==
  /\ sizes' = sizes /\ round' = round
  /\ \A q \in Ranks, c \in Blocks : Advances(blk[q][c], blk'[q][c]) /\ blk'[q][c].group \in Nat

\* What has been pushed stays so.
LEMMA PushedGrows ==
  ASSUME TypeOK, NoLaunch,
         NEW q \in Ranks, round[q] > 0, NEW g \in Nat, NEW w \in Warps, NEW t \in Ranks,
         Pushed(q, g, w, t)
  PROVE  Pushed(q, g, w, t)'
<1> DEFINE c == g % Grid(Groups(q))
<1>1. c \in Blocks  BY Running
<1>2. c' = c  BY DEF NoLaunch, Groups, Grid
<1>3. Advances(blk[q][c], blk'[q][c]) /\ blk[q][c].group \in Nat /\ blk'[q][c].group \in Nat
  BY <1>1, BlockType DEF NoLaunch
<1>4. \/ blk[q][c].pc \in Past
      \/ blk[q][c].pc = "work"
         /\ (g < blk[q][c].group \/ (g = blk[q][c].group /\ <<w, t>> \in blk[q][c].sent))
  BY DEF Pushed
<1> HIDE DEF c
<1>5. \/ blk'[q][c].pc \in Past
      \/ blk'[q][c].pc = "work"
         /\ (g < blk'[q][c].group \/ (g = blk'[q][c].group /\ <<w, t>> \in blk'[q][c].sent))
  BY <1>3, <1>4 DEF Advances
<1>6. QED  BY <1>2, <1>5 DEF Pushed, c

\* What a rank has taken remains pushed.
LEMMA FromKept ==
  ASSUME TypeOK, NoLaunch,
         NEW r \in Ranks, NEW g \in Nat, NEW w \in Warps, NEW t \in Ranks,
         round[r] > 0, From(r, g, w, t)
  PROVE  From(r, g, w, t)'
<1>1. round'[r] = round[r] /\ round'[t] = round[t]  BY DEF NoLaunch
<1>2. round[r] \in Nat /\ round[t] \in Nat  BY DEF TypeOK
<1>3. ASSUME round[t] = round[r] PROVE Pushed(t, g, w, r)'
  BY <1>3, PushedGrows DEF From
<1>4. QED  BY <1>1, <1>2, <1>3 DEF From

\* No rank gets further ahead without a launch.
LEMMA PaceKept ==
  ASSUME TypeOK, NoLaunch, PaceOK
  PROVE  PaceOK'
<1> SUFFICES ASSUME NEW r \in Ranks, NEW q \in Ranks
             PROVE  /\ round[r] <= round[q] + 1
                    /\ round[r] = round[q] + 1 /\ round[q] > 0 =>
                         \A g \in 0 .. Groups(q) - 1, w \in Warps : Pushed(q, g, w, r)'
  BY DEF PaceOK, NoLaunch, Groups
<1>1. round[r] <= round[q] + 1  BY DEF PaceOK
<1>2. ASSUME round[r] = round[q] + 1, round[q] > 0, NEW g \in 0 .. Groups(q) - 1, NEW w \in Warps
      PROVE  Pushed(q, g, w, r)'
  <2>1. Pushed(q, g, w, r)  BY <1>2 DEF PaceOK
  <2>2. g \in Nat  BY <1>2, Running
  <2>3. QED  BY <1>2, <2>1, <2>2, PushedGrows
<1>3. QED  BY <1>1, <1>2

\* If a step leaves what was reduced and what was taken alone, the facts
\* about them are kept.
LEMMA ReducedKept ==
  ASSUME TypeOK, NoLaunch, ReducedOK, reduced' = reduced,
         \A q \in Ranks, c \in Blocks :
           \/ blk'[q][c].pc \in Past => blk[q][c].pc \in Past
           \/ \A g \in 0 .. Groups(q) - 1 : g % Grid(Groups(q)) = c => g \in reduced[q],
         \A q \in Ranks, c \in Blocks : blk'[q][c].group <= blk[q][c].group
  PROVE  ReducedOK'
<1> SUFFICES ASSUME NEW r \in Ranks
             PROVE  /\ reduced[r] # {} => round[r] > 0
                    /\ \A g \in reduced[r] :
                         g < Groups(r) /\ \A w \in Warps, t \in Ranks : From(r, g, w, t)'
                    /\ round[r] > 0 =>
                         \A g \in 0 .. Groups(r) - 1 :
                           LET me == blk'[r][g % Grid(Groups(r))] IN
                           me.pc \in Past \/ g < me.group => g \in reduced[r]
  BY DEF ReducedOK, NoLaunch, Groups, Grid
<1>1. reduced[r] # {} => round[r] > 0  BY DEF ReducedOK
<1>2. ASSUME NEW g \in reduced[r]
      PROVE  g < Groups(r) /\ \A w \in Warps, t \in Ranks : From(r, g, w, t)'
  <2>1. g \in Nat /\ round[r] > 0 /\ g < Groups(r)  BY <1>1, <1>2 DEF TypeOK, ReducedOK
  <2>2. ASSUME NEW w \in Warps, NEW t \in Ranks PROVE From(r, g, w, t)'
    <3>1. From(r, g, w, t)  BY <1>2 DEF ReducedOK
    <3>2. QED  BY <2>1, <3>1, FromKept
  <2>3. QED  BY <2>1, <2>2
<1>3. ASSUME round[r] > 0, NEW g \in 0 .. Groups(r) - 1,
             \/ blk'[r][g % Grid(Groups(r))].pc \in Past
             \/ g < blk'[r][g % Grid(Groups(r))].group
      PROVE  g \in reduced[r]
  <2> DEFINE c == g % Grid(Groups(r))
  <2>1. c \in Blocks /\ g \in Nat  BY <1>3, Running
  <2>2. blk[r][c].group \in Nat /\ blk'[r][c].group \in Nat /\ blk'[r][c].group <= blk[r][c].group
    BY <2>1, BlockType DEF NoLaunch
  <2>3. CASE g < blk'[r][c].group
    <3>1. g < blk[r][c].group  BY <2>1, <2>2, <2>3
    <3>2. QED  BY <1>3, <3>1 DEF ReducedOK
  <2>4. CASE blk'[r][c].pc \in Past
    BY <1>3, <2>1, <2>4 DEF ReducedOK
  <2>5. QED  BY <1>3, <2>3, <2>4
<1>4. QED  BY <1>1, <1>2, <1>3

\* What a block has taken is still of its round and group.
LEMMA SumsKept ==
  ASSUME TypeOK, NoLaunch, BlocksOK, SumsOK,
         \A q \in Ranks, c \in Blocks :
           \/ blk'[q][c].got = NoSums
           \/ blk'[q][c].got = blk[q][c].got /\ blk'[q][c].pc = blk[q][c].pc
              /\ blk'[q][c].group = blk[q][c].group
  PROVE  SumsOK'
<1> SUFFICES ASSUME NEW r \in Ranks, NEW b \in Blocks, NEW w \in Warps, NEW t \in Ranks,
                    blk'[r][b].got[<<w, t>>] # Empty
             PROVE  /\ blk'[r][b].pc = "work"
                    /\ blk'[r][b].got[<<w, t>>] =
                         [src |-> t, round |-> round[r], group |-> blk'[r][b].group, warp |-> w]
                    /\ From(r, blk[r][b].group, w, t)'
                    /\ blk'[r][b].group = blk[r][b].group
  <2>1. round' = round  BY DEF NoLaunch
  <2>2. QED  BY <2>1 DEF SumsOK, TakenOK
<1>1. blk'[r][b].got # NoSums  BY DEF NoSums, Threads
<1>2. blk'[r][b].got = blk[r][b].got /\ blk'[r][b].pc = blk[r][b].pc
      /\ blk'[r][b].group = blk[r][b].group
  BY <1>1
<1>3. /\ blk[r][b].pc = "work"
      /\ blk[r][b].got[<<w, t>>] =
           [src |-> t, round |-> round[r], group |-> blk[r][b].group, warp |-> w]
      /\ From(r, blk[r][b].group, w, t)
  BY <1>2 DEF SumsOK, TakenOK
<1>4. round[r] > 0 /\ blk[r][b].group \in Nat  BY <1>3, BlockType DEF BlocksOK
<1>5. PICK g \in Nat : g = blk[r][b].group  BY <1>4
<1>6. From(r, g, w, t)'  BY <1>3, <1>4, <1>5, FromKept
<1>7. From(r, blk[r][b].group, w, t)'  BY <1>2, <1>5, <1>6
<1>8. QED  BY <1>2, <1>3, <1>7

\* The facts about the cells are kept by a step that writes to none and takes
\* no block past its clearing.
LEMMA CellsKept ==
  ASSUME TypeOK, NoLaunch, CellsOK, buf' = buf,
         \A q \in Ranks, c \in Blocks :
           blk[q][c].pc \in {"read", "count", "work", "clear"} =>
             blk'[q][c].pc \in {"read", "count", "work", "clear"}
  PROVE  CellsOK'
<1> SUFFICES ASSUME NEW t \in Ranks, NEW s \in Slots, NEW i \in Cells
             PROVE  CellOK(t, s, i)'
  BY DEF CellsOK
<1> SUFFICES ASSUME NEW v, v = buf[t][s][i], v # Empty
             PROVE  /\ v.round \in 1 .. round[v.src]
                    /\ v.round <= round[t] + 1 /\ round[t] <= v.round + 1
                    /\ s = Slot(v.round)
                    /\ v.group < sizes[v.round]
                    /\ i = Cell(sizes[v.round], v.src, v.group, v.warp)
                    /\ v.round + 1 = round[t] =>
                         blk'[t][(i \div BlockDim) % Grid(Groups(t))].pc
                           \in {"read", "count", "work", "clear"}
                    /\ v.round = round[v.src] => Pushed(v.src, v.group, v.warp, t)'
  BY SMTT(30) DEF CellOK, NoLaunch, Groups, Grid
<1>1. v \in Sums  BY DEF TypeOK
<1>2. v.src \in Ranks /\ v.round \in Nat /\ v.group \in Nat /\ v.warp \in Warps
  BY <1>1, SentinelFact
<1>3. /\ v.round \in 1 .. round[v.src] /\ v.round <= round[t] + 1 /\ round[t] <= v.round + 1
      /\ s = Slot(v.round)
      /\ v.group < sizes[v.round]
      /\ i = Cell(sizes[v.round], v.src, v.group, v.warp)
      /\ v.round + 1 = round[t] =>
           blk[t][(i \div BlockDim) % Grid(Groups(t))].pc \in {"read", "count", "work", "clear"}
      /\ v.round = round[v.src] => Pushed(v.src, v.group, v.warp, t)
  BY DEF CellsOK, CellOK
<1>4. ASSUME v.round + 1 = round[t]
      PROVE  blk'[t][(i \div BlockDim) % Grid(Groups(t))].pc \in {"read", "count", "work", "clear"}
  <2>1. i \div BlockDim \in Nat  BY SpanType
  <2>2. round[t] > 0  BY <1>2, <1>4
  <2>3. (i \div BlockDim) % Grid(Groups(t)) \in Blocks  BY <2>1, <2>2, Running
  <2>4. QED  BY <1>3, <1>4, <2>3
<1>5. ASSUME v.round = round[v.src] PROVE Pushed(v.src, v.group, v.warp, t)'
  <2>1. round[v.src] \in Nat  BY <1>2, RoundType
  <2>2. round[v.src] > 0
    <3>1. v.round \in 1 .. round[v.src]  BY <1>3
    <3>2. QED  BY <2>1, <3>1
  <2>3. QED  BY <1>2, <1>3, <1>5, <2>2, PushedGrows
<1>6. QED  BY <1>3, <1>4, <1>5

\* Counted blocks are those past the constructor.
LEMMA CountedKept ==
  ASSUME NoLaunch, NEW r \in Ranks,
         \A c \in Blocks : blk'[r][c].pc \in Entering <=> blk[r][c].pc \in Entering
  PROVE  Counted(r)' = Counted(r)
  BY DEF Counted, NoLaunch, Groups, Grid

\* Blocks counted are blocks of the grid; if as many, all of them.
LEMMA CountedFinite ==
  ASSUME TypeOK, NEW r \in Ranks, round[r] > 0
  PROVE  /\ IsFiniteSet(Counted(r)) /\ Counted(r) \subseteq 0 .. Grid(Groups(r)) - 1
         /\ Cardinality(Counted(r)) \in Nat
         /\ Cardinality(Counted(r)) = Grid(Groups(r)) => Counted(r) = 0 .. Grid(Groups(r)) - 1
<1> DEFINE n == Grid(Groups(r))  S == Counted(r)
<1>1. n \in Nat \ {0}  BY Running
<1>2. S \subseteq 0 .. n - 1  BY <1>1, GridAssumption DEF Counted, Blocks
<1> HIDE DEF n, S
<1>3. IsFiniteSet(0 .. n - 1) /\ Cardinality(0 .. n - 1) = n  BY <1>1, FS_Interval
<1>4. IsFiniteSet(S) /\ Cardinality(S) \in Nat  BY <1>2, <1>3, FS_Subset, FS_CardinalityType
<1>5. Cardinality(S) = n => S = 0 .. n - 1  BY <1>2, <1>3, FS_Subset
<1>6. QED  BY <1>2, <1>4, <1>5 DEF n, S

\* The workspace is kept by a step that leaves it alone.
LEMMA WorkspaceKept ==
  ASSUME NoLaunch, WorkspaceOK, UNCHANGED workspace,
         \A q \in Ranks, c \in Blocks :
           /\ blk'[q][c].pc \in Entering <=> blk[q][c].pc \in Entering
           /\ c = 0 => (blk'[q][c].pc = "done" <=> blk[q][c].pc = "done")
  PROVE  WorkspaceOK'
<1> SUFFICES ASSUME NEW r \in Ranks
             PROVE  IF Rotated(r)'
                    THEN /\ flag[r] = Slot(round[r] + 1)
                         /\ clear[r] = Size(round[r])
                         /\ counter[r] = 0
                    ELSE /\ flag[r] = Slot(round[r])
                         /\ clear[r] = Size(round[r] - 1)
                         /\ counter[r] = Cardinality(Counted(r)')
  BY DEF WorkspaceOK, workspace, NoLaunch, Size, Slot
<1>1. Rotated(r)' = Rotated(r)  BY BlockZero DEF Rotated
<1>2. Counted(r)' = Counted(r)  BY CountedKept
<1>3. QED  BY <1>1, <1>2 DEF WorkspaceOK

\* The facts about a block that takes no part in a step.
LEMMA OthersOK ==
  ASSUME TypeOK, NoLaunch, BlocksOK, NEW r \in Ranks, NEW b \in Blocks,
         \A q \in Ranks, c \in Blocks : q # r \/ c # b => blk'[q][c] = blk[q][c],
         LET me == blk'[r][b] IN
           /\ me.pc # "done" => round[r] > 0 /\ b < Grid(Groups(r))
           /\ me.pc \in {"count", "work", "clear", "update"} =>
                me.flag = Slot(round[r]) /\ me.clear = Size(round[r] - 1)
           /\ me.pc \in Working => me.group < Groups(r) /\ me.group % Grid(Groups(r)) = b,
         blk'[r][b].pc \in Entering => blk[r][b].pc \in Entering,
         \A c \in Blocks : blk'[r][c].pc \in Entering /\ Rotated(r)' => Rotated(r)
  PROVE  BlocksOK'
<1> SUFFICES ASSUME NEW q \in Ranks, NEW c \in Blocks
             PROVE  LET me == blk'[q][c] IN
                    /\ me.pc # "done" => round[q] > 0 /\ c < Grid(Groups(q))
                    /\ me.pc \in {"count", "work", "clear", "update"} =>
                         me.flag = Slot(round[q]) /\ me.clear = Size(round[q] - 1)
                    /\ me.pc \in Working => me.group < Groups(q) /\ me.group % Grid(Groups(q)) = c
                    /\ me.pc \in Entering => ~Rotated(q)'
  BY DEF BlocksOK, NoLaunch, Groups, Grid, Size, Slot
<1>1. CASE q = r /\ c = b
  BY <1>1 DEF BlocksOK
<1>2. CASE q = r /\ c # b
  BY <1>2 DEF BlocksOK
<1>3. CASE q # r
  BY <1>3, BlockZero DEF BlocksOK, Rotated
<1>4. QED  BY <1>1, <1>2, <1>3

-----------------------------------------------------------------------------
(* A step of one block: the parts of the invariant it cannot disturb. *)

OneBlock(r, b) ==
  /\ blk[r][b].pc # "done"
  /\ sizes' = sizes /\ round' = round
  /\ \A q \in Ranks, c \in Blocks : q # r \/ c # b => blk'[q][c] = blk[q][c]
  /\ blk'[r][b] \in BlockStates
  /\ Advances(blk[r][b], blk'[r][b])

\* A step of one block launches nothing.
LEMMA OneBlockNoLaunch ==
  ASSUME TypeOK, NEW r \in Ranks, NEW b \in Blocks, OneBlock(r, b)
  PROVE  NoLaunch
<1> SUFFICES ASSUME NEW q \in Ranks, NEW c \in Blocks
             PROVE  Advances(blk[q][c], blk'[q][c]) /\ blk'[q][c].group \in Nat
  BY DEF NoLaunch, OneBlock
<1>1. CASE q = r /\ c = b
  BY <1>1 DEF OneBlock, BlockStates
<1>2. CASE q # r \/ c # b
  <2>1. blk'[q][c] = blk[q][c] /\ blk[q][c].group \in Nat  BY <1>2, BlockType DEF OneBlock
  <2>2. QED  BY <2>1 DEF Advances
<1>3. QED  BY <1>1, <1>2

\* A block that has taken no sum in this turn.
LEMMA NothingTaken ==
  ASSUME TypeOK, SumsOK, NEW r \in Ranks, NEW b \in Blocks, blk[r][b].pc # "work"
  PROVE  blk[r][b].got = NoSums
<1>1. blk[r][b].got \in [Threads -> Sums \cup {Empty}]  BY BlockType
<1>2. ASSUME NEW w \in Warps, NEW t \in Ranks PROVE blk[r][b].got[<<w, t>>] = Empty
  <2>1. ASSUME blk[r][b].got[<<w, t>>] # Empty PROVE FALSE
    <3>1. TakenOK(r, b, w, t)  BY <2>1 DEF SumsOK
    <3>2. QED  BY <3>1 DEF TakenOK
  <2>2. QED  BY <2>1
<1>3. QED  BY <1>1, <1>2 DEF NoSums, Threads

\* Reading, counting and leaving write to no cell and take no sum.
LEMMA QuietStep ==
  ASSUME IInv, NEW r \in Ranks, NEW b \in Blocks, OneBlock(r, b),
         blk[r][b].pc # "work",
         blk'[r][b].got = blk[r][b].got \/ blk'[r][b].got = NoSums,
         blk'[r][b].group <= blk[r][b].group,
         blk'[r][b].pc \in Past => blk[r][b].pc \in Past,
         blk[r][b].pc \in {"read", "count", "work", "clear"} =>
           blk'[r][b].pc \in {"read", "count", "work", "clear"},
         buf' = buf, reduced' = reduced
  PROVE  CellsOK' /\ SumsOK' /\ ReducedOK' /\ PaceOK'
<1>1. TypeOK /\ BlocksOK /\ CellsOK /\ SumsOK /\ ReducedOK /\ PaceOK  BY DEF IInv
<1>2. NoLaunch  BY <1>1, OneBlockNoLaunch
<1>3. blk'[r][b].got = NoSums  BY <1>1, NothingTaken
<1>4. \A q \in Ranks, c \in Blocks :
        /\ blk[q][c].group \in Nat
        /\ q # r \/ c # b => blk'[q][c] = blk[q][c]
  BY <1>1, BlockType DEF OneBlock
<1>5. CellsOK'  BY <1>1, <1>2, <1>4, CellsKept
<1>6. SumsOK'  BY <1>1, <1>2, <1>3, <1>4, SumsKept
<1>7. \A q \in Ranks, c \in Blocks :
        blk'[q][c].group <= blk[q][c].group
        /\ (blk'[q][c].pc \in Past => blk[q][c].pc \in Past)
  BY <1>4
<1>8. ReducedOK'  BY <1>1, <1>2, <1>7, ReducedKept
<1>9. PaceOK'  BY <1>1, <1>2, PaceKept
<1>10. QED  BY <1>5, <1>6, <1>8, <1>9

-----------------------------------------------------------------------------
(* The steps of a block. *)

\* A block reads the workspace before block 0 can change it.
LEMMA ReadInv ==
  ASSUME IInv, NEW r \in Ranks, NEW b \in Blocks, Read(r, b)
  PROVE  IInv'
<1>1. TypeOK /\ BlocksOK /\ WorkspaceOK  BY DEF IInv
<1> DEFINE new == [blk[r][b] EXCEPT !.pc = "count", !.flag = flag[r], !.clear = clear[r]]
<1>2. /\ blk[r][b].pc = "read"
      /\ sizes' = sizes /\ round' = round /\ buf' = buf /\ reduced' = reduced
      /\ UNCHANGED workspace /\ blk' = [blk EXCEPT ![r][b] = new]
  BY DEF Read
<1>3. /\ new \in BlockStates /\ new.pc = "count" /\ new.flag = flag[r] /\ new.clear = clear[r]
      /\ new.group = blk[r][b].group /\ new.got = blk[r][b].got /\ new.group \in Nat
  <2>1. blk[r][b] \in BlockStates /\ flag[r] \in Slots /\ clear[r] \in 0 .. CommSize
    BY <1>1 DEF TypeOK
  <2>2. QED  BY <2>1 DEF BlockStates
<1> HIDE DEF new
<1>4. /\ blk' \in [Ranks -> [Blocks -> BlockStates]]
      /\ blk'[r][b] = new
      /\ \A q \in Ranks, c \in Blocks : q # r \/ c # b => blk'[q][c] = blk[q][c]
  BY <1>1, <1>2, <1>3 DEF TypeOK
<1>5. OneBlock(r, b)  BY <1>2, <1>3, <1>4 DEF OneBlock, Advances, Past
<1>6. NoLaunch  BY <1>1, <1>5, OneBlockNoLaunch
<1>7. TypeOK'  BY <1>1, <1>2, <1>4 DEF TypeOK, workspace
<1>8. BlocksOK'
  <2>1. /\ ~Rotated(r) /\ round[r] > 0 /\ b < Grid(Groups(r))
        /\ blk[r][b].group < Groups(r) /\ blk[r][b].group % Grid(Groups(r)) = b
    BY <1>1, <1>2 DEF BlocksOK, Entering, Working
  <2>2. flag[r] = Slot(round[r]) /\ clear[r] = Size(round[r] - 1)
    BY <1>1, <2>1 DEF WorkspaceOK
  <2>3. Rotated(r)' => Rotated(r)
    BY <1>3, <1>4, BlockZero DEF Rotated
  <2>4. QED  BY <1>1, <1>2, <1>3, <1>4, <1>6, <2>1, <2>2, <2>3, OthersOK DEF Entering
<1>9. WorkspaceOK'
  BY <1>1, <1>2, <1>3, <1>4, <1>6, WorkspaceKept DEF Entering
<1>10. CellsOK' /\ SumsOK' /\ ReducedOK' /\ PaceOK'
  BY <1>2, <1>3, <1>4, <1>5, QuietStep DEF Past
<1>11. QED  BY <1>7, <1>8, <1>9, <1>10 DEF IInv

\* The counter counts the blocks that have read.
LEMMA CountInv ==
  ASSUME IInv, NEW r \in Ranks, NEW b \in Blocks, Count(r, b)
  PROVE  IInv'
<1>1. TypeOK /\ BlocksOK /\ WorkspaceOK  BY DEF IInv
<1> DEFINE new == [blk[r][b] EXCEPT !.pc = "work"]
<1>2. /\ blk[r][b].pc = "count"
      /\ sizes' = sizes /\ round' = round /\ buf' = buf /\ reduced' = reduced
      /\ flag' = flag /\ clear' = clear /\ counter' = [counter EXCEPT ![r] = @ + 1]
      /\ blk' = [blk EXCEPT ![r][b] = new]
  BY DEF Count
<1>3. /\ new \in BlockStates /\ new.pc = "work" /\ new.flag = blk[r][b].flag
      /\ new.clear = blk[r][b].clear
      /\ new.group = blk[r][b].group /\ new.got = blk[r][b].got /\ new.group \in Nat
  <2>1. blk[r][b] \in BlockStates  BY <1>1 DEF TypeOK
  <2>2. QED  BY <2>1 DEF BlockStates
<1> HIDE DEF new
<1>4. /\ blk' \in [Ranks -> [Blocks -> BlockStates]]
      /\ blk'[r][b] = new
      /\ \A q \in Ranks, c \in Blocks : q # r \/ c # b => blk'[q][c] = blk[q][c]
  BY <1>1, <1>2, <1>3 DEF TypeOK
<1>5. OneBlock(r, b)  BY <1>2, <1>3, <1>4 DEF OneBlock, Advances, Past
<1>6. NoLaunch  BY <1>1, <1>5, OneBlockNoLaunch
<1>7. TypeOK'
  <2>1. counter' \in [Ranks -> Nat]  BY <1>1, <1>2 DEF TypeOK
  <2>2. QED  BY <1>1, <1>2, <1>4, <2>1 DEF TypeOK
<1>8. /\ ~Rotated(r) /\ ~Rotated(r)' /\ round[r] > 0 /\ b < Grid(Groups(r))
      /\ blk[r][b].flag = Slot(round[r]) /\ blk[r][b].clear = Size(round[r] - 1)
      /\ blk[r][b].group < Groups(r) /\ blk[r][b].group % Grid(Groups(r)) = b
  BY <1>1, <1>2, <1>3, <1>4, BlockZero DEF BlocksOK, Entering, Working, Rotated
<1>9. BlocksOK'
  BY <1>1, <1>2, <1>3, <1>4, <1>6, <1>8, OthersOK DEF Entering
<1>10. WorkspaceOK'
  <2> SUFFICES ASSUME NEW q \in Ranks
               PROVE  IF Rotated(q)'
                      THEN /\ flag[q] = Slot(round[q] + 1)
                           /\ clear[q] = Size(round[q])
                           /\ counter'[q] = 0
                      ELSE /\ flag[q] = Slot(round[q])
                           /\ clear[q] = Size(round[q] - 1)
                           /\ counter'[q] = Cardinality(Counted(q)')
    BY <1>2 DEF WorkspaceOK, Size, Slot
  <2>1. CASE q # r
    <3>1. Rotated(q)' = Rotated(q)  BY <1>4, <2>1, BlockZero DEF Rotated
    <3>2. Counted(q)' = Counted(q)  BY <1>4, <1>6, <2>1, CountedKept
    <3>3. counter'[q] = counter[q]  BY <1>1, <1>2, <2>1 DEF TypeOK
    <3>4. QED  BY <1>1, <3>1, <3>2, <3>3 DEF WorkspaceOK
  <2>2. CASE q = r
    <3>1. b \notin Counted(r)  BY <1>2 DEF Counted, Entering
    <3>2. Counted(r)' = Counted(r) \cup {b}
      <4>1. Groups(r)' = Groups(r)  BY <1>2 DEF Groups
      <4>2. Grid(Groups(r))' = Grid(Groups(r))  BY <4>1 DEF Grid
      <4>3. b < Grid(Groups(r)) /\ blk'[r][b].pc \notin Entering
        BY <1>3, <1>4, <1>8 DEF Entering
      <4>4. \A c \in Blocks : c # b => blk'[r][c] = blk[r][c]  BY <1>4
      <4>5. QED  BY <4>2, <4>3, <4>4 DEF Counted
    <3>3. IsFiniteSet(Counted(r))  BY <1>1, <1>8, CountedFinite
    <3>4. Cardinality(Counted(r)') = Cardinality(Counted(r)) + 1
      BY <3>1, <3>2, <3>3, FS_AddElement
    <3>5. counter'[r] = counter[r] + 1  BY <1>1, <1>2 DEF TypeOK
    <3>6. QED  BY <1>1, <1>8, <2>2, <3>4, <3>5 DEF WorkspaceOK
  <2>3. QED  BY <2>1, <2>2
<1>11. CellsOK' /\ SumsOK' /\ ReducedOK' /\ PaceOK'
  BY <1>2, <1>3, <1>4, <1>5, QuietStep DEF Past
<1>12. QED  BY <1>7, <1>9, <1>10, <1>11 DEF IInv

\* A block that is gone holds nothing.
LEMMA GoneFact ==
  /\ Gone \in BlockStates /\ Gone.pc = "done" /\ Gone.group = 0 /\ Gone.got = NoSums
  BY SizeAssumption DEF Gone, NoSums, Slots, BlockStates

\* A block leaves after it has cleared its share.
LEMMA LeaveInv ==
  ASSUME IInv, NEW r \in Ranks, NEW b \in Blocks, Leave(r, b)
  PROVE  IInv'
<1>1. TypeOK /\ BlocksOK /\ WorkspaceOK  BY DEF IInv
<1>2. /\ blk[r][b].pc = "update" /\ b # 0
      /\ sizes' = sizes /\ round' = round /\ buf' = buf /\ reduced' = reduced
      /\ UNCHANGED workspace /\ blk' = [blk EXCEPT ![r][b] = Gone]
  BY DEF Leave
<1>3. /\ blk' \in [Ranks -> [Blocks -> BlockStates]]
      /\ blk'[r][b] = Gone
      /\ \A q \in Ranks, c \in Blocks : q # r \/ c # b => blk'[q][c] = blk[q][c]
  BY <1>1, <1>2, GoneFact DEF TypeOK
<1>4. OneBlock(r, b)  BY <1>2, <1>3, GoneFact DEF OneBlock, Advances, Past
<1>5. NoLaunch  BY <1>1, <1>4, OneBlockNoLaunch
<1>6. TypeOK'  BY <1>1, <1>2, <1>3 DEF TypeOK, workspace
<1>7. BlocksOK'
  <2>1. Rotated(r)' => Rotated(r)  BY <1>2, <1>3, BlockZero DEF Rotated
  <2>2. QED  BY <1>1, <1>3, <1>5, <2>1, GoneFact, OthersOK DEF Entering, Working
<1>8. WorkspaceOK'
  BY <1>1, <1>2, <1>3, <1>5, GoneFact, WorkspaceKept DEF Entering
<1>9. CellsOK' /\ SumsOK' /\ ReducedOK' /\ PaceOK'
  <2>1. Gone.group <= blk[r][b].group  BY <1>1, BlockType, GoneFact
  <2>2. QED  BY <1>2, <1>3, <1>4, <2>1, GoneFact, QuietStep DEF Past
<1>10. QED  BY <1>6, <1>7, <1>8, <1>9 DEF IInv

\* Block 0 rotates the slots when every block has read them.
LEMMA UpdateInv ==
  ASSUME IInv, NEW r \in Ranks, NEW b \in Blocks, Update(r, b)
  PROVE  IInv'
<1>1. TypeOK /\ BlocksOK /\ WorkspaceOK  BY DEF IInv
<1>2. /\ blk[r][b].pc = "update" /\ b = 0 /\ counter[r] = Grid(Groups(r))
      /\ sizes' = sizes /\ round' = round /\ buf' = buf /\ reduced' = reduced
      /\ flag' = [flag EXCEPT ![r] = (blk[r][b].flag + 1) % 3]
      /\ clear' = [clear EXCEPT ![r] = Leaders * Groups(r) * NRanks]
      /\ counter' = [counter EXCEPT ![r] = 0]
      /\ blk' = [blk EXCEPT ![r][b] = Gone]
  BY DEF Update
<1>3. /\ blk' \in [Ranks -> [Blocks -> BlockStates]]
      /\ blk'[r][b] = Gone
      /\ \A q \in Ranks, c \in Blocks : q # r \/ c # b => blk'[q][c] = blk[q][c]
  BY <1>1, <1>2, GoneFact DEF TypeOK
<1>4. OneBlock(r, b)  BY <1>2, <1>3, GoneFact DEF OneBlock, Advances, Past
<1>5. NoLaunch  BY <1>1, <1>4, OneBlockNoLaunch
<1>6. /\ round[r] > 0 /\ round[r] \in 1 .. Len(sizes) /\ ~Rotated(r)
      /\ blk[r][b].flag = Slot(round[r])
  BY <1>1, <1>2, BlockType DEF BlocksOK, Rotated
<1>7. clear'[r] = Size(round[r]) /\ clear'[r] \in 0 .. CommSize
  <2>1. Size(round[r]) = Leaders * sizes[round[r]] * NRanks /\ Size(round[r]) \in 0 .. CommSize
    BY <1>1, <1>6, RoundSize
  <2>2. QED  BY <1>1, <1>2, <2>1 DEF TypeOK, Groups
<1>8. flag'[r] = Slot(round[r] + 1) /\ flag'[r] \in Slots
  <2>1. round[r] \in Nat  BY <1>1, RoundType
  <2>2. flag'[r] = (((round[r] + 2) % 3) + 1) % 3  BY <1>1, <1>2, <1>6 DEF TypeOK, Slot
  <2>3. QED  BY <2>1, <2>2 DEF Slot, Slots
<1>9. TypeOK'
  <2>1. flag' \in [Ranks -> Slots] /\ clear' \in [Ranks -> 0 .. CommSize]
        /\ counter' \in [Ranks -> Nat]
    BY <1>1, <1>2, <1>7, <1>8 DEF TypeOK
  <2>2. QED  BY <1>1, <1>2, <1>3, <2>1 DEF TypeOK
<1>10. \A c \in Blocks : blk[r][c].pc \notin Entering
  <2>1. Cardinality(Counted(r)) = Grid(Groups(r))
    BY <1>1, <1>2, <1>6 DEF WorkspaceOK
  <2>2. Counted(r) = 0 .. Grid(Groups(r)) - 1  BY <1>1, <1>6, <2>1, CountedFinite
  <2>3. ASSUME NEW c \in Blocks, blk[r][c].pc \in Entering PROVE FALSE
    <3>1. c < Grid(Groups(r))  BY <1>1, <2>3 DEF BlocksOK, Entering
    <3>2. Grid(Groups(r)) \in Nat  BY <1>1, <1>6, Running
    <3>3. c \in 0 .. Grid(Groups(r)) - 1  BY <3>1, <3>2, GridAssumption DEF Blocks
    <3>4. QED  BY <2>2, <2>3, <3>3 DEF Counted
  <2>4. QED  BY <2>3
<1>11. BlocksOK'
  <2>1. \A c \in Blocks : blk'[r][c].pc \notin Entering
    BY <1>3, <1>10, GoneFact DEF Entering
  <2>2. QED  BY <1>1, <1>3, <1>5, <2>1, GoneFact, OthersOK DEF Entering, Working
<1>12. WorkspaceOK'
  <2> SUFFICES ASSUME NEW q \in Ranks
               PROVE  IF Rotated(q)'
                      THEN /\ flag'[q] = Slot(round[q] + 1)
                           /\ clear'[q] = Size(round[q])
                           /\ counter'[q] = 0
                      ELSE /\ flag'[q] = Slot(round[q])
                           /\ clear'[q] = Size(round[q] - 1)
                           /\ counter'[q] = Cardinality(Counted(q)')
    BY <1>2 DEF WorkspaceOK, Size, Slot
  <2>1. CASE q # r
    <3>1. Rotated(q)' = Rotated(q)  BY <1>3, <2>1, BlockZero DEF Rotated
    <3>2. Counted(q)' = Counted(q)  BY <1>3, <1>5, <2>1, CountedKept
    <3>3. counter'[q] = counter[q] /\ flag'[q] = flag[q] /\ clear'[q] = clear[q]
      BY <1>1, <1>2, <2>1 DEF TypeOK
    <3>4. QED  BY <1>1, <3>1, <3>2, <3>3 DEF WorkspaceOK
  <2>2. CASE q = r
    <3>1. Rotated(r)'  BY <1>2, <1>3, GoneFact DEF Rotated
    <3>2. counter'[r] = 0  BY <1>1, <1>2 DEF TypeOK
    <3>3. QED  BY <1>7, <1>8, <2>2, <3>1, <3>2
  <2>3. QED  BY <2>1, <2>2
<1>13. CellsOK' /\ SumsOK' /\ ReducedOK' /\ PaceOK'
  <2>1. Gone.group <= blk[r][b].group  BY <1>1, BlockType, GoneFact
  <2>2. QED  BY <1>2, <1>3, <1>4, <2>1, GoneFact, QuietStep DEF Past
<1>14. QED  BY <1>9, <1>11, <1>12, <1>13 DEF IInv

\* A block that has taken all sums of its group.
LEMMA AllTaken ==
  ASSUME TypeOK, SumsOK, NEW r \in Ranks, NEW b \in Blocks,
         \A t \in Threads : blk[r][b].got[t] # Empty,
         NEW w \in Warps, NEW t \in Ranks
  PROVE  From(r, blk[r][b].group, w, t)
<1>1. <<w, t>> \in Threads  BY DEF Threads
<1>2. blk[r][b].got[<<w, t>>] # Empty  BY <1>1
<1>3. TakenOK(r, b, w, t)  BY <1>2 DEF SumsOK
<1>4. QED  BY <1>3 DEF TakenOK

\* A group is reduced when a block goes on to its next.
LEMMA FinishInv ==
  ASSUME IInv, NEW r \in Ranks, NEW b \in Blocks, Finish(r, b)
  PROVE  IInv'
<1>1. TypeOK /\ BlocksOK /\ WorkspaceOK /\ CellsOK /\ SumsOK /\ ReducedOK /\ PaceOK  BY DEF IInv
<1> DEFINE me == blk[r][b]
           N == Groups(r)
           G == Grid(Groups(r))
           next == me.group + G
           new == [me EXCEPT !.group = next, !.sent = {}, !.got = NoSums,
                             !.pc = IF next < N THEN "work" ELSE "clear"]
<1>2. /\ me.pc = "work" /\ \A t \in Threads : me.got[t] # Empty
      /\ sizes' = sizes /\ round' = round /\ buf' = buf /\ UNCHANGED workspace
      /\ reduced' = [reduced EXCEPT ![r] = @ \cup {me.group}]
      /\ blk' = [blk EXCEPT ![r][b] = new]
  BY ZenonT(40) DEF Finish
<1>3. /\ round[r] > 0 /\ round[r] \in Nat /\ me.group \in Nat /\ me.group < N /\ me.group % G = b
      /\ N \in Nat \ {0} /\ G \in Nat \ {0} /\ b < G
      /\ me.flag = Slot(round[r]) /\ me.clear = Size(round[r] - 1)
  <2>1. round[r] > 0 /\ me.group < N /\ me.group % G = b /\ b < G
        /\ me.flag = Slot(round[r]) /\ me.clear = Size(round[r] - 1)
    BY <1>1, <1>2 DEF BlocksOK, Working
  <2>2. QED  BY <1>1, <2>1, Running, BlockType
<1>4. /\ new \in BlockStates /\ new.got = NoSums /\ new.group = next
      /\ new.pc = (IF next < N THEN "work" ELSE "clear")
      /\ new.flag = me.flag /\ new.clear = me.clear
  <2>1. me \in BlockStates  BY <1>1, BlockType
  <2>2. next \in Nat  BY <1>3
  <2>3. NoSums \in [Threads -> Sums \cup {Empty}]  BY DEF NoSums
  <2> HIDE DEF next, N, G
  <2>4. QED  BY <2>1, <2>2, <2>3 DEF BlockStates
<1> HIDE DEF new
<1>5. /\ blk' \in [Ranks -> [Blocks -> BlockStates]]
      /\ blk'[r][b] = new
      /\ \A q \in Ranks, c \in Blocks : q # r \/ c # b => blk'[q][c] = blk[q][c]
  BY <1>1, <1>2, <1>4 DEF TypeOK
<1>6. OneBlock(r, b)
  <2>1. me.group < new.group  BY <1>3, <1>4
  <2>2. QED  BY <1>2, <1>4, <1>5, <2>1 DEF OneBlock, Advances, Past
<1>7. NoLaunch  BY <1>1, <1>6, OneBlockNoLaunch
<1>8. TypeOK'
  <2>1. reduced' \in [Ranks -> SUBSET Nat]  BY <1>1, <1>2, <1>3 DEF TypeOK
  <2>2. QED  BY <1>1, <1>2, <1>5, <2>1 DEF TypeOK, workspace
<1>9. BlocksOK'
  <2>1. Rotated(r)' => Rotated(r)  BY <1>4, <1>5, BlockZero DEF Rotated
  <2>2. next % G = b  BY <1>3, Stride
  <2>3. new.pc \in Working => new.group < N /\ new.group % G = b
    BY <1>4, <2>2 DEF Working
  <2>4. new.pc # "done" /\ new.pc \notin Entering  BY <1>4 DEF Entering
  <2>5. QED  BY <1>1, <1>3, <1>4, <1>5, <1>7, <2>1, <2>3, <2>4, OthersOK
<1>10. WorkspaceOK'
  BY <1>1, <1>2, <1>4, <1>5, <1>7, WorkspaceKept DEF Entering
<1>11. CellsOK'
  BY <1>1, <1>2, <1>4, <1>5, <1>7, CellsKept
<1>12. SumsOK'
  BY <1>1, <1>4, <1>5, <1>7, SumsKept
<1>13. PaceOK'
  BY <1>1, <1>7, PaceKept
<1>14. ReducedOK'
  <2> SUFFICES ASSUME NEW q \in Ranks
               PROVE  /\ reduced'[q] # {} => round[q] > 0
                      /\ \A g \in reduced'[q] :
                           g < Groups(q) /\ \A w \in Warps, t \in Ranks : From(q, g, w, t)'
                      /\ round[q] > 0 =>
                           \A g \in 0 .. Groups(q) - 1 :
                             \/ blk'[q][g % Grid(Groups(q))].pc \in Past
                             \/ g < blk'[q][g % Grid(Groups(q))].group
                             => g \in reduced'[q]
    BY <1>2 DEF ReducedOK, Groups, Grid
  <2>1. /\ q = r => reduced'[q] = reduced[q] \cup {me.group}
        /\ q # r => reduced'[q] = reduced[q]
        /\ reduced[q] \subseteq Nat
    BY <1>1, <1>2 DEF TypeOK
  <2>2. reduced[q] # {} => round[q] > 0  BY <1>1 DEF ReducedOK
  <2>3. reduced'[q] # {} => round[q] > 0  BY <1>3, <2>1, <2>2
  <2>4. ASSUME NEW g \in reduced'[q]
        PROVE  g < Groups(q) /\ \A w \in Warps, t \in Ranks : From(q, g, w, t)'
    <3>1. round[q] > 0 /\ g \in Nat  BY <1>3, <2>1, <2>3, <2>4
    <3>2. g < Groups(q) /\ \A w \in Warps, t \in Ranks : From(q, g, w, t)
      <4>1. CASE g \in reduced[q]
        BY <1>1, <4>1 DEF ReducedOK
      <4>2. CASE q = r /\ g = me.group
        BY <1>1, <1>2, <1>3, <4>2, AllTaken
      <4>3. QED  BY <2>1, <2>4, <4>1, <4>2
    <3>3. QED  BY <1>1, <1>7, <3>1, <3>2, FromKept
  <2>5. ASSUME round[q] > 0, NEW g \in 0 .. Groups(q) - 1,
               \/ blk'[q][g % Grid(Groups(q))].pc \in Past
               \/ g < blk'[q][g % Grid(Groups(q))].group
        PROVE  g \in reduced'[q]
    <3> DEFINE c == g % Grid(Groups(q))
    <3>1. c \in Blocks /\ g \in Nat  BY <1>1, <2>5, Running
    <3>2. CASE q # r \/ c # b
      <4>1. blk'[q][c] = blk[q][c]  BY <1>5, <3>1, <3>2
      <4>2. blk[q][c].pc \in Past \/ g < blk[q][c].group  BY <2>5, <4>1
      <4>3. g \in reduced[q]  BY <1>1, <2>5, <4>2 DEF ReducedOK
      <4>4. QED  BY <2>1, <4>3
    <3>3. CASE q = r /\ c = b
      <4>1. g < next
        <5>1. new.pc \in Past \/ g < new.group  BY <1>5, <2>5, <3>3
        <5>2. CASE g < new.group  BY <1>4, <5>2
        <5>3. CASE new.pc \in Past
          <6>1. ~(next < N)  BY <1>4, <5>3 DEF Past
          <6>2. next \in Nat /\ N \in Nat /\ g < N  BY <1>3, <2>5, <3>3
          <6>3. QED  BY <3>1, <6>1, <6>2
        <5>4. QED  BY <5>1, <5>2, <5>3
      <4>2. g % G = me.group % G  BY <1>3, <3>3
      <4>3. g <= me.group  BY <1>3, <3>1, <4>1, <4>2, Stride
      <4>4. CASE g = me.group  BY <2>1, <3>3, <4>4
      <4>5. CASE g < me.group
        <5>1. g \in reduced[q]  BY <1>1, <2>5, <3>3, <4>5 DEF ReducedOK
        <5>2. QED  BY <2>1, <5>1
      <4>6. QED  BY <1>3, <3>1, <4>3, <4>4, <4>5
    <3>4. QED  BY <3>2, <3>3
  <2>6. QED  BY <2>3, <2>4, <2>5
<1>15. QED  BY <1>8, <1>9, <1>10, <1>11, <1>12, <1>13, <1>14 DEF IInv

\* The slots a block of a round writes to and empties.
LEMMA SlotFacts ==
  ASSUME NEW k \in Nat \ {0}
  PROVE  /\ DataSlot(Slot(k)) = Slot(k) /\ Slot(k) \in Slots
         /\ ClearSlot(Slot(k)) = Slot(k - 1) /\ Slot(k - 1) \in Slots
<1>1. (k + 2) % 3 \in 0 .. 2 /\ (k - 1 + 2) % 3 \in 0 .. 2  OBVIOUS
<1>2. ((k + 2) % 3) % 3 = (k + 2) % 3  OBVIOUS
<1>3. (((k + 2) % 3) + 2) % 3 = (k - 1 + 2) % 3  OBVIOUS
<1>4. QED  BY <1>1, <1>2, <1>3 DEF DataSlot, ClearSlot, Slot, Slots

\* What a step that empties cells, if it touches any, leaves in the others.
LEMMA CellsShrink ==
  ASSUME TypeOK, NoLaunch, CellsOK,
         \A t \in Ranks, s \in Slots, i \in Cells :
           buf'[t][s][i] # Empty =>
             /\ buf'[t][s][i] = buf[t][s][i]
             /\ buf[t][s][i].round + 1 = round[t] =>
                  blk'[t][(i \div BlockDim) % Grid(Groups(t))].pc
                    \in {"read", "count", "work", "clear"}
  PROVE  CellsOK'
<1> SUFFICES ASSUME NEW t \in Ranks, NEW s \in Slots, NEW i \in Cells
             PROVE  CellOK(t, s, i)'
  BY DEF CellsOK
<1> SUFFICES ASSUME NEW v, v = buf'[t][s][i], v # Empty
             PROVE  /\ v.round \in 1 .. round[v.src]
                    /\ v.round <= round[t] + 1 /\ round[t] <= v.round + 1
                    /\ s = Slot(v.round)
                    /\ v.group < sizes[v.round]
                    /\ i = Cell(sizes[v.round], v.src, v.group, v.warp)
                    /\ v.round + 1 = round[t] =>
                         blk'[t][(i \div BlockDim) % Grid(Groups(t))].pc
                           \in {"read", "count", "work", "clear"}
                    /\ v.round = round[v.src] => Pushed(v.src, v.group, v.warp, t)'
  BY SMTT(40) DEF CellOK, NoLaunch, Groups, Grid
<1>0. v = buf[t][s][i]
      /\ (v.round + 1 = round[t] =>
            blk'[t][(i \div BlockDim) % Grid(Groups(t))].pc \in {"read", "count", "work", "clear"})
  OBVIOUS
<1>1. v \in Sums  BY <1>0 DEF TypeOK
<1>2. v.src \in Ranks /\ v.round \in Nat /\ v.group \in Nat /\ v.warp \in Warps
  BY <1>1, SentinelFact
<1>3. /\ v.round \in 1 .. round[v.src] /\ v.round <= round[t] + 1 /\ round[t] <= v.round + 1
      /\ s = Slot(v.round)
      /\ v.group < sizes[v.round]
      /\ i = Cell(sizes[v.round], v.src, v.group, v.warp)
      /\ v.round = round[v.src] => Pushed(v.src, v.group, v.warp, t)
  BY <1>0 DEF CellsOK, CellOK
<1>4. ASSUME v.round = round[v.src] PROVE Pushed(v.src, v.group, v.warp, t)'
  <2>1. round[v.src] \in Nat  BY <1>2, RoundType
  <2>2. round[v.src] > 0
    <3>1. v.round \in 1 .. round[v.src]  BY <1>3
    <3>2. QED  BY <2>1, <3>1
  <2>3. QED  BY <1>2, <1>3, <1>4, <2>2, PushedGrows
<1>5. QED  BY <1>0, <1>3, <1>4

\* Which cells of a rank a block empties: in the slot of the round before.
LEMMA ClearFacts ==
  ASSUME TypeOK, BlocksOK, NEW r \in Ranks, NEW b \in Blocks, Clear(r, b)
  PROVE  LET mine == Share(b, Grid(Groups(r)), Size(round[r] - 1)) IN
         /\ round[r] \in Nat \ {0}
         /\ Slot(round[r] - 1) \in Slots
         /\ buf' \in [Ranks -> [Slots -> [Cells -> Sums \cup {Empty}]]]
         /\ \A t \in Ranks, s \in Slots, i \in Cells :
              buf'[t][s][i] = IF t = r /\ s = Slot(round[r] - 1) /\ i \in mine
                              THEN Empty ELSE buf[t][s][i]
<1> DEFINE mine == Share(b, Grid(Groups(r)), Size(round[r] - 1))
<1>1. /\ blk[r][b].flag = Slot(round[r]) /\ blk[r][b].clear = Size(round[r] - 1)
      /\ round[r] \in Nat \ {0}
  BY BlockType DEF BlocksOK, Clear
<1>2. ClearSlot(blk[r][b].flag) = Slot(round[r] - 1) /\ Slot(round[r] - 1) \in Slots
  BY <1>1, SlotFacts
<1>3. buf' = [buf EXCEPT ![r][Slot(round[r] - 1)] =
                [i \in Cells |-> IF i \in mine THEN Empty ELSE @[i]]]
  BY <1>1, <1>2 DEF Clear
<1> HIDE DEF mine
<1>4. buf \in [Ranks -> [Slots -> [Cells -> Sums \cup {Empty}]]]  BY DEF TypeOK
<1>5. \A t \in Ranks, s \in Slots, i \in Cells :
        buf'[t][s][i] = IF t = r /\ s = Slot(round[r] - 1) /\ i \in mine
                        THEN Empty ELSE buf[t][s][i]
  BY <1>2, <1>3, <1>4
<1>6. buf' \in [Ranks -> [Slots -> [Cells -> Sums \cup {Empty}]]]
  BY <1>2, <1>3, <1>4
<1>7. QED  BY <1>1, <1>2, <1>5, <1>6 DEF mine

\* A share is cleared when nobody reads it any more.
LEMMA ClearInv ==
  ASSUME IInv, NEW r \in Ranks, NEW b \in Blocks, Clear(r, b)
  PROVE  IInv'
<1>1. TypeOK /\ BlocksOK /\ WorkspaceOK /\ CellsOK /\ SumsOK /\ ReducedOK /\ PaceOK  BY DEF IInv
<1> DEFINE new == [blk[r][b] EXCEPT !.pc = "update"]
<1>2. /\ blk[r][b].pc = "clear"
      /\ sizes' = sizes /\ round' = round /\ UNCHANGED workspace /\ reduced' = reduced
      /\ blk' = [blk EXCEPT ![r][b] = new]
  BY DEF Clear
<1>3. /\ new \in BlockStates /\ new.pc = "update" /\ new.flag = blk[r][b].flag
      /\ new.clear = blk[r][b].clear
      /\ new.group = blk[r][b].group /\ new.got = blk[r][b].got /\ new.group \in Nat
  <2>1. blk[r][b] \in BlockStates  BY <1>1 DEF TypeOK
  <2>2. QED  BY <2>1 DEF BlockStates
<1> HIDE DEF new
<1>4. /\ blk' \in [Ranks -> [Blocks -> BlockStates]]
      /\ blk'[r][b] = new
      /\ \A q \in Ranks, c \in Blocks : q # r \/ c # b => blk'[q][c] = blk[q][c]
  BY <1>1, <1>2, <1>3 DEF TypeOK
<1>5. OneBlock(r, b)  BY <1>2, <1>3, <1>4 DEF OneBlock, Advances, Past
<1>6. NoLaunch  BY <1>1, <1>5, OneBlockNoLaunch
<1>7. TypeOK'
  BY <1>1, <1>2, <1>4, ClearFacts DEF TypeOK, workspace
<1>8. BlocksOK'
  <2>1. Rotated(r)' => Rotated(r)  BY <1>3, <1>4, BlockZero DEF Rotated
  <2>2. /\ round[r] > 0 /\ b < Grid(Groups(r))
        /\ blk[r][b].flag = Slot(round[r]) /\ blk[r][b].clear = Size(round[r] - 1)
    BY <1>1, <1>2 DEF BlocksOK
  <2>3. QED  BY <1>1, <1>3, <1>4, <1>6, <2>1, <2>2, OthersOK DEF Entering, Working
<1>9. WorkspaceOK'
  BY <1>1, <1>2, <1>3, <1>4, <1>6, WorkspaceKept DEF Entering
<1>10. CellsOK'
  <2> SUFFICES ASSUME NEW t \in Ranks, NEW s \in Slots, NEW i \in Cells,
                      buf'[t][s][i] # Empty
               PROVE  /\ buf'[t][s][i] = buf[t][s][i]
                      /\ buf[t][s][i].round + 1 = round[t] =>
                           blk'[t][(i \div BlockDim) % Grid(Groups(t))].pc
                             \in {"read", "count", "work", "clear"}
    BY <1>1, <1>6, CellsShrink
  <2>1. buf'[t][s][i] = buf[t][s][i]  BY <1>1, ClearFacts
  <2>2. ASSUME buf[t][s][i].round + 1 = round[t]
        PROVE  blk'[t][(i \div BlockDim) % Grid(Groups(t))].pc
                 \in {"read", "count", "work", "clear"}
    <3> DEFINE v == buf[t][s][i]  c == (i \div BlockDim) % Grid(Groups(t))
    <3>1. v \in Sums /\ v # Empty  BY <1>1, <2>1 DEF TypeOK
    <3>2. v.src \in Ranks /\ v.round \in Nat /\ v.group \in Nat /\ v.warp \in Warps
      BY <3>1, SentinelFact
    <3>3. /\ s = Slot(v.round) /\ v.group < sizes[v.round] /\ v.round \in 1 .. round[v.src]
          /\ i = Cell(sizes[v.round], v.src, v.group, v.warp)
          /\ blk[t][c].pc \in {"read", "count", "work", "clear"}
      BY <1>1, <2>2, <3>1 DEF CellsOK, CellOK
    <3>4. c \in Blocks
      <4>1. i \div BlockDim \in Nat  BY SpanType
      <4>2. round[t] > 0  BY <2>2, <3>2
      <4>3. QED  BY <1>1, <4>1, <4>2, Running
    <3>5. ASSUME t = r, c = b PROVE FALSE
      <4>1. v.round = round[r] - 1 /\ round[r] \in Nat  BY <1>1, <2>2, <3>2, <3>5, RoundType
      <4>2. v.round \in 1 .. Len(sizes)
        <5>1. round[v.src] \in 0 .. Len(sizes)  BY <1>1, <3>2 DEF TypeOK
        <5>2. Len(sizes) \in Nat  BY <1>1, SizeAssumption DEF TypeOK
        <5>3. v.round \in 1 .. round[v.src]  BY <3>3
        <5> HIDE DEF v
        <5>4. QED  BY <5>1, <5>2, <5>3
      <4>3. sizes[v.round] \in Nat \ {0}
            /\ Size(v.round) = Leaders * sizes[v.round] * NRanks
            /\ Size(v.round) \in 0 .. CommSize
        BY <1>1, <4>2, RoundSize
      <4>4. v.group \in 0 .. sizes[v.round] - 1  BY <3>2, <3>3, <4>3
      <4>5. i \in 0 .. Leaders * sizes[v.round] * NRanks - 1  BY <3>2, <3>3, <4>3, <4>4, CellBound
      <4>6. i < Size(round[r] - 1)  BY <4>1, <4>3, <4>5
      <4>7. i \in Share(b, Grid(Groups(r)), Size(round[r] - 1))  BY <3>5, <4>6 DEF Share
      <4>8. s = Slot(round[r] - 1)  BY <3>3, <4>1
      <4>9. buf'[t][s][i] = Empty  BY <1>1, <3>5, <4>7, <4>8, ClearFacts
      <4>10. QED  BY <4>9
    <3>6. blk'[t][c] = blk[t][c]  BY <1>4, <3>4, <3>5
    <3>7. QED  BY <3>3, <3>6
  <2>3. QED  BY <2>1, <2>2
<1>11. SumsOK'
  <2>1. blk'[r][b].got = NoSums  BY <1>1, <1>2, <1>3, <1>4, NothingTaken
  <2>2. QED  BY <1>1, <1>4, <1>6, <2>1, SumsKept
<1>12. ReducedOK'
  <2>1. \A q \in Ranks, c \in Blocks :
          blk'[q][c].group <= blk[q][c].group
          /\ (blk'[q][c].pc \in Past => blk[q][c].pc \in Past)
    BY <1>1, <1>2, <1>3, <1>4, BlockType DEF Past
  <2>2. QED  BY <1>1, <1>2, <1>6, <2>1, ReducedKept
<1>13. PaceOK'  BY <1>1, <1>6, PaceKept
<1>14. QED  BY <1>7, <1>8, <1>9, <1>10, <1>11, <1>12, <1>13 DEF IInv

\* A warp that works: its place and its cell.
LEMMA WorkFacts ==
  ASSUME TypeOK, BlocksOK, NEW r \in Ranks, NEW b \in Blocks, blk[r][b].pc = "work",
         NEW w \in Warps, NEW t \in Ranks
  PROVE  LET g == blk[r][b].group  n == sizes[round[r]] IN
         /\ round[r] \in Nat \ {0} /\ round[r] \in 1 .. Len(sizes)
         /\ n \in Nat \ {0} /\ n = Groups(r)
         /\ g \in 0 .. n - 1 /\ g % Grid(Groups(r)) = b /\ b < Grid(Groups(r))
         /\ blk[r][b].flag = Slot(round[r])
         /\ blk[r][b].clear = Size(round[r] - 1)
         /\ DataSlot(blk[r][b].flag) = Slot(round[r])
         /\ Slot(round[r]) \in Slots
         /\ Cell(n, t, g, w) \in Cells
<1> DEFINE g == blk[r][b].group  n == sizes[round[r]]
<1>1. /\ round[r] \in Nat \ {0} /\ g \in Nat /\ g < Groups(r)
      /\ g % Grid(Groups(r)) = b /\ b < Grid(Groups(r))
      /\ blk[r][b].flag = Slot(round[r]) /\ blk[r][b].clear = Size(round[r] - 1)
  BY BlockType DEF BlocksOK, Working
<1>2. round[r] \in 1 .. Len(sizes)  BY <1>1, Running
<1>3. n \in Nat \ {0} /\ n = Groups(r)
      /\ Size(round[r]) = Leaders * n * NRanks /\ Size(round[r]) \in 0 .. CommSize
  BY <1>2, RoundSize DEF Groups
<1>4. g \in 0 .. n - 1  BY <1>1, <1>3
<1>5. Cell(n, t, g, w) \in 0 .. Leaders * n * NRanks - 1  BY <1>3, <1>4, CellBound
<1>6. Cell(n, t, g, w) \in Cells  BY <1>3, <1>5, SizeAssumption DEF Cells
<1>7. DataSlot(Slot(round[r])) = Slot(round[r]) /\ Slot(round[r]) \in Slots  BY <1>1, SlotFacts
<1>8. QED  BY <1>1, <1>2, <1>3, <1>4, <1>6, <1>7

\* Sums in one slot and cell, at most two rounds apart, are the same sum.
LEMMA SamePlace ==
  ASSUME TypeOK, NEW j \in 1 .. Len(sizes), NEW k \in 1 .. Len(sizes),
         NEW p \in Ranks, NEW h \in 0 .. sizes[j] - 1, NEW x \in Warps,
         NEW q \in Ranks, NEW g \in 0 .. sizes[k] - 1, NEW w \in Warps,
         j <= k + 2, k <= j + 2, Slot(j) = Slot(k),
         Cell(sizes[j], p, h, x) = Cell(sizes[k], q, g, w)
  PROVE  j = k /\ p = q /\ h = g /\ x = w
<1>1. j = k  BY ThreeSlots DEF Slot
<1>2. sizes[k] \in Nat \ {0}  BY RoundSize
<1>3. QED  BY <1>1, <1>2, CellInjective

\* What a lane finds in the cell it looks at.
LEMMA FoundIsAwaited ==
  ASSUME TypeOK, BlocksOK, CellsOK,
         NEW r \in Ranks, NEW b \in Blocks, blk[r][b].pc = "work",
         NEW w \in Warps, NEW t \in Ranks,
         NEW v, v # Empty,
         v = buf[r][DataSlot(blk[r][b].flag)][Cell(Groups(r), t, blk[r][b].group, w)]
  PROVE  /\ v \in Sums
         /\ v = [src |-> t, round |-> round[r], group |-> blk[r][b].group, warp |-> w]
         /\ From(r, blk[r][b].group, w, t)
<1> DEFINE g == blk[r][b].group  n == sizes[round[r]]  i == Cell(n, t, g, w)
<1>1. /\ round[r] \in Nat \ {0} /\ round[r] \in 1 .. Len(sizes)
      /\ n = Groups(r) /\ g \in 0 .. n - 1
      /\ DataSlot(blk[r][b].flag) = Slot(round[r])
      /\ Slot(round[r]) \in Slots /\ i \in Cells
  BY WorkFacts
<1>2. v = buf[r][Slot(round[r])][i]  BY <1>1
<1> HIDE DEF n, g, i
<1>3. v \in Sums  BY <1>1, <1>2 DEF TypeOK
<1>4. v.src \in Ranks /\ v.round \in Nat /\ v.group \in Nat /\ v.warp \in Warps
  BY <1>3, SentinelFact
<1>5. /\ v.round \in 1 .. round[v.src] /\ v.round <= round[r] + 1 /\ round[r] <= v.round + 1
      /\ Slot(round[r]) = Slot(v.round)
      /\ v.group < sizes[v.round]
      /\ i = Cell(sizes[v.round], v.src, v.group, v.warp)
      /\ v.round = round[v.src] => Pushed(v.src, v.group, v.warp, r)
  BY <1>1, <1>2, ZenonT(40) DEF CellsOK, CellOK
<1>6. round[v.src] \in 0 .. Len(sizes) /\ Len(sizes) \in Nat
  <2>1. round \in [Ranks -> 0 .. Len(sizes)]  BY DEF TypeOK
  <2>2. sizes \in Seq(Nat \ {0})  BY SizeAssumption DEF TypeOK
  <2>3. Len(sizes) \in Nat  BY <2>2
  <2>4. round[v.src] \in 0 .. Len(sizes)  BY <1>4, <2>1
  <2>5. QED  BY <2>3, <2>4
<1>7. v.round \in 1 .. Len(sizes) /\ v.round <= round[r] + 2 /\ round[r] <= v.round + 2
      /\ v.round <= round[v.src]
  <2>1. v.round \in 1 .. round[v.src] /\ v.round <= round[r] + 1 /\ round[r] <= v.round + 1
    BY <1>5
  <2>2. v.round \in Nat /\ round[r] \in Nat  BY <1>1, <1>4
  <2>3. PICK a, m, k, L : a = v.round /\ m = round[v.src] /\ k = round[r] /\ L = Len(sizes)
    OBVIOUS
  <2>4. a \in 1 .. m /\ m \in 0 .. L /\ L \in Nat /\ a \in Nat /\ k \in Nat
        /\ a <= k + 1 /\ k <= a + 1
    BY <1>6, <2>1, <2>2, <2>3
  <2>5. a \in 1 .. L /\ a <= k + 2 /\ k <= a + 2 /\ a <= m  BY <2>4
  <2>6. QED  BY <2>3, <2>5
<1>8. v = [src |-> t, round |-> round[r], group |-> g, warp |-> w]
  <2>1. g \in 0 .. sizes[round[r]] - 1  BY <1>1 DEF n
  <2>2. Slot(v.round) = Slot(round[r])  BY <1>5
  <2>3. Cell(sizes[v.round], v.src, v.group, v.warp) = Cell(sizes[round[r]], t, g, w)
    BY <1>5 DEF n, i
  <2>4. v.group < sizes[v.round]  BY <1>5
  <2>5. PICK k, h, j, p, f, x :
          /\ k = round[r] /\ h = g
          /\ j = v.round /\ p = v.src /\ f = v.group /\ x = v.warp
    OBVIOUS
  <2>6. sizes[j] \in Nat \ {0}  BY <1>7, <2>5, RoundSize
  <2>7. /\ k \in 1 .. Len(sizes) /\ h \in 0 .. sizes[k] - 1
        /\ j \in 1 .. Len(sizes) /\ p \in Ranks /\ x \in Warps /\ f \in 0 .. sizes[j] - 1
    <3>1. k \in 1 .. Len(sizes) /\ h \in 0 .. sizes[k] - 1  BY <1>1, <2>1, <2>5
    <3>2. j \in 1 .. Len(sizes)  BY <1>7, <2>5
    <3>3. p \in Ranks /\ x \in Warps /\ f \in Nat  BY <1>4, <2>5
    <3>4. f < sizes[j]  BY <2>4, <2>5
    <3>5. f \in 0 .. sizes[j] - 1  BY <2>6, <3>3, <3>4
    <3>6. QED  BY <3>1, <3>2, <3>3, <3>5
  <2>8. Slot(j) = Slot(k) /\ Cell(sizes[j], p, f, x) = Cell(sizes[k], t, h, w)
    BY <2>2, <2>3, <2>5
  <2>9. j <= k + 2 /\ k <= j + 2  BY <1>7, <2>5
  <2>10. j = k /\ p = t /\ f = h /\ x = w  BY <2>7, <2>8, <2>9, SamePlace
  <2>11. v = [src |-> v.src, round |-> v.round, group |-> v.group, warp |-> v.warp]
    BY <1>3 DEF Sums
  <2>12. QED  BY <2>5, <2>10, <2>11
<1>9. v.src = t /\ v.round = round[r] /\ v.group = g /\ v.warp = w  BY <1>8
<1>10. From(r, g, w, t)
  BY <1>1, <1>5, <1>6, <1>7, <1>9 DEF From
<1>11. QED  BY <1>3, <1>8, <1>10 DEF g

\* A lane takes the sum it waits for.
LEMMA PullInv ==
  ASSUME IInv, NEW r \in Ranks, NEW b \in Blocks, NEW w \in Warps, NEW t \in Ranks,
         Pull(r, b, w, t)
  PROVE  IInv'
<1>1. TypeOK /\ BlocksOK /\ WorkspaceOK /\ CellsOK /\ SumsOK /\ ReducedOK /\ PaceOK  BY DEF IInv
<1> DEFINE me == blk[r][b]
           value == buf[r][DataSlot(me.flag)][Cell(Groups(r), t, me.group, w)]
           new == [me EXCEPT !.got[<<w, t>>] = value]
<1>2. /\ me.pc = "work" /\ value # Empty
      /\ sizes' = sizes /\ round' = round /\ UNCHANGED workspace /\ buf' = buf
      /\ reduced' = reduced
      /\ blk' = [blk EXCEPT ![r][b] = new]
  BY DEF Pull
<1>3. /\ value \in Sums
      /\ value = [src |-> t, round |-> round[r], group |-> me.group, warp |-> w]
      /\ From(r, me.group, w, t)
  <2>1. PICK v : v = value  OBVIOUS
  <2>2. QED  BY <1>1, <1>2, <2>1, FoundIsAwaited
<1> HIDE DEF value
<1>4. /\ new \in BlockStates /\ new.pc = me.pc /\ new.flag = me.flag /\ new.clear = me.clear
      /\ new.group = me.group /\ new.sent = me.sent
      /\ new.got[<<w, t>>] = value
      /\ \A x \in Threads : x # <<w, t>> => new.got[x] = me.got[x]
  <2>1. me \in BlockStates /\ <<w, t>> \in Threads  BY <1>1, BlockType DEF Threads
  <2>2. QED  BY <1>3, <2>1 DEF BlockStates
<1> HIDE DEF new
<1>5. /\ blk' \in [Ranks -> [Blocks -> BlockStates]]
      /\ blk'[r][b] = new
      /\ \A q \in Ranks, c \in Blocks : q # r \/ c # b => blk'[q][c] = blk[q][c]
  BY <1>1, <1>2, <1>4 DEF TypeOK
<1>6. OneBlock(r, b)  BY <1>2, <1>4, <1>5 DEF OneBlock, Advances, Past
<1>7. NoLaunch  BY <1>1, <1>6, OneBlockNoLaunch
<1>8. TypeOK'  BY <1>1, <1>2, <1>5 DEF TypeOK, workspace
<1>9. BlocksOK'
  <2>1. Rotated(r)' => Rotated(r)  BY <1>2, <1>4, <1>5, BlockZero DEF Rotated
  <2>2. /\ round[r] > 0 /\ b < Grid(Groups(r)) /\ me.group < Groups(r)
        /\ me.group % Grid(Groups(r)) = b
        /\ me.flag = Slot(round[r]) /\ me.clear = Size(round[r] - 1)
    BY <1>1, <1>2 DEF BlocksOK, Working
  <2>3. QED  BY <1>1, <1>2, <1>4, <1>5, <1>7, <2>1, <2>2, OthersOK DEF Entering
<1>10. WorkspaceOK'
  BY <1>1, <1>2, <1>4, <1>5, <1>7, WorkspaceKept DEF Entering
<1>11. CellsOK'
  BY <1>1, <1>2, <1>4, <1>5, <1>7, CellsKept
<1>12. \A q \in Ranks, c \in Blocks :
         /\ blk'[q][c].group = blk[q][c].group
         /\ blk'[q][c].pc = blk[q][c].pc
         /\ blk[q][c].group \in Nat
  BY <1>1, <1>4, <1>5, BlockType
<1>13. SumsOK'
  <2> SUFFICES ASSUME NEW q \in Ranks, NEW c \in Blocks, NEW x \in Warps, NEW y \in Ranks,
                      blk'[q][c].got[<<x, y>>] # Empty
               PROVE  /\ blk[q][c].pc = "work"
                      /\ blk'[q][c].got[<<x, y>>] =
                           [src |-> y, round |-> round[q], group |-> blk[q][c].group, warp |-> x]
                      /\ From(q, blk[q][c].group, x, y)'
    <3>1. round' = round  BY <1>2
    <3>2. QED  BY <1>12, <3>1 DEF SumsOK, TakenOK
  <2>1. /\ blk[q][c].pc = "work"
        /\ blk'[q][c].got[<<x, y>>] =
             [src |-> y, round |-> round[q], group |-> blk[q][c].group, warp |-> x]
        /\ From(q, blk[q][c].group, x, y)
    <3>1. CASE q = r /\ c = b /\ <<x, y>> = <<w, t>>
      BY <1>2, <1>3, <1>4, <1>5, <3>1
    <3>2. CASE ~(q = r /\ c = b /\ <<x, y>> = <<w, t>>)
      <4>1. blk'[q][c].got[<<x, y>>] = blk[q][c].got[<<x, y>>]
        BY <1>4, <1>5, <3>2 DEF Threads
      <4>2. TakenOK(q, c, x, y)  BY <1>1, <4>1 DEF SumsOK
      <4>3. QED  BY <4>1, <4>2 DEF TakenOK
    <3>3. QED  BY <3>1, <3>2
  <2>2. round[q] > 0 /\ blk[q][c].group \in Nat  BY <1>1, <2>1, BlockType DEF BlocksOK
  <2>3. PICK g \in Nat : g = blk[q][c].group  BY <2>2
  <2>4. From(q, g, x, y)'  BY <1>1, <1>7, <2>1, <2>2, <2>3, FromKept
  <2>5. From(q, blk[q][c].group, x, y)'  BY <1>12, <2>3, <2>4
  <2>6. QED  BY <2>1, <2>5
<1>14. ReducedOK'
  <2>1. \A q \in Ranks, c \in Blocks :
          blk'[q][c].group <= blk[q][c].group
          /\ (blk'[q][c].pc \in Past => blk[q][c].pc \in Past)
    BY <1>12
  <2>2. QED  BY <1>1, <1>2, <1>7, <2>1, ReducedKept
<1>15. PaceOK'  BY <1>1, <1>7, PaceKept
<1>16. QED  BY <1>8, <1>9, <1>10, <1>11, <1>13, <1>14, <1>15 DEF IInv

\* Before a lane pushes, its block has not pushed the sum.
LEMMA NotPushed ==
  ASSUME TypeOK, BlocksOK, NEW r \in Ranks, NEW b \in Blocks, NEW w \in Warps, NEW t \in Ranks,
         blk[r][b].pc = "work", <<w, t>> \notin blk[r][b].sent
  PROVE  ~Pushed(r, blk[r][b].group, w, t)
<1>1. blk[r][b].group % Grid(Groups(r)) = b /\ blk[r][b].group \in Nat
  BY BlockType DEF BlocksOK, Working
<1>2. QED  BY <1>1 DEF Pushed, Past

\* A rank that is pushed to is in the round of the sum or about to enter it,
\* and the cell is empty.
LEMMA PushToEmpty ==
  ASSUME TypeOK, BlocksOK, CellsOK, PaceOK,
         NEW r \in Ranks, NEW b \in Blocks, NEW w \in Warps, NEW t \in Ranks,
         blk[r][b].pc = "work", <<w, t>> \notin blk[r][b].sent
  PROVE  /\ round[t] <= round[r] /\ round[r] <= round[t] + 1
         /\ buf[t][Slot(round[r])][Cell(sizes[round[r]], r, blk[r][b].group, w)] = Empty
<1> DEFINE n == sizes[round[r]]
<1>1. PICK g : g = blk[r][b].group  OBVIOUS
<1> DEFINE i == Cell(n, r, g, w)
<1>2. /\ round[r] \in Nat \ {0} /\ round[r] \in 1 .. Len(sizes)
      /\ n = Groups(r) /\ g \in 0 .. n - 1
      /\ Slot(round[r]) \in Slots /\ i \in Cells
  BY <1>1, WorkFacts
<1>3. ~Pushed(r, g, w, t)  BY <1>1, NotPushed
<1>4. round[t] \in Nat  BY RoundType
<1>5. round[r] <= round[t] + 1 /\ round[t] <= round[r] + 1  BY DEF PaceOK
<1>6. round[t] # round[r] + 1
  BY <1>2, <1>3 DEF PaceOK
<1>7. round[t] <= round[r]  BY <1>2, <1>4, <1>5, <1>6
<1>8. SUFFICES ASSUME NEW v, v = buf[t][Slot(round[r])][i], v # Empty PROVE FALSE
  BY <1>1, <1>5, <1>7
<1> HIDE DEF n, i
<1>9. v \in Sums  BY <1>2, <1>8 DEF TypeOK
<1>10. v.src \in Ranks /\ v.round \in Nat /\ v.group \in Nat /\ v.warp \in Warps
  BY <1>9, SentinelFact
<1>11. /\ v.round \in 1 .. round[v.src] /\ v.round <= round[t] + 1 /\ round[t] <= v.round + 1
       /\ Slot(round[r]) = Slot(v.round)
       /\ v.group < sizes[v.round]
       /\ i = Cell(sizes[v.round], v.src, v.group, v.warp)
       /\ v.round = round[v.src] => Pushed(v.src, v.group, v.warp, t)
  BY <1>2, <1>8 DEF CellsOK, CellOK
<1>12. round[v.src] \in 0 .. Len(sizes) /\ Len(sizes) \in Nat
  BY <1>10, SizeAssumption DEF TypeOK
<1>13. PICK k, j, m, L, q :
         /\ k = round[r] /\ j = v.round /\ m = round[v.src] /\ L = Len(sizes) /\ q = round[t]
  OBVIOUS
<1>14. /\ j \in 1 .. m /\ j <= q + 1 /\ q <= j + 1 /\ q <= k /\ k <= q + 1
       /\ m \in 0 .. L /\ L \in Nat /\ j \in Nat /\ k \in Nat /\ q \in Nat
  BY <1>2, <1>4, <1>5, <1>7, <1>10, <1>11, <1>12, <1>13
<1>15. j \in 1 .. L /\ j <= k + 2 /\ k <= j + 2  BY <1>14
<1>16. PICK p, f, x : p = v.src /\ f = v.group /\ x = v.warp  OBVIOUS
<1>17. j = k /\ p = r /\ f = g /\ x = w
  <2>1. sizes[j] \in Nat \ {0}  BY <1>13, <1>15, RoundSize
  <2>2. p \in Ranks /\ x \in Warps /\ f \in Nat  BY <1>10, <1>16
  <2>3. f < sizes[j]  BY <1>11, <1>13, <1>16
  <2>4. f \in 0 .. sizes[j] - 1  BY <2>1, <2>2, <2>3
  <2>5. k \in 1 .. Len(sizes) /\ g \in 0 .. sizes[k] - 1  BY <1>2, <1>13 DEF n
  <2>6. j \in 1 .. Len(sizes)  BY <1>13, <1>15
  <2>7. Slot(j) = Slot(k)  BY <1>11, <1>13
  <2>8. Cell(sizes[j], p, f, x) = Cell(sizes[k], r, g, w)  BY <1>11, <1>13, <1>16 DEF i, n
  <2>9. QED  BY <1>15, <2>2, <2>4, <2>5, <2>6, <2>7, <2>8, SamePlace
<1>18. Pushed(p, f, x, t)
  <2>1. v.round = round[v.src]  BY <1>13, <1>16, <1>17
  <2>2. QED  BY <1>11, <1>16, <2>1
<1>19. QED  BY <1>3, <1>17, <1>18

\* What a push does to the cells.
LEMMA PushFacts ==
  ASSUME TypeOK, BlocksOK,
         NEW r \in Ranks, NEW b \in Blocks, NEW w \in Warps, NEW t \in Ranks, Push(r, b, w, t)
  PROVE  LET sum == [src |-> r, round |-> round[r], group |-> blk[r][b].group, warp |-> w]
             i == Cell(sizes[round[r]], r, blk[r][b].group, w)
         IN  /\ buf' \in [Ranks -> [Slots -> [Cells -> Sums \cup {Empty}]]]
             /\ \A q \in Ranks, s \in Slots, c \in Cells :
                  buf'[q][s][c] = IF q = t /\ s = Slot(round[r]) /\ c = i
                                  THEN sum ELSE buf[q][s][c]
<1> DEFINE g == blk[r][b].group
           sum == [src |-> r, round |-> round[r], group |-> g, warp |-> w]
           i == Cell(sizes[round[r]], r, g, w)
           s0 == Slot(round[r])
<1>1. blk[r][b].pc = "work"  BY DEF Push
<1>2. /\ round[r] \in Nat \ {0} /\ sizes[round[r]] = Groups(r) /\ g \in Nat
      /\ DataSlot(blk[r][b].flag) = s0 /\ s0 \in Slots /\ i \in Cells
  BY <1>1, WorkFacts, BlockType
<1>3. buf' = [buf EXCEPT ![t][s0][i] = sum]
  BY <1>2 DEF Push
<1>4. sum \in Sums  BY <1>2 DEF Sums
<1> HIDE DEF sum, i, s0, g
<1>5. buf \in [Ranks -> [Slots -> [Cells -> Sums \cup {Empty}]]]  BY DEF TypeOK
<1>6. \A q \in Ranks, s \in Slots, c \in Cells :
        buf'[q][s][c] = IF q = t /\ s = s0 /\ c = i THEN sum ELSE buf[q][s][c]
  BY <1>2, <1>3, <1>5
<1>7. buf' \in [Ranks -> [Slots -> [Cells -> Sums \cup {Empty}]]]
  BY <1>2, <1>3, <1>4, <1>5
<1>8. QED  BY <1>6, <1>7 DEF sum, i, s0, g

\* A push leaves all other cells alone.
LEMMA PushElsewhere ==
  ASSUME TypeOK, BlocksOK,
         NEW r \in Ranks, NEW b \in Blocks, NEW w \in Warps, NEW t \in Ranks, Push(r, b, w, t),
         NEW q \in Ranks, NEW s \in Slots, NEW c \in Cells,
         ~(q = t /\ s = Slot(round[r]) /\ c = Cell(sizes[round[r]], r, blk[r][b].group, w))
  PROVE  buf'[q][s][c] = buf[q][s][c]
<1> DEFINE sum == [src |-> r, round |-> round[r], group |-> blk[r][b].group, warp |-> w]
           i == Cell(sizes[round[r]], r, blk[r][b].group, w)
<1>1. \A x \in Ranks, y \in Slots, z \in Cells :
        buf'[x][y][z] = IF x = t /\ y = Slot(round[r]) /\ z = i THEN sum ELSE buf[x][y][z]
  BY PushFacts
<1>2. ~(q = t /\ s = Slot(round[r]) /\ c = i)  OBVIOUS
<1> HIDE DEF sum, i
<1>3. QED  BY <1>1, <1>2

\* A lane pushes to an empty cell that its round owns.
LEMMA PushInv ==
  ASSUME IInv, NEW r \in Ranks, NEW b \in Blocks, NEW w \in Warps, NEW t \in Ranks,
         Push(r, b, w, t)
  PROVE  IInv'
<1>1. TypeOK /\ BlocksOK /\ WorkspaceOK /\ CellsOK /\ SumsOK /\ ReducedOK /\ PaceOK  BY DEF IInv
<1> DEFINE me == blk[r][b]
           new == [me EXCEPT !.sent = @ \cup {<<w, t>>}]
<1>2. /\ me.pc = "work" /\ <<w, t>> \notin me.sent
      /\ sizes' = sizes /\ round' = round /\ UNCHANGED workspace /\ reduced' = reduced
      /\ blk' = [blk EXCEPT ![r][b] = new]
  BY DEF Push
<1>3. /\ new \in BlockStates /\ new.pc = me.pc /\ new.flag = me.flag /\ new.clear = me.clear
      /\ new.group = me.group /\ new.got = me.got
      /\ new.sent = me.sent \cup {<<w, t>>}
  <2>1. me \in BlockStates /\ <<w, t>> \in Threads  BY <1>1, BlockType DEF Threads
  <2>2. QED  BY <2>1 DEF BlockStates
<1> HIDE DEF new
<1>4. /\ blk' \in [Ranks -> [Blocks -> BlockStates]]
      /\ blk'[r][b] = new
      /\ \A q \in Ranks, c \in Blocks : q # r \/ c # b => blk'[q][c] = blk[q][c]
  BY <1>1, <1>2, <1>3 DEF TypeOK
<1>5. OneBlock(r, b)  BY <1>2, <1>3, <1>4 DEF OneBlock, Advances, Past
<1>6. NoLaunch  BY <1>1, <1>5, OneBlockNoLaunch
<1>7. TypeOK'  BY <1>1, <1>2, <1>4, PushFacts DEF TypeOK, workspace
<1>8. BlocksOK'
  <2>1. Rotated(r)' => Rotated(r)  BY <1>2, <1>3, <1>4, BlockZero DEF Rotated
  <2>2. /\ round[r] > 0 /\ b < Grid(Groups(r)) /\ me.group < Groups(r)
        /\ me.group % Grid(Groups(r)) = b
        /\ me.flag = Slot(round[r]) /\ me.clear = Size(round[r] - 1)
    BY <1>1, <1>2 DEF BlocksOK, Working
  <2>3. QED  BY <1>1, <1>2, <1>3, <1>4, <1>6, <2>1, <2>2, OthersOK DEF Entering
<1>9. WorkspaceOK'
  BY <1>1, <1>2, <1>3, <1>4, <1>6, WorkspaceKept DEF Entering
<1>10. \A q \in Ranks, c \in Blocks :
         /\ blk'[q][c].group = blk[q][c].group
         /\ blk'[q][c].pc = blk[q][c].pc
         /\ blk'[q][c].got = blk[q][c].got
         /\ blk[q][c].group \in Nat
  BY <1>1, <1>3, <1>4, BlockType
<1>11. SumsOK'  BY <1>1, <1>6, <1>10, SumsKept
<1>12. ReducedOK'
  <2>1. \A q \in Ranks, c \in Blocks :
          blk'[q][c].group <= blk[q][c].group
          /\ (blk'[q][c].pc \in Past => blk[q][c].pc \in Past)
    BY <1>10
  <2>2. QED  BY <1>1, <1>2, <1>6, <2>1, ReducedKept
<1>13. PaceOK'  BY <1>1, <1>6, PaceKept
<1>14. CellsOK'
  <2> SUFFICES ASSUME NEW q \in Ranks, NEW s \in Slots, NEW i \in Cells
               PROVE  CellOK(q, s, i)'
    BY DEF CellsOK
  <2>0. sizes' = sizes /\ round' = round /\ Grid(Groups(q))' = Grid(Groups(q))
    BY <1>2 DEF Groups, Grid
  <2> SUFFICES ASSUME NEW v, v = buf'[q][s][i], v # Empty
               PROVE  /\ v.round \in 1 .. round[v.src]
                      /\ v.round <= round[q] + 1 /\ round[q] <= v.round + 1
                      /\ s = Slot(v.round)
                      /\ v.group < sizes[v.round]
                      /\ i = Cell(sizes[v.round], v.src, v.group, v.warp)
                      /\ v.round + 1 = round[q] =>
                           blk'[q][(i \div BlockDim) % Grid(Groups(q))].pc
                             \in {"read", "count", "work", "clear"}
                      /\ v.round = round[v.src] => Pushed(v.src, v.group, v.warp, q)'
    BY <2>0, SMTT(30) DEF CellOK
  <2>1. PICK g : g = me.group  OBVIOUS
  <2> DEFINE sum == [src |-> r, round |-> round[r], group |-> g, warp |-> w]
             place == Cell(sizes[round[r]], r, g, w)
  <2>2. v = IF q = t /\ s = Slot(round[r]) /\ i = place THEN sum ELSE buf[q][s][i]
    BY <1>1, <2>1, PushFacts
  <2>3. CASE q = t /\ s = Slot(round[r]) /\ i = place
    <3>1. v.src = r /\ v.round = round[r] /\ v.group = g /\ v.warp = w  BY <2>2, <2>3
    <3>2. round[t] <= round[r] /\ round[r] <= round[t] + 1  BY <1>1, <1>2, PushToEmpty
    <3>3. /\ round[r] \in Nat \ {0} /\ round[t] \in Nat
          /\ g \in Nat /\ g < sizes[round[r]] /\ g % Grid(Groups(r)) = b
      BY <1>1, <1>2, <2>1, WorkFacts, RoundType
    <3>4. round[r] \in 1 .. round[r] /\ round[t] <= round[r] + 1 /\ round[r] + 1 # round[t]
      BY <3>2, <3>3
    <3>5. Pushed(r, g, w, t)'
      <4>1. Grid(Groups(r))' = Grid(Groups(r))  BY <1>2 DEF Grid, Groups
      <4>2. blk'[r][b].pc = "work" /\ blk'[r][b].group = g /\ <<w, t>> \in blk'[r][b].sent
        BY <1>2, <1>3, <1>4, <2>1
      <4>3. QED  BY <3>3, <4>1, <4>2 DEF Pushed
    <3>6. /\ v.round \in 1 .. round[v.src] /\ v.round + 1 # round[q]
          /\ v.round <= round[q] + 1 /\ round[q] <= v.round + 1
      BY <2>3, <3>1, <3>2, <3>3, <3>4
    <3>7. /\ s = Slot(v.round) /\ v.group < sizes[v.round]
          /\ i = Cell(sizes[v.round], v.src, v.group, v.warp)
      BY <2>3, <3>1, <3>3
    <3>8. Pushed(v.src, v.group, v.warp, q)'  BY <2>3, <3>1, <3>5
    <3>9. QED  BY <3>6, <3>7, <3>8
  <2>4. CASE ~(q = t /\ s = Slot(round[r]) /\ i = place)
    <3>1. v = buf[q][s][i]  BY <2>2, <2>4
    <3>2. v \in Sums  BY <1>1, <3>1 DEF TypeOK
    <3>3. v.src \in Ranks /\ v.round \in Nat /\ v.group \in Nat /\ v.warp \in Warps
      BY <3>2, SentinelFact
    <3>4. /\ v.round \in 1 .. round[v.src]
          /\ v.round <= round[q] + 1 /\ round[q] <= v.round + 1
          /\ s = Slot(v.round)
          /\ v.group < sizes[v.round]
          /\ i = Cell(sizes[v.round], v.src, v.group, v.warp)
          /\ v.round + 1 = round[q] =>
               blk[q][(i \div BlockDim) % Grid(Groups(q))].pc
                 \in {"read", "count", "work", "clear"}
          /\ v.round = round[v.src] => Pushed(v.src, v.group, v.warp, q)
      BY <1>1, <3>1 DEF CellsOK, CellOK
    <3>5. ASSUME v.round + 1 = round[q]
          PROVE  blk'[q][(i \div BlockDim) % Grid(Groups(q))].pc
                   \in {"read", "count", "work", "clear"}
      <4>1. round[q] > 0  BY <3>3, <3>5
      <4>2. (i \div BlockDim) % Grid(Groups(q)) \in Blocks  BY <1>1, <4>1, SpanType, Running
      <4>3. QED  BY <1>10, <3>4, <3>5, <4>2
    <3>6. ASSUME v.round = round[v.src] PROVE Pushed(v.src, v.group, v.warp, q)'
      <4>1. round[v.src] \in Nat  BY <1>1, <3>3, RoundType
      <4>2. v.round \in 1 .. round[v.src]  BY <3>4
      <4>3. round[v.src] > 0  BY <4>1, <4>2
      <4>4. QED  BY <1>1, <1>6, <3>3, <3>4, <3>6, <4>3, PushedGrows
    <3>7. QED  BY <3>4, <3>5, <3>6
  <2>5. QED  BY <2>3, <2>4
<1>15. QED  BY <1>7, <1>8, <1>9, <1>11, <1>12, <1>13, <1>14 DEF IInv

-----------------------------------------------------------------------------
(* The start of a kernel. *)

\* Over: all groups are reduced, so that every rank has pushed all its sums.
LEMMA IdleFacts ==
  ASSUME TypeOK, ReducedOK, NEW r \in Ranks, Idle(r), round[r] > 0
  PROVE  /\ \A g \in 0 .. Groups(r) - 1 :
              g \in reduced[r] /\ \A w \in Warps, t \in Ranks : From(r, g, w, t)
         /\ \A t \in Ranks : round[t] >= round[r]
<1>1. ASSUME NEW g \in 0 .. Groups(r) - 1 PROVE g \in reduced[r]
  <2>1. g \in Nat /\ g % Grid(Groups(r)) \in Blocks  BY Running
  <2>2. blk[r][g % Grid(Groups(r))].pc \in Past  BY <2>1 DEF Idle, Past
  <2>3. QED  BY <2>2 DEF ReducedOK
<1>2. \A g \in 0 .. Groups(r) - 1 : \A w \in Warps, t \in Ranks : From(r, g, w, t)
  BY <1>1 DEF ReducedOK
<1>3. 0 \in 0 .. Groups(r) - 1  BY Running
<1>4. 0 \in Warps  BY GridAssumption DEF Warps
<1>5. ASSUME NEW t \in Ranks PROVE round[t] >= round[r]
  <2>1. From(r, 0, 0, t)  BY <1>2, <1>3, <1>4
  <2>2. QED  BY <2>1 DEF From
<1>6. QED  BY <1>1, <1>2, <1>5

\* What a launch does.
LEMMA LaunchFacts ==
  ASSUME TypeOK, NEW r \in Ranks, Launch(r)
  PROVE  LET G == Grid(sizes[round[r] + 1]) IN
         /\ Idle(r) /\ round[r] \in Nat /\ round[r] + 1 \in 1 .. Len(sizes)
         /\ G \in Nat \ {0} /\ G <= sizes[round[r] + 1] /\ G <= MaxGrid
         /\ sizes[round[r] + 1] \in Nat \ {0}
         /\ sizes' = sizes /\ buf' = buf /\ flag' = flag /\ clear' = clear /\ counter' = counter
         /\ round'[r] = round[r] + 1 /\ \A q \in Ranks : q # r => round'[q] = round[q]
         /\ reduced'[r] = {} /\ \A q \in Ranks : q # r => reduced'[q] = reduced[q]
         /\ \A q \in Ranks, c \in Blocks : q # r => blk'[q][c] = blk[q][c]
         /\ \A c \in Blocks : blk'[r][c] = IF c < G THEN Ready(c) ELSE Gone
         /\ TypeOK'
<1> DEFINE G == Grid(sizes[round[r] + 1])
           new == [b \in Blocks |-> IF b < G THEN Ready(b) ELSE Gone]
<1>1. /\ Idle(r) /\ round[r] < Len(sizes)
      /\ sizes' = sizes /\ buf' = buf /\ flag' = flag /\ clear' = clear /\ counter' = counter
      /\ round' = [round EXCEPT ![r] = @ + 1]
      /\ reduced' = [reduced EXCEPT ![r] = {}]
      /\ blk' = [blk EXCEPT ![r] = new]
  BY DEF Launch, workspace
<1>2. round[r] \in Nat /\ Len(sizes) \in Nat /\ round[r] + 1 \in 1 .. Len(sizes)
  BY <1>1, SizeAssumption DEF TypeOK
<1>3. /\ sizes[round[r] + 1] \in Nat \ {0}
      /\ G \in Nat \ {0} /\ G <= sizes[round[r] + 1] /\ G <= MaxGrid
  BY <1>2, RoundSize, GridBounds
<1> HIDE DEF G
<1>4. new \in [Blocks -> BlockStates]
  <2>1. ASSUME NEW b \in Blocks PROVE Ready(b) \in BlockStates
    BY SizeAssumption, GridAssumption DEF Ready, NoSums, Slots, BlockStates, Blocks
  <2>2. QED  BY <2>1, GoneFact
<1>5. \A c \in Blocks : new[c] = IF c < G THEN Ready(c) ELSE Gone  OBVIOUS
<1> HIDE DEF new
<1>6. /\ round' \in [Ranks -> 0 .. Len(sizes)]
      /\ round'[r] = round[r] + 1 /\ \A q \in Ranks : q # r => round'[q] = round[q]
  BY <1>1, <1>2 DEF TypeOK
<1>7. /\ reduced' \in [Ranks -> SUBSET Nat]
      /\ reduced'[r] = {} /\ \A q \in Ranks : q # r => reduced'[q] = reduced[q]
  BY <1>1 DEF TypeOK
<1>8. /\ blk' \in [Ranks -> [Blocks -> BlockStates]]
      /\ blk'[r] = new /\ \A q \in Ranks : q # r => blk'[q] = blk[q]
  BY <1>1, <1>4 DEF TypeOK
<1>9. TypeOK'  BY <1>1, <1>6, <1>7, <1>8 DEF TypeOK
<1>10. QED  BY <1>1, <1>2, <1>3, <1>5, <1>6, <1>7, <1>8, <1>9 DEF G

\* What the other ranks have pushed.
LEMMA PushedElsewhere ==
  ASSUME TypeOK, NEW r \in Ranks, Launch(r),
         NEW q \in Ranks, q # r, round[q] > 0, NEW g \in Nat, NEW w \in Warps, NEW t \in Ranks,
         Pushed(q, g, w, t)
  PROVE  Pushed(q, g, w, t)'
<1>1. g % Grid(Groups(q)) \in Blocks  BY Running
<1>2. (g % Grid(Groups(q)))' = g % Grid(Groups(q))  BY LaunchFacts DEF Groups, Grid
<1>3. blk'[q][g % Grid(Groups(q))] = blk[q][g % Grid(Groups(q))]  BY <1>1, LaunchFacts
<1>4. QED  BY <1>2, <1>3 DEF Pushed

\* What others have taken remains pushed when a rank starts a round.
LEMMA FromElsewhere ==
  ASSUME TypeOK, NEW r \in Ranks, Launch(r),
         NEW q \in Ranks, q # r, round[q] > 0, NEW g \in Nat, NEW w \in Warps, NEW t \in Ranks,
         From(q, g, w, t)
  PROVE  From(q, g, w, t)'
<1>1. round[q] \in Nat /\ round[t] \in Nat  BY RoundType
<1>2. round'[q] = round[q]  BY LaunchFacts
<1>3. CASE t = r
  <2>1. round'[t] = round[t] + 1 /\ round[t] >= round[q]  BY <1>3, LaunchFacts DEF From
  <2>2. round'[t] >= round'[q] /\ round'[t] # round'[q]  BY <1>1, <1>2, <2>1
  <2>3. QED  BY <2>2 DEF From
<1>4. CASE t # r
  <2>1. round'[t] = round[t]  BY <1>4, LaunchFacts
  <2>2. ASSUME round[t] = round[q] PROVE Pushed(t, g, w, q)'
    <3>1. Pushed(t, g, w, q)  BY <2>2 DEF From
    <3>2. QED  BY <1>4, <2>2, <3>1, PushedElsewhere
  <2>3. QED  BY <1>2, <2>1, <2>2 DEF From
<1>5. QED  BY <1>3, <1>4

\* A block that is ready holds nothing yet.
LEMMA ReadyFact ==
  ASSUME NEW b
  PROVE  Ready(b).pc = "read" /\ Ready(b).group = b /\ Ready(b).got = NoSums
  BY DEF Ready

\* A rank that starts a round is never two rounds ahead.
LEMMA LaunchInv ==
  ASSUME IInv, NEW r \in Ranks, Launch(r)
  PROVE  IInv'
<1>1. TypeOK /\ BlocksOK /\ WorkspaceOK /\ CellsOK /\ SumsOK /\ ReducedOK /\ PaceOK  BY DEF IInv
<1> DEFINE n == sizes[round[r] + 1]
           G == Grid(n)
<1>2. /\ Idle(r) /\ round[r] \in Nat /\ round[r] + 1 \in 1 .. Len(sizes)
      /\ G \in Nat \ {0} /\ G <= n /\ G <= MaxGrid /\ n \in Nat \ {0}
      /\ sizes' = sizes /\ buf' = buf /\ flag' = flag /\ clear' = clear /\ counter' = counter
      /\ round'[r] = round[r] + 1 /\ \A q \in Ranks : q # r => round'[q] = round[q]
      /\ reduced'[r] = {} /\ \A q \in Ranks : q # r => reduced'[q] = reduced[q]
      /\ \A q \in Ranks, c \in Blocks : q # r => blk'[q][c] = blk[q][c]
      /\ \A c \in Blocks : blk'[r][c] = IF c < G THEN Ready(c) ELSE Gone
      /\ TypeOK'
  BY <1>1, LaunchFacts
<1>3. /\ Groups(r)' = n /\ Grid(Groups(r))' = G
      /\ \A q \in Ranks : q # r => Groups(q)' = Groups(q) /\ Grid(Groups(q))' = Grid(Groups(q))
  BY <1>2 DEF Groups, Grid
<1>4. \A c \in Blocks : blk[r][c].pc = "done"  BY <1>2 DEF Idle
<1> HIDE DEF n, G
<1>5. \A c \in Blocks : \/ c < G /\ blk'[r][c] = Ready(c) /\ blk'[r][c].pc = "read"
                        \/ ~(c < G) /\ blk'[r][c] = Gone /\ blk'[r][c].pc = "done"
  BY <1>2, ReadyFact, GoneFact
<1>6. \A q \in Ranks : round[q] \in Nat  BY <1>1, RoundType
<1>7. \A t \in Ranks : round[t] >= round[r]
  <2>1. CASE round[r] > 0  BY <1>1, <1>2, <2>1, IdleFacts
  <2>2. CASE ~(round[r] > 0)  BY <1>6, <2>2
  <2>3. QED  BY <2>1, <2>2
<1>8. BlocksOK'
  <2> SUFFICES ASSUME NEW q \in Ranks, NEW c \in Blocks
               PROVE  LET me == blk'[q][c] IN
                      /\ me.pc # "done" => round'[q] > 0 /\ c < Grid(Groups(q))'
                      /\ me.pc \in {"count", "work", "clear", "update"} =>
                           me.flag = Slot(round[q])' /\ me.clear = Size(round[q] - 1)'
                      /\ me.pc \in Working =>
                           me.group < Groups(q)' /\ me.group % Grid(Groups(q))' = c
                      /\ me.pc \in Entering => ~Rotated(q)'
    BY DEF BlocksOK
  <2>1. CASE q = r /\ c < G
    <3>1. blk'[r][c].pc = "read" /\ blk'[r][c].group = c  BY <1>5, <2>1, ReadyFact
    <3>2. c \in Nat /\ c % G = c /\ c < n
      <4>1. c \in Nat  BY GridAssumption DEF Blocks
      <4>2. c < n  BY <1>2, <2>1, <4>1
      <4>3. c % G = c  BY <1>2, <2>1, <4>1, Stride
      <4>4. QED  BY <4>1, <4>2, <4>3
    <3>3. round'[r] > 0  BY <1>2
    <3>4. ~Rotated(r)'
      <4>1. 0 < G  BY <1>2
      <4>2. QED  BY <1>5, <4>1, BlockZero DEF Rotated
    <3>5. QED  BY <1>3, <2>1, <3>1, <3>2, <3>3, <3>4
  <2>2. CASE q = r /\ ~(c < G)
    BY <1>5, <2>2 DEF Working, Entering
  <2>3. CASE q # r
    <3>1. blk'[q][c] = blk[q][c] /\ blk'[q][0] = blk[q][0] /\ round'[q] = round[q]
      BY <1>2, <2>3, BlockZero
    <3>2. Groups(q)' = Groups(q) /\ Grid(Groups(q))' = Grid(Groups(q))  BY <1>3, <2>3
    <3>3. Slot(round[q])' = Slot(round[q]) /\ Size(round[q] - 1)' = Size(round[q] - 1)
          /\ Rotated(q)' = Rotated(q)
      BY <1>2, <3>1 DEF Slot, Size, Rotated
    <3>4. QED  BY <1>1, <3>1, <3>2, <3>3 DEF BlocksOK
  <2>4. QED  BY <2>1, <2>2, <2>3
<1>9. WorkspaceOK'
  <2> SUFFICES ASSUME NEW q \in Ranks
               PROVE  IF Rotated(q)'
                      THEN /\ flag[q] = Slot(round[q] + 1)'
                           /\ clear[q] = Size(round[q])'
                           /\ counter[q] = 0
                      ELSE /\ flag[q] = Slot(round[q])'
                           /\ clear[q] = Size(round[q] - 1)'
                           /\ counter[q] = Cardinality(Counted(q)')
    BY <1>2 DEF WorkspaceOK
  <2>1. CASE q = r
    <3>1. Rotated(r)  BY <1>4, BlockZero DEF Rotated
    <3>2. flag[r] = Slot(round[r] + 1) /\ clear[r] = Size(round[r]) /\ counter[r] = 0
      BY <1>1, <3>1 DEF WorkspaceOK
    <3>3. ~Rotated(r)'
      <4>1. 0 < G  BY <1>2
      <4>2. QED  BY <1>5, <4>1, BlockZero DEF Rotated
    <3>4. Slot(round[r])' = Slot(round[r] + 1)  BY <1>2 DEF Slot
    <3>5. Size(round[r] - 1)' = Size(round[r])
      <4>1. round'[r] - 1 = round[r]  BY <1>2
      <4>2. QED  BY <1>2, <4>1 DEF Size
    <3>6. Counted(r)' = {}  BY <1>3, <1>5 DEF Counted, Entering
    <3>7. Cardinality({}) = 0  BY FS_EmptySet
    <3>8. QED  BY <2>1, <3>2, <3>3, <3>4, <3>5, <3>6, <3>7
  <2>2. CASE q # r
    <3>1. blk'[q][0] = blk[q][0] /\ round'[q] = round[q]  BY <1>2, <2>2, BlockZero
    <3>2. Rotated(q)' = Rotated(q)  BY <3>1 DEF Rotated
    <3>3. Slot(round[q])' = Slot(round[q]) /\ Slot(round[q] + 1)' = Slot(round[q] + 1)
          /\ Size(round[q])' = Size(round[q]) /\ Size(round[q] - 1)' = Size(round[q] - 1)
      BY <1>2, <3>1 DEF Slot, Size
    <3>4. Counted(q)' = Counted(q)  BY <1>2, <1>3, <2>2 DEF Counted
    <3>5. QED  BY <1>1, <3>2, <3>3, <3>4 DEF WorkspaceOK
  <2>3. QED  BY <2>1, <2>2
<1>10. CellsOK'
  <2> SUFFICES ASSUME NEW t \in Ranks, NEW s \in Slots, NEW i \in Cells
               PROVE  CellOK(t, s, i)'
    BY DEF CellsOK
  <2> SUFFICES ASSUME NEW v, v = buf[t][s][i], v # Empty
               PROVE  /\ v.round \in 1 .. round'[v.src]
                      /\ v.round <= round'[t] + 1 /\ round'[t] <= v.round + 1
                      /\ s = Slot(v.round)
                      /\ v.group < sizes[v.round]
                      /\ i = Cell(sizes[v.round], v.src, v.group, v.warp)
                      /\ v.round + 1 = round'[t] =>
                           blk'[t][(i \div BlockDim) % Grid(Groups(t))'].pc
                             \in {"read", "count", "work", "clear"}
                      /\ v.round = round'[v.src] => Pushed(v.src, v.group, v.warp, t)'
    BY <1>2, SMTT(30) DEF CellOK
  <2>1. v \in Sums  BY <1>1 DEF TypeOK
  <2>2. v.src \in Ranks /\ v.round \in Nat /\ v.group \in Nat /\ v.warp \in Warps
    BY <2>1, SentinelFact
  <2>3. /\ v.round \in 1 .. round[v.src]
        /\ v.round <= round[t] + 1 /\ round[t] <= v.round + 1
        /\ s = Slot(v.round)
        /\ v.group < sizes[v.round]
        /\ i = Cell(sizes[v.round], v.src, v.group, v.warp)
        /\ v.round + 1 = round[t] =>
             blk[t][(i \div BlockDim) % Grid(Groups(t))].pc \in {"read", "count", "work", "clear"}
        /\ v.round = round[v.src] => Pushed(v.src, v.group, v.warp, t)
    BY <1>1 DEF CellsOK, CellOK
  <2>4. round[t] \in Nat /\ round[v.src] \in Nat  BY <1>6, <2>2
  <2>5. v.round >= 1 /\ v.round <= round[v.src]
    <3>1. v.round \in 1 .. round[v.src]  BY <2>3
    <3>2. QED  BY <2>2, <2>4, <3>1
  <2>6. t = r => v.round + 1 # round[t]
    <3>1. SUFFICES ASSUME t = r, v.round + 1 = round[t] PROVE FALSE  OBVIOUS
    <3>2. round[t] > 0  BY <2>2, <3>1
    <3>3. (i \div BlockDim) % Grid(Groups(t)) \in Blocks  BY <1>1, <3>2, SpanType, Running
    <3>4. blk[t][(i \div BlockDim) % Grid(Groups(t))].pc = "done"  BY <1>4, <3>1, <3>3
    <3>5. QED  BY <2>3, <3>1, <3>4
  <2>7. PICK k, x, y : k = v.round /\ x = round[t] /\ y = round'[t]  OBVIOUS
  <2>8. x <= y /\ y <= k + 1 /\ k <= y + 1 /\ y \in Nat /\ k \in Nat
    <3>1. k \in Nat /\ x \in Nat /\ k <= x + 1 /\ x <= k + 1  BY <2>2, <2>3, <2>4, <2>7
    <3>2. CASE t = r
      <4>1. y = x + 1  BY <1>2, <2>7, <3>2
      <4>2. k + 1 # x  BY <2>6, <2>7, <3>2
      <4>3. QED  BY <3>1, <4>1, <4>2
    <3>3. CASE t # r
      <4>1. y = x  BY <1>2, <2>7, <3>3
      <4>2. QED  BY <3>1, <4>1
    <3>4. QED  BY <3>2, <3>3
  <2>9. v.round \in 1 .. round'[v.src]
    <3>1. round'[v.src] \in Nat /\ round[v.src] <= round'[v.src]
      <4>1. CASE v.src = r  BY <1>2, <2>4, <4>1
      <4>2. CASE v.src # r  BY <1>2, <2>2, <2>4, <4>2
      <4>3. QED  BY <4>1, <4>2
    <3>2. QED  BY <2>2, <2>4, <2>5, <3>1
  <2>10. ASSUME v.round + 1 = round'[t]
         PROVE  blk'[t][(i \div BlockDim) % Grid(Groups(t))'].pc
                  \in {"read", "count", "work", "clear"}
    <3>1. i \div BlockDim \in Nat  BY SpanType
    <3>2. CASE t = r
      <4> DEFINE c == (i \div BlockDim) % G
      <4>1. c \in 0 .. G - 1  BY <1>2, <3>1, Remainder
      <4> HIDE DEF c
      <4>2. c \in Blocks /\ c < G  BY <1>2, <4>1, GridAssumption DEF Blocks
      <4>3. blk'[r][c].pc = "read"  BY <1>5, <4>2
      <4>4. QED  BY <1>3, <3>2, <4>3 DEF c
    <3>3. CASE t # r
      <4>1. round'[t] = round[t] /\ round[t] > 0  BY <1>2, <2>2, <2>10, <3>3
      <4>2. (i \div BlockDim) % Grid(Groups(t)) \in Blocks  BY <1>1, <3>1, <4>1, Running
      <4>3. blk'[t][(i \div BlockDim) % Grid(Groups(t))]
              = blk[t][(i \div BlockDim) % Grid(Groups(t))]
        BY <1>2, <3>3, <4>2
      <4>4. Grid(Groups(t))' = Grid(Groups(t))  BY <1>3, <3>3
      <4>5. QED  BY <2>3, <2>10, <4>1, <4>3, <4>4
    <3>4. QED  BY <3>2, <3>3
  <2>11. ASSUME v.round = round'[v.src] PROVE Pushed(v.src, v.group, v.warp, t)'
    <3>1. v.src # r
      <4>1. SUFFICES ASSUME v.src = r PROVE FALSE  OBVIOUS
      <4>2. QED  BY <1>2, <2>2, <2>4, <2>5, <2>11, <4>1
    <3>2. round'[v.src] = round[v.src] /\ round[v.src] > 0  BY <1>2, <2>2, <2>4, <2>5, <3>1
    <3>3. Pushed(v.src, v.group, v.warp, t)  BY <2>3, <2>11, <3>2
    <3>4. QED  BY <1>1, <2>2, <3>1, <3>2, <3>3, PushedElsewhere
  <2>12. v.round <= round'[t] + 1 /\ round'[t] <= v.round + 1  BY <2>7, <2>8
  <2>13. QED  BY <2>3, <2>9, <2>10, <2>11, <2>12
<1>11. SumsOK'
  <2> SUFFICES ASSUME NEW q \in Ranks, NEW b \in Blocks, NEW w \in Warps, NEW t \in Ranks,
                      blk'[q][b].got[<<w, t>>] # Empty
               PROVE  /\ blk'[q][b].pc = "work"
                      /\ blk'[q][b].got[<<w, t>>] =
                           [src |-> t, round |-> round'[q], group |-> blk'[q][b].group, warp |-> w]
                      /\ From(q, blk[q][b].group, w, t)'
    BY DEF SumsOK, TakenOK
  <2>1. q # r
    <3>1. SUFFICES ASSUME q = r PROVE FALSE  OBVIOUS
    <3>2. blk'[r][b].got = NoSums  BY <1>5, ReadyFact, GoneFact
    <3>3. QED  BY <3>1, <3>2 DEF NoSums, Threads
  <2>2. blk'[q][b] = blk[q][b] /\ round'[q] = round[q]  BY <1>2, <2>1
  <2>3. TakenOK(q, b, w, t)  BY <1>1, <2>2 DEF SumsOK
  <2>4. blk[q][b].pc = "work" /\ From(q, blk[q][b].group, w, t)  BY <2>3 DEF TakenOK
  <2>5. round[q] > 0 /\ blk[q][b].group \in Nat  BY <1>1, <2>4, BlockType DEF BlocksOK
  <2>6. PICK g \in Nat : g = blk[q][b].group  BY <2>5
  <2>7. From(q, g, w, t)'  BY <1>1, <2>1, <2>4, <2>5, <2>6, FromElsewhere
  <2>8. From(q, blk[q][b].group, w, t)'  BY <2>2, <2>6, <2>7
  <2>9. QED  BY <2>2, <2>3, <2>8 DEF TakenOK
<1>12. ReducedOK'
  <2> SUFFICES ASSUME NEW q \in Ranks
               PROVE  /\ reduced'[q] # {} => round'[q] > 0
                      /\ \A g \in reduced'[q] :
                           g < Groups(q)' /\ \A w \in Warps, t \in Ranks : From(q, g, w, t)'
                      /\ round'[q] > 0 =>
                           \A g \in 0 .. Groups(q)' - 1 :
                             \/ blk'[q][g % Grid(Groups(q))'].pc \in Past
                             \/ g < blk'[q][g % Grid(Groups(q))'].group
                             => g \in reduced'[q]
    BY DEF ReducedOK
  <2>1. CASE q = r
    <3>1. reduced'[q] = {}  BY <1>2, <2>1
    <3>2. ASSUME NEW g \in 0 .. n - 1,
                 blk'[r][g % G].pc \in Past \/ g < blk'[r][g % G].group
          PROVE  FALSE
      <4> DEFINE c == g % G
      <4>1. g \in Nat  BY <1>2, <3>2
      <4>2. c \in 0 .. G - 1 /\ g = G * (g \div G) + c /\ g \div G \in Nat
        BY <1>2, <4>1, Remainder
      <4>3. blk'[r][c].pc \in Past \/ g < blk'[r][c].group  BY <3>2
      <4> HIDE DEF c
      <4>4. c \in Blocks /\ c < G  BY <1>2, <4>2, GridAssumption DEF Blocks
      <4>5. blk'[r][c].pc = "read" /\ blk'[r][c].group = c  BY <1>5, <4>4, ReadyFact
      <4>6. g < c  BY <4>3, <4>5 DEF Past
      <4>7. PICK k : k = g \div G  OBVIOUS
      <4>8. G * k \in Nat  BY <1>2, <4>2, <4>7
      <4>9. QED  BY <4>1, <4>2, <4>6, <4>7, <4>8
    <3>3. QED  BY <1>3, <2>1, <3>1, <3>2
  <2>2. CASE q # r
    <3>1. /\ reduced'[q] = reduced[q] /\ round'[q] = round[q]
          /\ Groups(q)' = Groups(q) /\ Grid(Groups(q))' = Grid(Groups(q))
      BY <1>2, <1>3, <2>2
    <3>2. reduced[q] # {} => round[q] > 0  BY <1>1 DEF ReducedOK
    <3>3. ASSUME NEW g \in reduced[q]
          PROVE  g < Groups(q) /\ \A w \in Warps, t \in Ranks : From(q, g, w, t)'
      <4>1. g \in Nat /\ round[q] > 0  BY <1>1, <3>2, <3>3 DEF TypeOK
      <4>2. g < Groups(q) /\ \A w \in Warps, t \in Ranks : From(q, g, w, t)
        BY <1>1, <3>3 DEF ReducedOK
      <4>3. QED  BY <1>1, <2>2, <4>1, <4>2, FromElsewhere
    <3>4. ASSUME round[q] > 0, NEW g \in 0 .. Groups(q) - 1,
                 \/ blk'[q][g % Grid(Groups(q))].pc \in Past
                 \/ g < blk'[q][g % Grid(Groups(q))].group
          PROVE  g \in reduced[q]
      <4>1. g % Grid(Groups(q)) \in Blocks  BY <1>1, <3>4, Running
      <4>2. blk'[q][g % Grid(Groups(q))] = blk[q][g % Grid(Groups(q))]  BY <1>2, <2>2, <4>1
      <4>3. QED  BY <1>1, <3>4, <4>2 DEF ReducedOK
    <3>5. QED  BY <3>1, <3>2, <3>3, <3>4
  <2>3. QED  BY <2>1, <2>2
<1>13. PaceOK'
  <2> SUFFICES ASSUME NEW p \in Ranks, NEW q \in Ranks
               PROVE  /\ round'[p] <= round'[q] + 1
                      /\ round'[p] = round'[q] + 1 /\ round'[q] > 0 =>
                           \A g \in 0 .. Groups(q)' - 1, w \in Warps : Pushed(q, g, w, p)'
    BY DEF PaceOK
  <2>1. /\ round[p] <= round[q] + 1
        /\ round[p] = round[q] + 1 /\ round[q] > 0 =>
             \A g \in 0 .. Groups(q) - 1, w \in Warps : Pushed(q, g, w, p)
    BY <1>1 DEF PaceOK
  <2>2. round[p] \in Nat /\ round[q] \in Nat /\ round[q] >= round[r] /\ round[r] \in Nat
    BY <1>6, <1>7
  <2>3. CASE q = r
    <3>1. round'[q] = round[q] + 1  BY <1>2, <2>3
    <3>2. CASE p = r
      <4>1. round'[p] = round'[q]  BY <2>3, <3>2
      <4>2. QED  BY <2>2, <3>1, <4>1
    <3>3. CASE p # r
      <4>1. round'[p] = round[p]  BY <1>2, <3>3
      <4>2. round'[p] <= round'[q] /\ round'[q] \in Nat  BY <2>1, <2>2, <3>1, <4>1
      <4>3. round'[p] # round'[q] + 1  BY <2>2, <4>1, <4>2
      <4>4. QED  BY <2>2, <3>1, <4>1, <4>2, <4>3
    <3>4. QED  BY <3>2, <3>3
  <2>4. CASE q # r /\ p # r
    <3>1. round'[q] = round[q] /\ round'[p] = round[p] /\ Groups(q)' = Groups(q)
      BY <1>2, <1>3, <2>4
    <3>2. ASSUME round[p] = round[q] + 1, round[q] > 0,
                 NEW g \in 0 .. Groups(q) - 1, NEW w \in Warps
          PROVE  Pushed(q, g, w, p)'
      <4>1. g \in Nat  BY <1>1, <3>2, Running
      <4>2. QED  BY <1>1, <2>1, <2>4, <3>2, <4>1, PushedElsewhere
    <3>3. QED  BY <2>1, <3>1, <3>2
  <2>5. CASE q # r /\ p = r
    <3>1. round'[q] = round[q] /\ round'[p] = round[r] + 1 /\ Groups(q)' = Groups(q)
      BY <1>2, <1>3, <2>5
    <3>2. ASSUME round[r] = round[q], round[q] > 0,
                 NEW g \in 0 .. Groups(q) - 1, NEW w \in Warps
          PROVE  Pushed(q, g, w, r)'
      <4>1. g \in Nat  BY <1>1, <3>2, Running
      <4>2. Groups(q) = Groups(r)  BY <3>2 DEF Groups
      <4>3. From(r, g, w, q)  BY <1>1, <1>2, <3>2, <4>2, IdleFacts
      <4>4. Pushed(q, g, w, r)  BY <3>2, <4>3 DEF From
      <4>5. QED  BY <1>1, <2>5, <3>2, <4>1, <4>4, PushedElsewhere
    <3>3. round'[p] <= round'[q] + 1  BY <2>2, <3>1
    <3>4. round'[p] = round'[q] + 1 => round[r] = round[q]  BY <2>2, <3>1
    <3>5. QED  BY <2>5, <3>1, <3>2, <3>3, <3>4
  <2>6. QED  BY <2>3, <2>4, <2>5
<1>14. QED  BY <1>2, <1>8, <1>9, <1>10, <1>11, <1>12, <1>13 DEF IInv

-----------------------------------------------------------------------------
(* Every step, and what follows for every behaviour. *)

\* Every step keeps the invariant.
LEMMA NextInv ==
  ASSUME IInv, [Next]_vars
  PROVE  IInv'
<1>1. CASE Next
  <2>1. PICK r \in Ranks : RankNext(r)  BY <1>1 DEF Next
  <2>2. CASE Launch(r)  BY <2>2, LaunchInv
  <2>3. ASSUME NEW b \in Blocks, BlockStep(r, b) PROVE IInv'
    BY <2>3, ReadInv, CountInv, FinishInv, ClearInv, UpdateInv, LeaveInv DEF BlockStep
  <2>4. ASSUME NEW b \in Blocks, NEW w \in Warps, NEW t \in Ranks, ThreadStep(r, b, w, t)
        PROVE  IInv'
    BY <2>4, PushInv, PullInv DEF ThreadStep
  <2>5. QED  BY <2>1, <2>2, <2>3, <2>4 DEF RankNext
<1>2. CASE UNCHANGED vars
  <2>1. /\ sizes' = sizes /\ round' = round /\ flag' = flag /\ counter' = counter
        /\ clear' = clear /\ buf' = buf /\ blk' = blk /\ reduced' = reduced
    BY <1>2 DEF vars, workspace
  <2>2. TypeOK'  BY <2>1 DEF IInv, TypeOK
  <2>3. BlocksOK'  BY <2>1 DEF IInv, BlocksOK, Rotated, Groups, Size
  <2>4. WorkspaceOK'  BY <2>1 DEF IInv, WorkspaceOK, Rotated, Counted, Groups, Size
  <2>5. NoLaunch
    <3>1. ASSUME NEW q \in Ranks, NEW c \in Blocks
          PROVE  Advances(blk[q][c], blk'[q][c]) /\ blk'[q][c].group \in Nat
      <4>1. blk'[q][c] = blk[q][c]  BY <2>1
      <4>2. blk[q][c].group \in Nat  BY BlockType DEF IInv
      <4>3. Advances(blk[q][c], blk[q][c])  BY DEF Advances
      <4>4. QED  BY <4>1, <4>2, <4>3
    <3>2. QED  BY <2>1, <3>1 DEF NoLaunch
  <2>6. CellsOK'  BY <2>1, <2>5, CellsKept DEF IInv
  <2>7. SumsOK'  BY <2>1, <2>5, SumsKept DEF IInv
  <2>8. ReducedOK'
    <3>1. ASSUME NEW q \in Ranks, NEW c \in Blocks PROVE blk'[q][c].group <= blk[q][c].group
      <4>1. blk[q][c].group \in Nat  BY BlockType DEF IInv
      <4>2. QED  BY <2>1, <4>1
    <3>2. QED  BY <2>1, <2>5, <3>1, ReducedKept DEF IInv
  <2>9. PaceOK'  BY <2>5, PaceKept DEF IInv
  <2>10. QED  BY <2>2, <2>3, <2>4, <2>6, <2>7, <2>8, <2>9 DEF IInv
<1>3. QED  BY <1>1, <1>2

\* The inductive invariant holds for every group of ranks, every device and
\* every sequence of batches.
THEOREM Invariance == Spec => []IInv
<1>1. Init => IInv  BY InitInv
<1>2. IInv /\ [Next]_vars => IInv'  BY NextInv
<1>3. QED  BY <1>1, <1>2, PTL DEF Spec

\* Cells hold sums or nothing; registers and workspace stay in their ranges.
THEOREM TypeCorrect == Spec => []TypeOK
<1>1. IInv => TypeOK  BY DEF IInv
<1>2. QED  BY <1>1, Invariance, PTL

\* A lane never takes a sum of another round, group or rank from its cell.
THEOREM OwnRound == Spec => []ReducesOwnRound
<1>1. IInv => ReducesOwnRound
  <2>1. ASSUME IInv, NEW r \in Ranks, NEW b \in Blocks, NEW w \in Warps, NEW t \in Ranks
        PROVE  blk[r][b].got[<<w, t>>] \in
                 {Empty, [src |-> t, round |-> round[r], group |-> blk[r][b].group, warp |-> w]}
    <3>1. CASE blk[r][b].got[<<w, t>>] = Empty  BY <3>1
    <3>2. CASE blk[r][b].got[<<w, t>>] # Empty
      <4>1. TakenOK(r, b, w, t)  BY <2>1, <3>2 DEF IInv, SumsOK
      <4>2. QED  BY <4>1 DEF TakenOK
    <3>3. QED  BY <3>1, <3>2
  <2>2. QED  BY <2>1 DEF ReducesOwnRound
<1>2. QED  BY <1>1, Invariance, PTL

\* A kernel is over only when every group of its tokens has been reduced.
THEOREM AllReduced == Spec => []AllGroupsReduced
<1>1. IInv => AllGroupsReduced
  <2> SUFFICES ASSUME IInv, NEW r \in Ranks, Idle(r), round[r] > 0
               PROVE  reduced[r] = 0 .. Groups(r) - 1
    BY DEF AllGroupsReduced
  <2>1. TypeOK /\ ReducedOK  BY DEF IInv
  <2>2. 0 .. Groups(r) - 1 \subseteq reduced[r]  BY <2>1, IdleFacts
  <2>3. ASSUME NEW g \in reduced[r] PROVE g \in 0 .. Groups(r) - 1
    <3>1. g \in Nat /\ g < Groups(r)  BY <2>1, <2>3 DEF TypeOK, ReducedOK
    <3>2. Groups(r) \in Nat  BY <2>1, Running
    <3>3. QED  BY <3>1, <3>2
  <2>4. QED  BY <2>2, <2>3
<1>2. QED  BY <1>1, Invariance, PTL

\* What a step does to a cell: it stays, a push fills it when it is empty, or
\* its rank clears what is left of the round before.
LEMMA CellStep ==
  ASSUME IInv, [Next]_vars, NEW q \in Ranks, NEW s \in Slots, NEW i \in Cells,
         buf[q][s][i] # Empty
  PROVE  \/ buf'[q][s][i] = buf[q][s][i]
         \/ buf'[q][s][i] = Empty /\ buf[q][s][i].round < round[q]
<1>1. TypeOK /\ BlocksOK /\ CellsOK /\ PaceOK  BY DEF IInv
<1>2. SUFFICES ASSUME NEW r \in Ranks, RankNext(r), buf'[q][s][i] # buf[q][s][i]
               PROVE  buf'[q][s][i] = Empty /\ buf[q][s][i].round < round[q]
  BY DEF Next, vars
<1>3. ~Launch(r)  BY <1>2 DEF Launch
<1>4. PICK b \in Blocks : BlockStep(r, b) \/ \E w \in Warps, t \in Ranks : ThreadStep(r, b, w, t)
  BY <1>2, <1>3 DEF RankNext
<1>5. CASE BlockStep(r, b)
  <2>1. Clear(r, b)
    BY <1>2, <1>5 DEF BlockStep, Read, Count, Finish, Update, Leave
  <2>2. /\ round[r] \in Nat \ {0}
        /\ q = r /\ s = Slot(round[r] - 1) /\ buf'[q][s][i] = Empty
    BY <1>1, <1>2, <2>1, ClearFacts
  <2>3. PICK v : v = buf[q][s][i]  OBVIOUS
  <2>4. v \in Sums  BY <1>1, <2>3 DEF TypeOK
  <2>5. v.round \in Nat  BY <2>4, SentinelFact
  <2>6. Slot(v.round) = s /\ v.round <= round[q] + 1 /\ round[q] <= v.round + 1
    BY <1>1, <2>3 DEF CellsOK, CellOK
  <2>7. PICK k \in Nat \ {0}, j \in Nat : k = round[r] /\ j = v.round  BY <2>2, <2>5
  <2>8. (j + 2) % 3 = (k - 1 + 2) % 3 /\ j <= k + 1 /\ k <= j + 1
    BY <2>2, <2>6, <2>7 DEF Slot
  <2>9. j = k - 1
    <3>1. k - 1 \in Nat /\ j <= (k - 1) + 2 /\ k - 1 <= j + 2  BY <2>8
    <3>2. QED  BY <2>8, <3>1, ThreeSlots
  <2>10. QED  BY <2>2, <2>3, <2>7, <2>9
<1>6. CASE \E w \in Warps, t \in Ranks : ThreadStep(r, b, w, t)
  <2>1. PICK w \in Warps, t \in Ranks : Push(r, b, w, t)
    BY <1>2, <1>6 DEF ThreadStep, Pull
  <2>2. blk[r][b].pc = "work" /\ <<w, t>> \notin blk[r][b].sent  BY <2>1 DEF Push
  <2>3. q = t /\ s = Slot(round[r]) /\ i = Cell(sizes[round[r]], r, blk[r][b].group, w)
    <3>1. ASSUME ~(q = t /\ s = Slot(round[r])
                   /\ i = Cell(sizes[round[r]], r, blk[r][b].group, w))
          PROVE  buf'[q][s][i] = buf[q][s][i]
      BY <1>1, <2>1, <3>1, PushElsewhere
    <3>2. QED  BY <1>2, <3>1
  <2>4. buf[q][s][i] = Empty  BY <1>1, <2>2, <2>3, PushToEmpty
  <2>5. QED  BY <2>4
<1>7. QED  BY <1>4, <1>5, <1>6

\* No sum is written over another.
THEOREM NoOverwriting == Spec => WritesToEmpty
<1>1. IInv /\ [Next]_vars =>
        [\A r \in Ranks, s \in Slots, i \in Cells :
           buf[r][s][i] # Empty => buf'[r][s][i] \in {buf[r][s][i], Empty}]_vars
  BY CellStep
<1>2. QED  BY <1>1, Invariance, PTL DEF Spec, WritesToEmpty

\* No sum is cleared in the round in which it is read.
THEOREM NothingLost == Spec => KeptWhileNeeded
<1>1. IInv /\ [Next]_vars =>
        [\A r \in Ranks, s \in Slots, i \in Cells :
           buf[r][s][i] # Empty /\ buf'[r][s][i] = Empty => buf[r][s][i].round < round[r]]_vars
  BY CellStep
<1>2. QED  BY <1>1, Invariance, PTL DEF Spec, KeptWhileNeeded

-----------------------------------------------------------------------------
(* The kernels of the ranks implement the rendezvous. *)

Left == [r \in Ranks |-> IF Idle(r) THEN round[r] ELSE round[r] - 1]

\* A step of a block is a step of its rank alone.
LEMMA BlockAlone ==
  ASSUME TypeOK, NEW r \in Ranks, NEW b \in Blocks,
         BlockStep(r, b) \/ \E w \in Warps, t \in Ranks : ThreadStep(r, b, w, t)
  PROVE  /\ blk[r][b].pc # "done" /\ sizes' = sizes /\ round' = round
         /\ \A q \in Ranks : q # r => blk'[q] = blk[q]
<1>1. CASE BlockStep(r, b)
  <2>1. CASE Read(r, b)  BY <2>1 DEF Read, TypeOK
  <2>2. CASE Count(r, b)  BY <2>2 DEF Count, TypeOK
  <2>3. CASE Finish(r, b)  BY <2>3 DEF Finish, TypeOK
  <2>4. CASE Clear(r, b)  BY <2>4 DEF Clear, TypeOK
  <2>5. CASE Update(r, b)  BY <2>5 DEF Update, TypeOK
  <2>6. CASE Leave(r, b)  BY <2>6 DEF Leave, TypeOK
  <2>7. QED  BY <1>1, <2>1, <2>2, <2>3, <2>4, <2>5, <2>6 DEF BlockStep
<1>2. ASSUME NEW w \in Warps, NEW t \in Ranks, ThreadStep(r, b, w, t)
      PROVE  /\ blk[r][b].pc # "done" /\ sizes' = sizes /\ round' = round
             /\ \A q \in Ranks : q # r => blk'[q] = blk[q]
  <2>1. CASE Push(r, b, w, t)  BY <2>1 DEF Push, TypeOK
  <2>2. CASE Pull(r, b, w, t)  BY <2>2 DEF Pull, TypeOK
  <2>3. QED  BY <1>2, <2>1, <2>2 DEF ThreadStep
<1>3. QED  BY <1>1, <1>2

\* The rendezvous starts with no rank in a round.
LEMMA CollectiveInit == Init => Collective!Init
<1> SUFFICES ASSUME Init PROVE Collective!Init
  OBVIOUS
<1>1. Len(sizes) \in Nat  BY SizeAssumption DEF Init
<1>2. \A r \in Ranks : Idle(r) /\ round[r] = 0  BY DEF Init, Idle, Gone
<1>3. Left = [r \in Ranks |-> 0]  BY <1>2 DEF Left
<1>4. QED  BY <1>1, <1>3 DEF Init, Collective!Init, Left

\* When a rank is through with a round, all have started it.
AllStarted ==
  \A r \in Ranks : Idle(r) /\ round[r] > 0 => \A t \in Ranks : round[t] >= round[r]

\* This follows from the invariant.
LEMMA StartedBefore == IInv => AllStarted
  BY IdleFacts DEF IInv, AllStarted

\* Each step enters a round, leaves one, or stutters.
LEMMA CollectiveStep ==
  ASSUME IInv, AllStarted', [Next]_vars
  PROVE  [Collective!Next]_(Collective!vars)
<1>1. TypeOK  BY DEF IInv
<1>2. SUFFICES ASSUME NEW r \in Ranks, RankNext(r)
               PROVE  \/ /\ round[r] = Left[r] /\ round[r] < Len(sizes)
                         /\ round' = [round EXCEPT ![r] = @ + 1]
                         /\ Len(sizes)' = Len(sizes) /\ Left' = Left
                      \/ /\ Left[r] < round[r] /\ \A q \in Ranks : round[q] >= round[r]
                         /\ Left' = [Left EXCEPT ![r] = @ + 1]
                         /\ Len(sizes)' = Len(sizes) /\ round' = round
                      \/ Len(sizes)' = Len(sizes) /\ round' = round /\ Left' = Left
  <2>1. CASE UNCHANGED vars
    <3>1. sizes' = sizes /\ round' = round /\ blk' = blk  BY <2>1 DEF vars
    <3>2. Left' = Left  BY <3>1 DEF Left, Idle
    <3>3. QED  BY <3>1, <3>2 DEF Collective!vars, Left
  <2>2. CASE Next
    <3>1. PICK r \in Ranks : RankNext(r)  BY <2>2 DEF Next
    <3>2. QED  BY <1>2, <3>1 DEF Collective!Next, Collective!Enter, Collective!Leave,
                                 Collective!vars, Left
  <2>3. QED  BY <2>1, <2>2
<1>3. \A q \in Ranks : round[q] \in Nat  BY <1>1, RoundType
<1>4. CASE Launch(r)
  <2>1. /\ Idle(r) /\ round[r] < Len(sizes) /\ sizes' = sizes
        /\ round' = [round EXCEPT ![r] = @ + 1]
    BY <1>4 DEF Launch
  <2>2. ~Idle(r)'
    <3>1. blk'[r][0].pc = "read"
      <4>1. 0 < Grid(sizes[round[r] + 1])  BY <1>1, <1>4, LaunchFacts
      <4>2. blk'[r][0] = Ready(0)  BY <1>1, <1>4, <4>1, BlockZero, LaunchFacts
      <4>3. QED  BY <4>2, ReadyFact
    <3>2. QED  BY <3>1, BlockZero DEF Idle
  <2>3. \A q \in Ranks : q # r => Idle(q)' = Idle(q) /\ round'[q] = round[q]
    BY <1>1, <1>4, LaunchFacts DEF Idle
  <2>4. round'[r] = round[r] + 1  BY <1>1, <1>4, LaunchFacts
  <2>5. Left' = Left
    <3>1. ASSUME NEW q \in Ranks
          PROVE  (IF Idle(q)' THEN round'[q] ELSE round'[q] - 1)
                   = IF Idle(q) THEN round[q] ELSE round[q] - 1
      <4>1. CASE q = r  BY <1>3, <2>1, <2>2, <2>4, <4>1
      <4>2. CASE q # r  BY <2>3, <4>2
      <4>3. QED  BY <4>1, <4>2
    <3>2. QED  BY <3>1 DEF Left
  <2>6. Left[r] = round[r]  BY <2>1 DEF Left
  <2>7. QED  BY <2>1, <2>5, <2>6
<1>5. ASSUME NEW b \in Blocks,
             BlockStep(r, b) \/ \E w \in Warps, t \in Ranks : ThreadStep(r, b, w, t)
      PROVE  \/ /\ Left[r] < round[r] /\ \A q \in Ranks : round[q] >= round[r]
                /\ Left' = [Left EXCEPT ![r] = @ + 1]
                /\ Len(sizes)' = Len(sizes) /\ round' = round
             \/ Len(sizes)' = Len(sizes) /\ round' = round /\ Left' = Left
  <2>1. /\ ~Idle(r) /\ sizes' = sizes /\ round' = round
        /\ \A q \in Ranks : q # r => blk'[q] = blk[q]
    BY <1>1, <1>5, BlockAlone DEF Idle
  <2>2. \A q \in Ranks : q # r => Idle(q)' = Idle(q)  BY <2>1 DEF Idle
  <2>3. CASE ~Idle(r)'
    <3>1. \A q \in Ranks : Idle(q)' <=> Idle(q)  BY <2>1, <2>2, <2>3
    <3>2. Left' = Left  BY <2>1, <3>1 DEF Left
    <3>3. QED  BY <2>1, <3>2
  <2>4. CASE Idle(r)'
    <3>1. Left[r] = round[r] - 1  BY <2>1 DEF Left
    <3>2. round[r] > 0
      <4>1. blk[r][b].pc # "done"  BY <1>1, <1>5, BlockAlone
      <4>2. QED  BY <4>1 DEF IInv, BlocksOK
    <3>3. \A q \in Ranks : round[q] >= round[r]
      <4>1. \A q \in Ranks : round'[q] >= round'[r]
        <5>1. round'[r] > 0  BY <2>1, <3>2
        <5>2. QED  BY <2>4, <5>1 DEF AllStarted
      <4>2. QED  BY <2>1, <4>1
    <3>4. Left' = [Left EXCEPT ![r] = @ + 1]
      <4>1. ASSUME NEW q \in Ranks
            PROVE  (IF Idle(q)' THEN round'[q] ELSE round'[q] - 1)
                     = IF q = r THEN Left[r] + 1 ELSE Left[q]
        <5>1. CASE q = r  BY <1>3, <2>1, <2>4, <3>1, <5>1
        <5>2. CASE q # r  BY <2>1, <2>2, <5>2 DEF Left
        <5>3. QED  BY <5>1, <5>2
      <4>2. QED  BY <4>1 DEF Left
    <3>5. QED  BY <1>3, <2>1, <3>1, <3>2, <3>3, <3>4
  <2>5. QED  BY <2>3, <2>4
<1>6. QED  BY <1>2, <1>4, <1>5 DEF RankNext

\* No rank is through with a round before all ranks have started it: the
\* kernels synchronise like a rendezvous, without a barrier.
THEOREM Synchronised == Spec => Collective!Safety
<1>1. IInv /\ AllStarted' /\ [Next]_vars => [Collective!Next]_(Collective!vars)
  BY CollectiveStep
<1>2. QED
  BY <1>1, CollectiveInit, StartedBefore, Invariance, PTL DEF Spec, Collective!Safety
-----------------------------------------------------------------------------
(* What has been pushed is there until its round is over.                  *)

\* Rank t has pushed its sum of a group of round k to rank r.
Sent(t, k, g, w, r) == round[t] > k \/ (round[t] = k /\ Pushed(t, g, w, r))

\* Then rank r finds it, before that round and in it.
DeliveredOK ==
  \A r, t \in Ranks, k \in 1 .. Len(sizes), w \in Warps : \A g \in 0 .. sizes[k] - 1 :
    k >= round[r] /\ Sent(t, k, g, w, r) => buf[r][Slot(k)][Cell(sizes[k], t, g, w)] # Empty

\* A block starts with its first group and has pushed nothing.
EntryOK == \A r \in Ranks, b \in Blocks :
  blk[r][b].pc \in Entering => blk[r][b].group = b /\ blk[r][b].sent = {}

\* A lane pushes before it waits.
LanesOK == \A r \in Ranks, b \in Blocks, x \in Threads :
  blk[r][b].got[x] # Empty => x \in blk[r][b].sent

\* What a step of a block does to its registers.
LEMMA BlockChange ==
  ASSUME TypeOK, NEW r \in Ranks, NEW b \in Blocks,
         BlockStep(r, b) \/ \E w \in Warps, t \in Ranks : ThreadStep(r, b, w, t)
  PROVE  LET me == blk[r][b]
             new == blk'[r][b]
             next == me.group + Grid(Groups(r))
         IN
         /\ sizes' = sizes /\ round' = round
         /\ \A q \in Ranks, c \in Blocks : q # r \/ c # b => blk'[q][c] = blk[q][c]
         /\ \/ me.pc = "update" /\ new = Gone
            \/ /\ <<me.pc, new.pc>> \in {<<"read", "count">>, <<"count", "work">>, <<"clear", "update">>}
               /\ new.group = me.group /\ new.sent = me.sent /\ new.got = me.got
            \/ \E w \in Warps, t \in Ranks :
                 /\ Push(r, b, w, t) /\ me.pc = "work" /\ new.pc = "work"
                 /\ new.group = me.group /\ new.sent = me.sent \cup {<<w, t>>} /\ new.got = me.got
            \/ /\ me.pc = "work" /\ new.pc = "work"
               /\ new.group = me.group /\ new.sent = me.sent
               /\ \A x \in Threads : new.got[x] = me.got[x] \/ x \in me.sent
            \/ /\ me.pc = "work" /\ \A x \in Threads : me.got[x] # Empty
               /\ new.pc = IF next < Groups(r) THEN "work" ELSE "clear"
               /\ new.group = next /\ new.sent = {} /\ new.got = NoSums
<1> DEFINE me == blk[r][b]
           new == blk'[r][b]
           N == Groups(r)
           next == me.group + Grid(Groups(r))
<1>1. /\ blk \in [Ranks -> [Blocks -> BlockStates]] /\ me \in BlockStates
      /\ me.got \in [Threads -> Sums \cup {Empty}]
  BY BlockType DEF TypeOK
<1>2. ASSUME NEW v, blk' = [blk EXCEPT ![r][b] = v]
      PROVE  new = v /\ \A q \in Ranks, c \in Blocks : q # r \/ c # b => blk'[q][c] = blk[q][c]
  BY <1>1, <1>2
<1>3. CASE Read(r, b)
  <2> DEFINE v == [me EXCEPT !.pc = "count", !.flag = flag[r], !.clear = clear[r]]
  <2>1. me.pc = "read" /\ sizes' = sizes /\ round' = round /\ blk' = [blk EXCEPT ![r][b] = v]
    BY <1>3 DEF Read
  <2>2. v.pc = "count" /\ v.group = me.group /\ v.sent = me.sent /\ v.got = me.got
    BY <1>1 DEF BlockStates
  <2> HIDE DEF v
  <2>3. QED  BY <1>2, <2>1, <2>2
<1>4. CASE Count(r, b)
  <2> DEFINE v == [me EXCEPT !.pc = "work"]
  <2>1. me.pc = "count" /\ sizes' = sizes /\ round' = round /\ blk' = [blk EXCEPT ![r][b] = v]
    BY <1>4 DEF Count
  <2>2. v.pc = "work" /\ v.group = me.group /\ v.sent = me.sent /\ v.got = me.got
    BY <1>1 DEF BlockStates
  <2> HIDE DEF v
  <2>3. QED  BY <1>2, <2>1, <2>2
<1>5. CASE Clear(r, b)
  <2> DEFINE v == [me EXCEPT !.pc = "update"]
  <2>1. me.pc = "clear" /\ sizes' = sizes /\ round' = round /\ blk' = [blk EXCEPT ![r][b] = v]
    BY <1>5 DEF Clear
  <2>2. v.pc = "update" /\ v.group = me.group /\ v.sent = me.sent /\ v.got = me.got
    BY <1>1 DEF BlockStates
  <2> HIDE DEF v
  <2>3. QED  BY <1>2, <2>1, <2>2
<1>6. CASE Finish(r, b)
  <2> DEFINE v == [me EXCEPT !.group = next, !.sent = {}, !.got = NoSums,
                             !.pc = IF next < N THEN "work" ELSE "clear"]
  <2>1. /\ me.pc = "work" /\ \A x \in Threads : me.got[x] # Empty
        /\ sizes' = sizes /\ round' = round /\ blk' = [blk EXCEPT ![r][b] = v]
    BY <1>6, ZenonT(40) DEF Finish
  <2>2. /\ v.pc = (IF next < N THEN "work" ELSE "clear")
        /\ v.group = next /\ v.sent = {} /\ v.got = NoSums
    <3> HIDE DEF next, N
    <3>1. QED  BY <1>1 DEF BlockStates
  <2> HIDE DEF v
  <2>3. QED  BY <1>2, <2>1, <2>2
<1>7. CASE Update(r, b) \/ Leave(r, b)
  <2>1. me.pc = "update" /\ sizes' = sizes /\ round' = round /\ blk' = [blk EXCEPT ![r][b] = Gone]
    BY <1>7 DEF Update, Leave
  <2>2. QED  BY <1>2, <2>1
<1>8. ASSUME NEW w \in Warps, NEW t \in Ranks, Push(r, b, w, t)
      PROVE  /\ sizes' = sizes /\ round' = round
             /\ \A q \in Ranks, c \in Blocks : q # r \/ c # b => blk'[q][c] = blk[q][c]
             /\ me.pc = "work" /\ new.pc = "work"
             /\ new.group = me.group /\ new.sent = me.sent \cup {<<w, t>>} /\ new.got = me.got
  <2> DEFINE v == [me EXCEPT !.sent = @ \cup {<<w, t>>}]
  <2>1. me.pc = "work" /\ sizes' = sizes /\ round' = round /\ blk' = [blk EXCEPT ![r][b] = v]
    BY <1>8 DEF Push
  <2>2. v.pc = "work" /\ v.group = me.group /\ v.sent = me.sent \cup {<<w, t>>} /\ v.got = me.got
    BY <1>1, <2>1 DEF BlockStates
  <2> HIDE DEF v
  <2>3. QED  BY <1>2, <2>1, <2>2
<1>9. ASSUME NEW w \in Warps, NEW t \in Ranks, Pull(r, b, w, t)
      PROVE  /\ sizes' = sizes /\ round' = round
             /\ \A q \in Ranks, c \in Blocks : q # r \/ c # b => blk'[q][c] = blk[q][c]
             /\ me.pc = "work" /\ new.pc = "work"
             /\ new.group = me.group /\ new.sent = me.sent
             /\ \A x \in Threads : new.got[x] = me.got[x] \/ x \in me.sent
  <2>1. PICK value : /\ me.pc = "work" /\ <<w, t>> \in me.sent /\ sizes' = sizes /\ round' = round
                     /\ blk' = [blk EXCEPT ![r][b].got[<<w, t>>] = value]
    BY <1>9 DEF Pull
  <2> DEFINE v == [me EXCEPT !.got[<<w, t>>] = value]
  <2>2. blk' = [blk EXCEPT ![r][b] = v]  BY <2>1
  <2>3. /\ v.pc = "work" /\ v.group = me.group /\ v.sent = me.sent
        /\ \A x \in Threads : v.got[x] = me.got[x] \/ x \in me.sent
    BY <1>1, <2>1 DEF BlockStates
  <2> HIDE DEF v
  <2>4. QED  BY <1>2, <2>1, <2>2, <2>3
<1> HIDE DEF me, new, N, next
<1>10. CASE BlockStep(r, b)
  BY <1>3, <1>4, <1>5, <1>6, <1>7, <1>10 DEF BlockStep, me, new, N, next
<1>11. CASE \E w \in Warps, t \in Ranks : ThreadStep(r, b, w, t)
  BY <1>8, <1>9, <1>11 DEF ThreadStep, me, new, N, next
<1>12. QED  BY <1>10, <1>11

\* A block enters with its first group and pushes before it waits, whatever
\* step is taken.
LEMMA EntryNext ==
  ASSUME IInv, EntryOK, LanesOK, Next
  PROVE  EntryOK' /\ LanesOK'
<1>1. TypeOK  BY DEF IInv
<1>2. \A x \in Threads : NoSums[x] = Empty  BY DEF NoSums
<1>3. PICK r \in Ranks : RankNext(r)  BY DEF Next
<1>4. CASE Launch(r)
  <2>1. ASSUME NEW q \in Ranks, NEW c \in Blocks
        PROVE  /\ blk'[q][c].pc \in Entering => blk'[q][c].group = c /\ blk'[q][c].sent = {}
               /\ \A x \in Threads : blk'[q][c].got[x] # Empty => x \in blk'[q][c].sent
    <3>1. CASE q = r
      <4>1. blk'[r][c] \in {Ready(c), Gone}  BY <1>1, <1>4, LaunchFacts
      <4>2. QED  BY <1>2, <3>1, <4>1 DEF Ready, Gone, Entering
    <3>2. CASE q # r
      <4>1. blk'[q][c] = blk[q][c]  BY <1>1, <1>4, <3>2, LaunchFacts
      <4>2. QED  BY <4>1 DEF EntryOK, LanesOK
    <3>3. QED  BY <3>1, <3>2
  <2>2. QED  BY <2>1 DEF EntryOK, LanesOK
<1>5. ASSUME NEW b \in Blocks,
             BlockStep(r, b) \/ \E w \in Warps, t \in Ranks : ThreadStep(r, b, w, t)
      PROVE  EntryOK' /\ LanesOK'
  <2> DEFINE me == blk[r][b]  new == blk'[r][b]
  <2>1. \A q \in Ranks, c \in Blocks : q # r \/ c # b => blk'[q][c] = blk[q][c]
    BY <1>1, <1>5, BlockChange
  <2>2. new.pc \in Entering => new.group = me.group /\ new.sent = me.sent /\ me.pc \in Entering
    BY <1>1, <1>5, BlockChange DEF Entering, Gone
  <2>3. ASSUME NEW x \in Threads, new.got[x] # Empty PROVE x \in new.sent
    <3>1. me.got[x] # Empty => x \in me.sent  BY DEF LanesOK
    <3>2. new.got[x] # Empty /\ Gone.got = NoSums  BY <2>3, GoneFact
    <3> HIDE DEF me, new
    <3>3. QED  BY <1>1, <1>2, <1>5, <3>1, <3>2, BlockChange DEF me, new
  <2>4. EntryOK'
    <3>1. me.pc \in Entering => me.group = b /\ me.sent = {}  BY DEF EntryOK
    <3>2. ASSUME NEW q \in Ranks, NEW c \in Blocks, blk'[q][c].pc \in Entering
          PROVE  blk'[q][c].group = c /\ blk'[q][c].sent = {}
      <4>1. CASE q = r /\ c = b  BY <2>2, <3>1, <3>2, <4>1
      <4>2. CASE q # r \/ c # b  BY <2>1, <3>2, <4>2 DEF EntryOK
      <4>3. QED  BY <4>1, <4>2
    <3>3. QED  BY <3>2 DEF EntryOK
  <2>5. LanesOK'
    <3>1. ASSUME NEW q \in Ranks, NEW c \in Blocks, NEW x \in Threads, blk'[q][c].got[x] # Empty
          PROVE  x \in blk'[q][c].sent
      <4>1. CASE q = r /\ c = b  BY <2>3, <3>1, <4>1
      <4>2. CASE q # r \/ c # b  BY <2>1, <3>1, <4>2 DEF LanesOK
      <4>3. QED  BY <4>1, <4>2
    <3>2. QED  BY <3>1 DEF LanesOK
  <2>6. QED  BY <2>4, <2>5
<1>6. QED  BY <1>3, <1>4, <1>5 DEF RankNext

\* Only a push sends a sum: a block that counts has passed none of its groups,
\* and one that finishes a group has pushed all its sums.
LEMMA SentNext ==
  ASSUME IInv, EntryOK, LanesOK, Next,
         NEW t \in Ranks, NEW r \in Ranks, NEW w \in Warps,
         NEW k \in 1 .. Len(sizes), NEW g \in 0 .. sizes[k] - 1, Sent(t, k, g, w, r)'
  PROVE  \/ Sent(t, k, g, w, r)
         \/ \E b \in Blocks : Push(t, b, w, r) /\ round[t] = k /\ blk[t][b].group = g
<1>1. TypeOK /\ BlocksOK  BY DEF IInv
<1>2. PICK p \in Ranks : RankNext(p)  BY DEF Next
<1>3. \A q \in Ranks : round[q] \in Nat  BY <1>1, RoundType
<1>4. k \in Nat \ {0} /\ sizes[k] \in Nat \ {0} /\ g \in Nat /\ g < sizes[k]  BY <1>1, RoundSize
<1>5. <<w, r>> \in Threads  BY DEF Threads
<1>6. CASE Launch(p)
  <2>1. CASE t = p
    <3> DEFINE G == Grid(sizes[round[p] + 1])
    <3>1. /\ round'[t] = round[t] + 1 /\ Idle(t) /\ G \in Nat \ {0} /\ G <= MaxGrid
          /\ sizes' = sizes /\ \A c \in Blocks : c < G => blk'[t][c] = Ready(c)
      BY <1>1, <1>6, <2>1, LaunchFacts
    <3>2. CASE round[t] > k  BY <3>2 DEF Sent
    <3>3. CASE round[t] = k
      <4>1. g % Grid(Groups(t)) \in Blocks  BY <1>1, <1>4, <3>3, Running
      <4>2. QED  BY <3>1, <3>3, <4>1 DEF Sent, Pushed, Idle, Past
    <3>4. CASE round[t] < k
      <4>1. round'[t] = k /\ Pushed(t, g, w, r)'  BY <1>3, <1>4, <3>1, <3>4 DEF Sent
      <4>2. Grid(Groups(t))' = G  BY <2>1, <3>1 DEF Groups, Grid
      <4>3. g % G \in 0 .. G - 1  BY <1>4, <3>1, Remainder
      <4>4. g % G \in Blocks /\ g % G < G
        <5> HIDE DEF G
        <5>1. QED  BY <3>1, <4>3, GridAssumption DEF Blocks
      <4>5. blk'[t][g % G].pc = "read"  BY <3>1, <4>4, ReadyFact
      <4>6. QED  BY <4>1, <4>2, <4>5 DEF Pushed, Past
    <3>5. QED  BY <1>3, <1>4, <3>2, <3>3, <3>4
  <2>2. CASE t # p
    <3>1. /\ round'[t] = round[t] /\ sizes' = sizes
          /\ \A c \in Blocks : blk'[t][c] = blk[t][c]
      BY <1>1, <1>6, <2>2, LaunchFacts
    <3>2. CASE round[t] > k  BY <3>2 DEF Sent
    <3>3. CASE ~(round[t] > k)
      <4>1. round[t] = k /\ Pushed(t, g, w, r)'  BY <3>1, <3>3 DEF Sent
      <4>2. g % Grid(Groups(t)) \in Blocks  BY <1>1, <1>4, <4>1, Running
      <4>3. (g % Grid(Groups(t)))' = g % Grid(Groups(t))  BY <3>1 DEF Groups, Grid
      <4>4. blk'[t][g % Grid(Groups(t))] = blk[t][g % Grid(Groups(t))]  BY <3>1, <4>2
      <4>5. Pushed(t, g, w, r)  BY <4>1, <4>3, <4>4 DEF Pushed
      <4>6. QED  BY <4>1, <4>5 DEF Sent
    <3>4. QED  BY <3>2, <3>3
  <2>3. QED  BY <2>1, <2>2
<1>7. ASSUME NEW b \in Blocks,
             BlockStep(p, b) \/ \E x \in Warps, q \in Ranks : ThreadStep(p, b, x, q)
      PROVE  \/ Sent(t, k, g, w, r)
             \/ Push(t, b, w, r) /\ round[t] = k /\ blk[t][b].group = g
  <2>1. /\ sizes' = sizes /\ round' = round
        /\ \A q \in Ranks, c \in Blocks : q # p \/ c # b => blk'[q][c] = blk[q][c]
    BY <1>1, <1>7, BlockChange
  <2>2. CASE round[t] > k  BY <2>2 DEF Sent
  <2>3. CASE ~(round[t] > k)
    <3> DEFINE G == Grid(Groups(t))  c == g % G
    <3>1. round[t] = k /\ Pushed(t, g, w, r)'  BY <2>1, <2>3 DEF Sent
    <3>2. G \in Nat \ {0} /\ c \in Blocks /\ Groups(t) \in Nat /\ g < Groups(t)
      BY <1>1, <1>4, <3>1, Running DEF Groups
    <3>3. c' = c  BY <2>1 DEF Groups, Grid
    <3>4. SUFFICES ASSUME ~Pushed(t, g, w, r)
                   PROVE  Push(t, b, w, r) /\ blk[t][b].group = g
      BY <3>1 DEF Sent
    <3>5. \/ blk'[t][c].pc \in Past
          \/ blk'[t][c].pc = "work" /\ (g < blk'[t][c].group
               \/ (g = blk'[t][c].group /\ <<w, r>> \in blk'[t][c].sent))
      BY <3>1, <3>3 DEF Pushed
    <3>6. /\ blk[t][c].pc \notin Past
          /\ blk[t][c].pc = "work" => ~(g < blk[t][c].group
               \/ (g = blk[t][c].group /\ <<w, r>> \in blk[t][c].sent))
      BY <3>4 DEF Pushed
    <3> HIDE DEF c, G
    <3>7. t = p /\ c = b  BY <2>1, <3>2, <3>5, <3>6
    <3>8. blk[t][b].group \in Nat  BY <1>1, BlockType
    <3> DEFINE me == blk[t][b]  new == blk'[t][b]  next == me.group + G
    <3>9. /\ me.pc \in Working => me.group % G = b
          /\ me.pc # "done" => b < G
      BY <1>1 DEF BlocksOK, G
    <3>10. CASE <<me.pc, new.pc>> \in {<<"read", "count">>, <<"count", "work">>, <<"clear", "update">>}
                /\ new.group = me.group /\ new.sent = me.sent
      <4>1. me.pc = "count" /\ new.pc = "work" /\ me.group = b /\ me.sent = {}
        BY <3>5, <3>6, <3>7, <3>10 DEF Past, EntryOK, Entering
      <4>2. g < b /\ b < G  BY <3>5, <3>7, <3>9, <3>10, <4>1 DEF Past
      <4>3. g % G = g
        <5>1. b \in Nat  BY GridAssumption DEF Blocks
        <5>2. g < G  BY <1>4, <3>2, <4>2, <5>1
        <5>3. QED  BY <1>4, <3>2, <5>2, Stride
      <4>4. QED  BY <1>4, <3>7, <4>2, <4>3, GridAssumption DEF c, Blocks
    <3>11. CASE /\ me.pc = "work" /\ \A x \in Threads : me.got[x] # Empty
                /\ new.pc = IF next < Groups(t) THEN "work" ELSE "clear"
                /\ new.group = next /\ new.sent = {}
      <4>1. g < next
        <5>1. g = next => new.pc # "work"  BY <3>5, <3>7, <3>11 DEF Past
        <5> HIDE DEF me, new
        <5>2. CASE next < Groups(t)
          <6>1. new.pc = "work"  BY <3>11, <5>2
          <6>2. QED  BY <3>5, <3>7, <3>11, <6>1 DEF me, new, Past
        <5>3. CASE ~(next < Groups(t))
          <6>1. next \in Nat  BY <3>2, <3>8 DEF me
          <6>2. QED  BY <1>4, <3>2, <5>3, <6>1
        <5>4. QED  BY <5>2, <5>3
      <4>2. g % G = me.group % G  BY <3>7, <3>9, <3>11 DEF c, Working
      <4>3. g <= me.group  BY <1>4, <3>2, <3>8, <4>1, <4>2, Stride
      <4>4. <<w, r>> \in me.sent  BY <1>5, <3>11 DEF LanesOK
      <4>5. QED  BY <1>4, <3>6, <3>7, <3>8, <3>11, <4>3, <4>4
    <3>12. CASE \E x \in Warps, q \in Ranks :
                  /\ Push(p, b, x, q) /\ me.pc = "work" /\ new.pc = "work"
                  /\ new.group = me.group /\ new.sent = me.sent \cup {<<x, q>>}
      BY <3>5, <3>6, <3>7, <3>12 DEF Past
    <3>13. CASE \/ me.pc = "update" /\ new = Gone
                \/ me.pc = "work" /\ new.pc = "work" /\ new.group = me.group /\ new.sent = me.sent
      BY <3>5, <3>6, <3>7, <3>13 DEF Past
    <3>14. QED
      BY <1>1, <1>7, <3>7, <3>10, <3>11, <3>12, <3>13, BlockChange DEF G
  <2>4. QED  BY <2>2, <2>3
<1>8. QED
  <2>1. CASE Launch(p)  BY <1>6, <2>1
  <2>2. ASSUME NEW b \in Blocks,
               BlockStep(p, b) \/ \E x \in Warps, q \in Ranks : ThreadStep(p, b, x, q)
        PROVE  \/ Sent(t, k, g, w, r)
               \/ \E c \in Blocks : Push(t, c, w, r) /\ round[t] = k /\ blk[t][c].group = g
    BY <1>7, <2>2
  <2>3. QED  BY <1>2, <2>1, <2>2 DEF RankNext

\* A sum that has been pushed is found: no step takes it away in its round.
LEMMA DeliveredNext ==
  ASSUME IInv, EntryOK, LanesOK, DeliveredOK, Next
  PROVE  DeliveredOK'
<1>1. TypeOK /\ BlocksOK /\ CellsOK /\ PaceOK  BY DEF IInv
<1>2. /\ sizes' = sizes
      /\ \A q \in Ranks : round[q] \in Nat /\ round'[q] \in Nat /\ round[q] <= round'[q]
  <2>1. PICK p \in Ranks : RankNext(p)  BY DEF Next
  <2>2. \A q \in Ranks : round[q] \in Nat  BY <1>1, RoundType
  <2>3. CASE Launch(p)
    <3>1. sizes' = sizes /\ round'[p] = round[p] + 1
          /\ \A q \in Ranks : q # p => round'[q] = round[q]
      BY <1>1, <2>3, LaunchFacts
    <3>2. ASSUME NEW q \in Ranks PROVE round'[q] \in Nat /\ round[q] <= round'[q]
      <4>1. CASE q = p  BY <2>2, <3>1, <4>1
      <4>2. CASE q # p  BY <2>2, <3>1, <4>2
      <4>3. QED  BY <4>1, <4>2
    <3>3. QED  BY <2>2, <3>1, <3>2
  <2>4. ASSUME NEW b \in Blocks,
               BlockStep(p, b) \/ \E x \in Warps, q \in Ranks : ThreadStep(p, b, x, q)
        PROVE  sizes' = sizes /\ round' = round
    BY <1>1, <2>4, BlockAlone
  <2>5. CASE sizes' = sizes /\ round' = round  BY <2>2, <2>5
  <2>6. QED  BY <2>1, <2>3, <2>4, <2>5 DEF RankNext
<1>3. SUFFICES ASSUME NEW r \in Ranks, NEW t \in Ranks, NEW k \in 1 .. Len(sizes),
                      NEW w \in Warps, NEW g \in 0 .. sizes[k] - 1,
                      k >= round'[r], Sent(t, k, g, w, r)'
               PROVE  buf'[r][Slot(k)][Cell(sizes[k], t, g, w)] # Empty
  BY <1>2 DEF DeliveredOK
<1> DEFINE i == Cell(sizes[k], t, g, w)
<1>4. k \in Nat \ {0} /\ k >= round[r]  BY <1>2, <1>3
<1>5. Slot(k) \in Slots /\ i \in Cells
  <2>1. sizes[k] \in Nat \ {0} /\ Size(k) = Leaders * sizes[k] * NRanks /\ Size(k) \in 0 .. CommSize
    BY <1>1, RoundSize
  <2>2. i \in 0 .. Leaders * sizes[k] * NRanks - 1  BY <2>1, CellBound
  <2> HIDE DEF i
  <2>3. i \in Cells  BY <2>1, <2>2, SizeAssumption DEF Cells
  <2>4. QED  BY <1>4, <2>3, SlotFacts
<1> HIDE DEF i
<1>6. CASE Sent(t, k, g, w, r)
  <2>1. buf[r][Slot(k)][i] # Empty  BY <1>4, <1>6 DEF DeliveredOK, i
  <2>2. PICK v : v = buf[r][Slot(k)][i]  OBVIOUS
  <2>3. v.round \in Nat
    <3>1. v \in Sums  BY <1>1, <1>5, <2>1, <2>2 DEF TypeOK
    <3>2. QED  BY <3>1, SentinelFact
  <2>4. v.round <= round[r] + 1 /\ round[r] <= v.round + 1 /\ Slot(k) = Slot(v.round)
    BY <1>1, <1>5, <2>1, <2>2 DEF CellsOK, CellOK
  <2>5. k <= round[t] /\ round[t] <= round[r] + 1
    BY <1>1, <1>2, <1>4, <1>6 DEF Sent, PaceOK
  <2>6. k = v.round
    <3>1. PICK j \in Nat, m \in Nat, n \in Nat : j = v.round /\ m = round[r] /\ n = round[t]
      BY <1>2, <2>3
    <3>2. j <= k + 2 /\ k <= j + 2  BY <1>4, <2>4, <2>5, <3>1
    <3>3. (k + 2) % 3 = (j + 2) % 3  BY <2>4, <3>1 DEF Slot
    <3>4. QED  BY <1>4, <3>1, <3>2, <3>3, ThreeSlots
  <2>7. ~(v.round < round[r])  BY <1>2, <1>4, <2>6
  <2>8. buf'[r][Slot(k)][i] = v  BY <1>5, <2>1, <2>2, <2>7, CellStep
  <2>9. QED  BY <2>1, <2>2, <2>8 DEF i
<1>7. CASE ~Sent(t, k, g, w, r)
  <2>1. PICK b \in Blocks : Push(t, b, w, r) /\ round[t] = k /\ blk[t][b].group = g
    BY <1>3, <1>7, SentNext
  <2> DEFINE sum == [src |-> t, round |-> round[t], group |-> blk[t][b].group, warp |-> w]
  <2>2. sum \in Sums  BY <1>1, <1>2, <2>1, BlockType DEF Sums
  <2>3. buf'[r][Slot(k)][i] = sum
    <3> HIDE DEF sum
    <3>1. \A q \in Ranks, s \in Slots, c \in Cells :
            buf'[q][s][c] = IF q = r /\ s = Slot(k) /\ c = i THEN sum ELSE buf[q][s][c]
      BY <1>1, <2>1, PushFacts DEF i, sum
    <3>2. QED  BY <1>5, <3>1
  <2> HIDE DEF sum
  <2>4. QED  BY <2>2, <2>3, SentinelFact DEF i
<1>8. QED  BY <1>6, <1>7

DeliveryOK == EntryOK /\ LanesOK /\ DeliveredOK

\* This part of the invariant holds in every behaviour, too.
LEMMA Delivery == Spec => []DeliveryOK
<1>1. Init => DeliveryOK
  <2> SUFFICES ASSUME Init PROVE DeliveryOK
    OBVIOUS
  <2>1. \A r \in Ranks : round[r] = 0 /\ \A b \in Blocks : blk[r][b] = Gone  BY DEF Init
  <2>2. EntryOK /\ LanesOK
    BY <2>1 DEF EntryOK, LanesOK, Entering, Gone, NoSums
  <2>3. DeliveredOK  BY <2>1 DEF DeliveredOK, Sent
  <2>4. QED  BY <2>2, <2>3 DEF DeliveryOK
<1>2. IInv /\ DeliveryOK /\ [Next]_vars => DeliveryOK'
  <2> SUFFICES ASSUME IInv, DeliveryOK, [Next]_vars PROVE DeliveryOK'
    OBVIOUS
  <2>1. CASE Next  BY <2>1, EntryNext, DeliveredNext DEF DeliveryOK
  <2>2. CASE UNCHANGED vars
    <3>1. sizes' = sizes /\ round' = round /\ buf' = buf /\ blk' = blk  BY <2>2 DEF vars
    <3>2. EntryOK' /\ LanesOK'  BY <3>1 DEF DeliveryOK, EntryOK, LanesOK
    <3>3. \A t, k, g, w, r : Sent(t, k, g, w, r)' <=> Sent(t, k, g, w, r)
      BY <3>1 DEF Sent, Pushed, Groups, Grid
    <3>4. DeliveredOK'  BY <3>1, <3>3 DEF DeliveryOK, DeliveredOK
    <3>5. QED  BY <3>2, <3>4 DEF DeliveryOK
  <2>3. QED  BY <2>1, <2>2
<1>3. QED  BY <1>1, <1>2, Invariance, PTL DEF Spec

\* A set of numbers has a least one.
LEMMA Least ==
  ASSUME NEW S, S \subseteq Nat, S # {}
  PROVE  \E x \in S : \A y \in S : x <= y
<1>1. PICK x \in S : \A y \in S : <<y, x>> \notin OpToRel(<, Nat)
  BY NatLessThanWellFounded, WFMin
<1>2. \A y \in S : ~(y < x)  BY <1>1 DEF OpToRel
<1>3. QED  BY <1>2

\* A rank whose blocks wait for no sum is through with its kernel: block 0
\* finds that all blocks have counted.
LEMMA NoneWorks ==
  ASSUME IInv, NEW r \in Ranks, \A b \in Blocks : Waits(r, b) /\ blk[r][b].pc # "work"
  PROVE  Idle(r)
<1>1. TypeOK /\ BlocksOK /\ WorkspaceOK  BY DEF IInv
<1>2. \A b \in Blocks :
        \/ blk[r][b].pc = "done"
        \/ blk[r][b].pc = "update" /\ b = 0 /\ counter[r] # Grid(Groups(r))
  BY DEF Waits
<1>3. SUFFICES ASSUME ~Idle(r) PROVE FALSE  OBVIOUS
<1>4. blk[r][0].pc = "update" /\ counter[r] # Grid(Groups(r))  BY <1>2, <1>3 DEF Idle
<1>5. round[r] > 0  BY <1>1, <1>4, BlockZero DEF BlocksOK
<1>6. counter[r] = Cardinality(Counted(r))  BY <1>1, <1>4 DEF WorkspaceOK, Rotated
<1> DEFINE n == Grid(Groups(r))
<1>7. n \in Nat \ {0} /\ n <= MaxGrid  BY <1>1, <1>5, Running
<1>8. \A b \in Blocks : b < n => b \in Counted(r)  BY <1>2 DEF Counted, Entering
<1>9. 0 .. n - 1 \subseteq Counted(r)
  <2> HIDE DEF n
  <2>1. 0 .. n - 1 \subseteq Blocks  BY <1>7, GridAssumption DEF Blocks
  <2>2. QED  BY <1>7, <1>8, <2>1
<1>10. Counted(r) = 0 .. n - 1  BY <1>1, <1>5, <1>9, CountedFinite
<1>11. Cardinality(0 .. n - 1) = n
  <2> HIDE DEF n
  <2>1. QED  BY <1>7, FS_Interval
<1>12. QED  BY <1>4, <1>6, <1>10, <1>11

\* The ranks never wait for each other in a circle: of the blocks that wait the
\* least, by round and then by group, lacks a sum whose block is behind it.
THEOREM NeverDeadlocked == Spec => []NoDeadlock
<1>1. IInv /\ DeliveryOK => NoDeadlock
  <2> SUFFICES ASSUME IInv, DeliveryOK, \A r \in Ranks : Stuck(r) PROVE \A r \in Ranks : Idle(r)
    BY DEF NoDeadlock
  <2>1. TypeOK /\ BlocksOK  BY DEF IInv
  <2>2. \A r \in Ranks, b \in Blocks : Waits(r, b)  BY DEF Stuck
  <2> DEFINE Works(r) == \E b \in Blocks : blk[r][b].pc = "work"
             Rounds == {round[r] : r \in {q \in Ranks : Works(q)}}
  <2>3. \A r \in Ranks : ~Works(r) => Idle(r)  BY <2>2, NoneWorks
  <2>4. SUFFICES ASSUME Rounds # {} PROVE FALSE  BY <2>3
  <2>5. PICK n \in Rounds : \A m \in Rounds : n <= m
    <3>1. Rounds \subseteq Nat  BY <2>1, RoundType
    <3> HIDE DEF Rounds
    <3>2. QED  BY <2>4, <3>1, Least
  <2>6. \A q \in Ranks : Works(q) => n <= round[q]  BY <2>5
  <2> DEFINE Waiting == {x \in Ranks \X Blocks : round[x[1]] = n /\ blk[x[1]][x[2]].pc = "work"}
             Turns == {blk[x[1]][x[2]].group : x \in Waiting}
  <2>7. \A q \in Ranks, c \in Blocks :
          round[q] = n /\ blk[q][c].pc = "work" => blk[q][c].group \in Turns
    <3>1. ASSUME NEW q \in Ranks, NEW c \in Blocks, round[q] = n, blk[q][c].pc = "work"
          PROVE  blk[q][c].group \in Turns
      <4>1. <<q, c>> \in Waiting  BY <3>1
      <4>2. QED  BY <4>1
    <3>2. QED  BY <3>1
  <2>8. PICK g \in Turns : \A h \in Turns : g <= h
    <3>1. Turns \subseteq Nat  BY <2>1, BlockType
    <3>2. Turns # {}  BY <2>5, <2>7
    <3> HIDE DEF Turns
    <3>3. QED  BY <3>1, <3>2, Least
  <2>9. PICK r \in Ranks, b \in Blocks : round[r] = n /\ blk[r][b].pc = "work" /\ blk[r][b].group = g
    BY <2>8
  <2>10. \A q \in Ranks, c \in Blocks :
           round[q] = n /\ blk[q][c].pc = "work" => g <= blk[q][c].group
    BY <2>7, <2>8
  <2> HIDE DEF Works, Rounds, Waiting, Turns
  <2>11. PICK w \in Warps, t \in Ranks :
           buf[r][DataSlot(blk[r][b].flag)][Cell(Groups(r), t, g, w)] = Empty
    <3>1. PICK x \in Threads : blk[r][b].got[x] = Empty  BY <2>2, <2>9 DEF Waits
    <3>2. PICK w \in Warps, t \in Ranks : x = <<w, t>>  BY DEF Threads
    <3>3. buf[r][DataSlot(blk[r][b].flag)][Cell(Groups(r), t, g, w)] = Empty
      BY <2>2, <2>9, <3>1, <3>2 DEF Waits
    <3>4. QED  BY <3>3
  <2>12. /\ n \in Nat \ {0} /\ n \in 1 .. Len(sizes) /\ sizes[n] = Groups(r)
         /\ g \in 0 .. sizes[n] - 1 /\ g \in Nat /\ DataSlot(blk[r][b].flag) = Slot(n)
    BY <2>1, <2>9, WorkFacts, BlockType
  <2>13. ~Sent(t, n, g, w, r)  BY <2>9, <2>11, <2>12 DEF DeliveryOK, DeliveredOK
  <2>14. round[t] \in Nat /\ round[t] <= Len(sizes) /\ Len(sizes) \in Nat
    BY <2>1, BlockZero, BlockType
  <2>15. CASE round[t] = n
    <3> DEFINE c == g % Grid(Groups(t))
    <3>1. c \in Blocks  BY <2>1, <2>12, <2>15, Running
    <3>2. /\ blk[t][c].pc \notin Past
          /\ blk[t][c].pc = "work" =>
               ~(g < blk[t][c].group) /\ (g = blk[t][c].group => <<w, r>> \notin blk[t][c].sent)
      BY <2>13, <2>15 DEF Sent, Pushed
    <3> HIDE DEF c
    <3>3. blk[t][c].pc = "work" /\ Threads \subseteq blk[t][c].sent
      BY <2>2, <3>1, <3>2 DEF Waits, Past
    <3>4. <<w, r>> \in blk[t][c].sent  BY <3>3 DEF Threads
    <3>5. blk[t][c].group \in Nat  BY <2>1, <3>1, BlockType
    <3>6. g <= blk[t][c].group  BY <2>10, <2>15, <3>1, <3>3
    <3>7. QED  BY <2>12, <3>2, <3>3, <3>4, <3>5, <3>6
  <2>16. CASE round[t] # n
    <3>1. round[t] < n  BY <2>12, <2>13, <2>14, <2>16 DEF Sent
    <3>2. ~Works(t)  BY <2>6, <2>12, <2>14, <3>1
    <3>3. round[t] = Len(sizes)  BY <2>3, <3>2 DEF Stuck
    <3>4. QED  BY <2>12, <2>14, <3>1, <3>3
  <2>17. QED  BY <2>15, <2>16
<1>2. QED  BY <1>1, Invariance, Delivery, PTL
=============================================================================
