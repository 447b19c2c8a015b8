--------------------------- MODULE PersistentTopK ---------------------------
(***************************************************************************)
(* The persistent top-k kernel of the sparse-attention indexer             *)
(* (csrc/libtorch_stable/persistent_topk.cuh) and the part of its launcher *)
(* that cuts a row into chunks and decides whether to launch (topk.cu).    *)
(*                                                                         *)
(* One group of thread blocks (CTAs) is modelled: the groups share no      *)
(* state and each takes its own rows.  A row longer than RADIX_THRESHOLD   *)
(* is searched by all CTAs of the group together, in four rounds of radix  *)
(* select over histograms in global memory that three buffers rotate; any  *)
(* other row is left to CTA 0.  How CTA 0 picks the top k of such a row is *)
(* not modelled.  The barrier between the CTAs is arrived at by thread 0,  *)
(* while the other waves of the block may still be adding to a histogram   *)
(* or clearing one.  At the end of a row no barrier holds the waves of a   *)
(* block together: one may load the next row to shared memory while others *)
(* still look for ties there.                                              *)
(***************************************************************************)
EXTENDS Integers, FiniteSets, Sequences, Functions

CONSTANTS
  Stride,     \* elements between two rows of the logits
  MaxChunk,   \* elements that fit the shared memory of a block
  Vec,        \* vec_size: elements per load
  K,          \* TopK
  Threshold,  \* RADIX_THRESHOLD
  Radix,      \* RADIX: buckets of a histogram, 256 in the code
  Waves,      \* waves of a block that own buckets
  Batches,    \* the rows a group may be given: sequences of sequences of keys
  Slots       \* how many blocks the device may have room for

\* A key has four digits; Weight[round] is that of the digit a round looks at.
Rounds == 4
Weight == [round \in 0 .. 3 |->
             CASE round = 0 -> Radix * Radix * Radix
               [] round = 1 -> Radix * Radix
               [] round = 2 -> Radix
               [] round = 3 -> 1]
Keys == 0 .. Radix * Weight[0] - 1

ASSUME LaunchAssumption ==
  /\ Stride \in Nat \ {0} /\ Vec \in Nat \ {0} /\ MaxChunk \in Nat \ {0}
  /\ MaxChunk % Vec = 0

ASSUME KernelAssumption ==
  /\ K \in Nat \ {0} /\ Threshold \in Nat /\ K <= Threshold
  /\ Radix \in Nat /\ Radix > 1 /\ Waves \in 1 .. Radix
  /\ Batches \subseteq Seq(Seq(Keys))
  /\ \A batch \in Batches : \A i \in DOMAIN batch : Len(batch[i]) \in 1 .. Stride
  /\ Slots \subseteq Nat \ {0}

-----------------------------------------------------------------------------
(* The launcher: how many CTAs share a row, and which part each one takes. *)

CeilDiv(a, b) == (a + b - 1) \div b

CtasPerGroup == CeilDiv(Stride, MaxChunk)

ChunkSize ==
  LET size == CeilDiv(CeilDiv(Stride, CtasPerGroup), Vec) * Vec
  IN  IF size > MaxChunk THEN MaxChunk ELSE size

CTAs == 0 .. CtasPerGroup - 1

\* The indices of a row of the given length that CTA c loads.
Chunk(c, len) == {i \in c * ChunkSize .. (c + 1) * ChunkSize - 1 : i < len}

-----------------------------------------------------------------------------
VARIABLES
  rows,     \* the rows of the group, in the order of its iterations
  slots,    \* blocks the device has room for
  maxLen,   \* max_seq_len, the width of the logits
  hist,     \* RadixRowState.histogram
  arrival,  \* RadixRowState.arrival_counter
  outc,     \* RadixRowState.output_counter
  out,      \* writes to the output: records of row, position and index
  pc,       \* where a CTA is
  phase,    \* its barrier_phase
  cta,      \* its other registers
  late,     \* history: a thread 0 has arrived before the waves of its block
  torn      \* history: CTAs and rows whose ties were looked for in shared
            \* memory that a faster wave had overwritten

input == <<rows, slots, maxLen>>
state == <<hist, arrival, outc>>
vars == <<rows, slots, maxLen, hist, arrival, outc, out, pc, phase, cta, late, torn>>

WaveIds == 0 .. Waves - 1
Buckets == 0 .. Radix - 1

\* The buckets whose counters a wave adds and clears.
OfWave(w) == {b \in Buckets : (b * Waves) \div Radix = w}

Large(row) == Len(row) > Threshold

\* Keys are indexed from 0 in the code.
Key(row, i) == row[i + 1]

\* Fault: the kernel is launched whether its blocks fit or not.
Launched_Always == TRUE

\* The launcher falls back to another kernel when the blocks that wait for
\* each other would not all be on the device.
Cooperative == maxLen > Threshold
Launched == ~ (Cooperative /\ CtasPerGroup > slots)

Row(c) == rows[cta[c].iter]
MyChunk(c) == Chunk(c, Len(Row(c)))

GlobalRound(c) == (cta[c].iter - 1) * Rounds + cta[c].round
Current(c) == GlobalRound(c) % 3
\* Fault: the buffer read in the round before, by CTAs still behind, is taken.
Following_Last(c) == (GlobalRound(c) + 2) % 3
Following(c) == (GlobalRound(c) + 1) % 3

\* The elements of a chunk that agree with the prefix found so far and have
\* digit b in this round.
InBucket(row, chunk, prefix, round, b) ==
  {i \in chunk :
     LET key == Key(row, i) \div Weight[round]
     IN  key \div Radix = prefix \div (Weight[round] * Radix) /\ key % Radix = b}

LocalCount(c, b) ==
  Cardinality(InBucket(Row(c), MyChunk(c), cta[c].prefix, cta[c].round, b))

Init ==
  /\ rows \in Batches /\ slots \in Slots
  /\ maxLen \in {n \in {Threshold, Stride} : \A i \in DOMAIN rows : Len(rows[i]) <= n}
  /\ hist = [h \in 0 .. 2 |-> [b \in Buckets |-> 0]]
  /\ arrival = 0 /\ outc = 0 /\ out = {}
  /\ pc = [c \in CTAs |-> IF Launched THEN "start" ELSE "fallback"]
  /\ phase = [c \in CTAs |-> 0]
  /\ cta = [c \in CTAs |-> [iter |-> 1, round |-> 0, prefix |-> 0, remaining |-> K,
                            added |-> {}, cleared |-> {}, ties |-> {}]]
  /\ late = FALSE /\ torn = {}

-----------------------------------------------------------------------------
(* Steps of CTA c. *)

Goto(c, to) == pc' = [pc EXCEPT ![c] = to]

\* red_release of thread 0; Everyone is the condition wait_ge spins for.
Arrive == arrival' = arrival + 1

\* Fault: the target of a barrier is that of the barrier before.
Everyone_Before(c) == arrival >= phase[c] * CtasPerGroup

Everyone(c) == arrival >= (phase[c] + 1) * CtasPerGroup

Resident == {c \in CTAs : pc[c] \notin {"start", "done", "fallback"}}

\* The device gives a block a place; CTAs other than CTA 0 leave at once when
\* no row is large.
Start(c) ==
  /\ pc[c] = "start" /\ Cardinality(Resident) < slots
  /\ Goto(c, IF c # 0 /\ ~Cooperative THEN "done" ELSE "row")
  /\ UNCHANGED <<input, state, out, phase, cta, late, torn>>

\* Fault: CTA 0 goes through the barrier's motions in its own rows too.
ShortRow_Arrives(c) ==
  /\ pc[c] = "row" /\ cta[c].iter <= Len(rows) /\ ~Large(Row(c))
  /\ cta' = [cta EXCEPT ![c].iter = @ + 1]
  /\ IF c = 0 THEN Arrive /\ phase' = [phase EXCEPT ![c] = @ + 1]
              ELSE UNCHANGED <<arrival, phase>>
  /\ UNCHANGED <<input, hist, outc, out, pc, late, torn>>

\* A row that is not large is CTA 0's alone: nobody waits.
ShortRow(c) ==
  /\ pc[c] = "row" /\ cta[c].iter <= Len(rows) /\ ~Large(Row(c))
  /\ cta' = [cta EXCEPT ![c].iter = @ + 1]
  /\ UNCHANGED <<input, state, out, pc, phase, late, torn>>

LeaveLoop(c) ==
  /\ pc[c] = "row" /\ cta[c].iter > Len(rows)
  /\ Goto(c, "done")
  /\ UNCHANGED <<input, state, out, phase, cta, late, torn>>

\* The chunk goes to shared memory and the search starts over.
LargeRow(c) ==
  /\ pc[c] = "row" /\ cta[c].iter <= Len(rows) /\ Large(Row(c))
  /\ cta' = [cta EXCEPT ![c].round = 0, ![c].prefix = 0, ![c].remaining = K,
                        ![c].added = {}, ![c].cleared = {}]
  /\ Arrive
  /\ Goto(c, "init")
  /\ UNCHANGED <<input, hist, outc, out, phase, late, torn>>

\* Fault: the initial barrier is counted but not waited for.
PassInit_NoWait(c) ==
  /\ pc[c] = "init"
  /\ phase' = [phase EXCEPT ![c] = @ + 1]
  /\ Goto(c, IF c = 0 THEN "reset" ELSE "round")
  /\ UNCHANGED <<input, state, out, cta, late, torn>>

PassInit(c) ==
  /\ pc[c] = "init" /\ Everyone(c)
  /\ phase' = [phase EXCEPT ![c] = @ + 1]
  /\ Goto(c, IF c = 0 THEN "reset" ELSE "round")
  /\ UNCHANGED <<input, state, out, cta, late, torn>>

ResetOutput(c) ==
  /\ pc[c] = "reset"
  /\ outc' = 0
  /\ Goto(c, "round")
  /\ UNCHANGED <<input, hist, arrival, out, phase, cta, late, torn>>

\* A wave adds its buckets of the block's histogram to the group's ...
Add(c, w) ==
  /\ pc[c] \in {"round", "wait"} /\ w \notin cta[c].added
  /\ hist' = [hist EXCEPT ![Current(c)] =
       [b \in Buckets |-> IF b \in OfWave(w) THEN @[b] + LocalCount(c, b) ELSE @[b]]]
  /\ cta' = [cta EXCEPT ![c].added = @ \cup {w}]
  /\ UNCHANGED <<input, arrival, outc, out, pc, phase, late, torn>>

\* ... and, in CTA 0, clears its buckets of the next buffer.
Clear(c, w) ==
  /\ c = 0 /\ pc[c] \in {"round", "wait"} /\ w \in cta[c].added \ cta[c].cleared
  /\ hist' = [hist EXCEPT ![Following(c)] =
       [b \in Buckets |-> IF b \in OfWave(w) THEN 0 ELSE @[b]]]
  /\ cta' = [cta EXCEPT ![c].cleared = @ \cup {w}]
  /\ UNCHANGED <<input, arrival, outc, out, pc, phase, late, torn>>

WaveReady(c, w) == w \in cta[c].added /\ (c = 0 => w \in cta[c].cleared)
BlockReady(c) == \A w \in WaveIds : WaveReady(c, w)

\* Thread 0 arrives when its own wave is through: no __syncthreads makes it
\* wait for the others.
ArriveRound(c) ==
  /\ pc[c] = "round" /\ WaveReady(c, 0)
  /\ Arrive
  /\ late' = (late \/ ~BlockReady(c))
  /\ Goto(c, "wait")
  /\ UNCHANGED <<input, hist, outc, out, phase, cta, torn>>

\* The __syncthreads of wait_ge does wait for them.
PassRound(c) ==
  /\ pc[c] = "wait" /\ Everyone(c) /\ BlockReady(c)
  /\ phase' = [phase EXCEPT ![c] = @ + 1]
  /\ Goto(c, "read")
  /\ UNCHANGED <<input, state, out, cta, late, torn>>

\* The suffix sum of a histogram: as many as there are pairs of a bucket from
\* b on and a number up to its count.  The pivot is the digit in which the
\* remaining_k-th largest candidate falls; 0 when the histogram has none such.
CountFrom(h, b) == Cardinality(UNION {{d} \X (1 .. h[d]) : d \in b .. Radix - 1})

\* Fault: the lowest digit with enough candidates from it on.
Pivots_Lowest(h, k) == {b \in Buckets : CountFrom(h, b) >= k}

Pivots(h, k) == {b \in Buckets : CountFrom(h, b) >= k /\ CountFrom(h, b + 1) < k}

Select(c) ==
  /\ pc[c] = "read"
  /\ LET h == hist[Current(c)]
         k == cta[c].remaining
         found == Pivots(h, k)
         digit == IF found = {} THEN 0 ELSE CHOOSE b \in found : TRUE
     IN  cta' = [cta EXCEPT
           ![c].prefix = @ + digit * Weight[cta[c].round],
           ![c].remaining = IF found = {} THEN k ELSE k - CountFrom(h, digit + 1),
           ![c].round = @ + 1, ![c].added = {}, ![c].cleared = {}]
  /\ Goto(c, IF cta[c].round = Rounds - 1 THEN "collect" ELSE "round")
  /\ UNCHANGED <<input, state, out, phase, late, torn>>

\* The elements above the pivot go to positions reserved for the block, in
\* any order; the write is not bounded by K.
Collect(c) ==
  /\ pc[c] = "collect"
  /\ LET above == {i \in MyChunk(c) : Key(Row(c), i) > cta[c].prefix}
         n == Cardinality(above)
     IN  /\ outc' = outc + n
         /\ \E at \in Bijection(above, outc .. outc + n - 1) :
              out' = out \cup {[row |-> cta[c].iter, pos |-> at[i], index |-> i] : i \in above}
  /\ Arrive
  /\ Goto(c, "final")
  /\ UNCHANGED <<input, hist, phase, cta, late, torn>>

\* Fault: ties are written while others still collect.
PassFinal_NoWait(c) ==
  /\ pc[c] = "final"
  /\ phase' = [phase EXCEPT ![c] = @ + 1]
  /\ cta' = [cta EXCEPT ![c].ties = {i \in MyChunk(c) : Key(Row(c), i) = cta[c].prefix}]
  /\ Goto(c, "ties")
  /\ UNCHANGED <<input, state, out, late, torn>>

\* What is to be found in the chunk stays the same until another row is loaded
\* over it.
PassFinal(c) ==
  /\ pc[c] = "final" /\ Everyone(c)
  /\ phase' = [phase EXCEPT ![c] = @ + 1]
  /\ cta' = [cta EXCEPT ![c].ties = {i \in MyChunk(c) : Key(Row(c), i) = cta[c].prefix}]
  /\ Goto(c, "ties")
  /\ UNCHANGED <<input, state, out, late, torn>>

\* Fault: every tie is written.
Tie_Unbounded(c) ==
  /\ pc[c] = "ties"
  /\ \E i \in cta[c].ties :
       /\ out' = out \cup {[row |-> cta[c].iter, pos |-> outc, index |-> i]}
       /\ cta' = [cta EXCEPT ![c].ties = @ \ {i}]
  /\ outc' = outc + 1
  /\ UNCHANGED <<input, hist, arrival, pc, phase, late, torn>>

\* Elements equal to the pivot, or taken to be, get what positions are left.
Tie(c) ==
  /\ pc[c] = "ties"
  /\ \E i \in cta[c].ties :
       /\ out' = IF outc < K THEN out \cup {[row |-> cta[c].iter, pos |-> outc, index |-> i]}
                             ELSE out
       /\ cta' = [cta EXCEPT ![c].ties = @ \ {i}]
  /\ outc' = outc + 1
  /\ UNCHANGED <<input, hist, arrival, pc, phase, late, torn>>

\* A row yet to come for which shared memory is used: a large one, or one that
\* CTA 0 takes a histogram of.
UsesShared(c, row) == Large(row) \/ (c = 0 /\ Len(row) > K)

\* A wave that is through with its part of the chunk goes on to such a row, and
\* overwrites what slower waves have not looked at: ties, and others.
Overtake(c) ==
  /\ pc[c] = "ties" /\ <<c, cta[c].iter>> \notin torn
  /\ \E i \in DOMAIN rows : i > cta[c].iter /\ UsesShared(c, rows[i])
  /\ \E others \in SUBSET {i \in MyChunk(c) : Key(Row(c), i) # cta[c].prefix} :
       /\ cta[c].ties \cup others # {}
       /\ cta' = [cta EXCEPT ![c].ties = @ \cup others]
  /\ torn' = torn \cup {<<c, cta[c].iter>>}
  /\ UNCHANGED <<input, state, out, pc, phase, late>>

\* What a slower wave finds there then is left open: it takes it for a tie, or
\* it does not.
Miss(c) ==
  /\ pc[c] = "ties" /\ <<c, cta[c].iter>> \in torn
  /\ \E i \in cta[c].ties : cta' = [cta EXCEPT ![c].ties = @ \ {i}]
  /\ UNCHANGED <<input, state, out, pc, phase, late, torn>>

\* The last wave follows: the __syncthreads after the load of the next row
\* (or in the search of CTA 0) lets none arrive at a barrier without it.
NextRow(c) ==
  /\ pc[c] = "ties" /\ cta[c].ties = {}
  /\ cta' = [cta EXCEPT ![c].iter = @ + 1]
  /\ Goto(c, "row")
  /\ UNCHANGED <<input, state, out, phase, late, torn>>

Step(c) ==
  \/ Start(c) \/ ShortRow(c) \/ LeaveLoop(c) \/ LargeRow(c) \/ PassInit(c)
  \/ ResetOutput(c) \/ ArriveRound(c) \/ PassRound(c) \/ Select(c)
  \/ Collect(c) \/ PassFinal(c) \/ Tie(c) \/ Overtake(c) \/ Miss(c) \/ NextRow(c)

WaveStep(c, w) == Add(c, w) \/ Clear(c, w)

Ended == \A c \in CTAs : pc[c] \in {"done", "fallback"}

Next == \E c \in CTAs : Step(c) \/ \E w \in WaveIds : WaveStep(c, w)

\* A block on the device makes progress in all its waves, and a block that
\* waits for a place gets one when there is one.
Fairness ==
  \A c \in CTAs : WF_vars(Step(c)) /\ \A w \in WaveIds : WF_vars(WaveStep(c, w))

Spec == Init /\ [][Next]_vars /\ Fairness

-----------------------------------------------------------------------------
(* Properties. *)

Places == {"start", "row", "init", "reset", "round", "wait", "read", "collect",
           "final", "ties", "done", "fallback"}

TypeOK ==
  /\ rows \in Batches /\ slots \in Slots /\ maxLen \in {Threshold, Stride}
  /\ hist \in [0 .. 2 -> [Buckets -> Nat]]
  /\ arrival \in Nat /\ outc \in Nat
  /\ \A e \in out : e.row \in DOMAIN rows /\ e.pos \in Nat /\ e.index \in 0 .. Stride - 1
  /\ pc \in [CTAs -> Places]
  /\ phase \in [CTAs -> Nat]
  /\ cta \in [CTAs -> [iter : Nat \ {0}, round : 0 .. Rounds, prefix : Nat, remaining : 1 .. K,
                       added : SUBSET WaveIds, cleared : SUBSET WaveIds,
                       ties : SUBSET (0 .. Stride - 1)]]
  /\ late \in BOOLEAN /\ torn \subseteq CTAs \X DOMAIN rows

\* The barriers a CTA has come to.
Waiting == {"init", "wait", "final"}
Arrived(c) == phase[c] + (IF pc[c] \in Waiting THEN 1 ELSE 0)

\* No CTA is past a barrier before all have come to it, whatever rows some of
\* them skip.
Lockstep == \A c, d \in CTAs : phase[c] <= Arrived(d)

\* CTAs that have come to the same barriers look at the same digit of the same
\* row: the rows CTA 0 serves alone do not shift the others against it.
SameRound ==
  \A c, d \in CTAs :
    (Arrived(c) = Arrived(d) /\ {pc[c], pc[d]} \subseteq {"wait", "read"})
      => cta[c].iter = cta[d].iter /\ cta[c].round = cta[d].round

\* The distance of two large rows with only short ones between them leaves
\* the rotation of the three buffers in step.
LargeRows == {i \in DOMAIN rows : Large(rows[i])}
Adjacent(i, j) == i < j /\ \A k \in LargeRows : k <= i \/ k >= j
NoGap == \A i, j \in LargeRows : Adjacent(i, j) => (j - i) % 3 = 1

\* A CTA that reads the histogram of a round finds in it every candidate of
\* the row, counted once.
HistogramExact ==
  NoGap /\ ~late =>
    \A c \in CTAs : pc[c] = "read" =>
      hist[Current(c)] = [b \in Buckets |->
        Cardinality(InBucket(Row(c), 0 .. Len(Row(c)) - 1, cta[c].prefix, cta[c].round, b))]

Written(i) == {e \in out : e.row = i}

\* What was asked for: K different indices of the row, in the K positions of
\* its output, none with a smaller key than an index left out.
IsTopK(i) ==
  LET chosen == {e.index : e \in Written(i)}
  IN  /\ {e.pos : e \in Written(i)} = 0 .. K - 1
      /\ Cardinality(Written(i)) = K /\ Cardinality(chosen) = K
      /\ \A x \in chosen, y \in (0 .. Len(rows[i]) - 1) \ chosen : Key(rows[i], x) >= Key(rows[i], y)

\* In some block a wave of this row was overtaken.
Overtaken(i) == \E c \in CTAs : <<c, i>> \in torn

RowsExact ==
  (\A c \in CTAs : pc[c] = "done") => \A i \in LargeRows : Overtaken(i) \/ IsTopK(i)

\* The output of a large row is its top k, if the waves keep up with their
\* thread 0, no gap puts the buffers out of step and no wave was overtaken in
\* this row, whatever became of the rows before it.
TopKExact == NoGap /\ ~late => RowsExact

\* The same for any mixture of rows.
MixedRowsExact == ~late => RowsExact

\* No write goes past the K positions of its row, where the next row's begin,
\* even when histograms hold counts of an earlier row.
WritesInRow == ~late => \A e \in out : e.pos < K

\* Two indices are never written to one position, and no index twice to a row
\* in which no wave was overtaken.
PositionsDistinct ==
  \A e, f \in out :
    e.row = f.row /\ (e.pos = f.pos \/ (e.index = f.index /\ ~Overtaken(e.row))) => e = f

\* A CTA that can take no step: it has no place on the device, waits at a
\* barrier with all its waves through, or is at its end.
Stuck(c) ==
  \/ pc[c] = "start" /\ Cardinality(Resident) >= slots
  \/ pc[c] \in Waiting /\ ~Everyone(c) /\ (pc[c] = "wait" => BlockReady(c))
  \/ pc[c] \in {"done", "fallback"}

\* CTAs never all wait: for one that has no place, for one that has left, or
\* for each other.
NoDeadlock == (\A c \in CTAs : Stuck(c)) => Ended

\* Every launch ends, with however many rows and places on the device: no CTA
\* waits at a barrier for one that is not resident or has left.
Ends == <>Ended
=============================================================================
