--------------------------- MODULE LamportReduce ----------------------------
(***************************************************************************)
(* The all-reduce inside the fused RMS-norm kernels of MiniMax models      *)
(* (csrc/libtorch_stable/minimax_reduce_rms_kernel.cu) on the workspace of *)
(* lamport_workspace.py, in the MACA build: one kernel of a rank runs      *)
(* after another.                                                          *)
(*                                                                         *)
(* Every rank pushes its partial sums into a slot of every rank's buffer   *)
(* and waits until its own buffer holds those of all ranks.  A cell that   *)
(* holds negative zero is empty; a sum is never written as negative zero,  *)
(* and a reader looks at each of the four numbers of a cell, so that half  *)
(* a cell counts as an empty one.  There is no barrier: three slots        *)
(* rotate, and a kernel empties the slot of the kernel before it.          *)
(*                                                                         *)
(* The kernel that takes Q and K together is modelled; it has two leader   *)
(* warps in a block.  The one for a single matrix, which pushes one number *)
(* per token and clears by other shares, is not.  A call without tokens    *)
(* launches nothing and is not a round.  A slot is large enough for what a *)
(* round writes and clears (SizeAssumption).                               *)
(***************************************************************************)
EXTENDS Integers, FiniteSets, Sequences

CONSTANTS
  NRanks,     \* ranks of the tensor-parallel group
  MaxGrid,    \* blocks the device holds at a time
  BlockDim,   \* threads of a block
  Leaders,    \* leader warps of a block
  CommSize,   \* comm_size: cells of a slot
  Workloads,  \* the possible sequences of rounds: groups of tokens in each
  Empty       \* negative zero

Ranks == 0 .. NRanks - 1
Warps == 0 .. Leaders - 1

ASSUME GridAssumption ==
  /\ NRanks \in Nat \ {0} /\ MaxGrid \in Nat \ {0}
  /\ BlockDim \in Nat \ {0} /\ Leaders \in Nat \ {0}

ASSUME SizeAssumption ==
  /\ CommSize \in Nat
  /\ Workloads \subseteq Seq(Nat \ {0})
  /\ \A w \in Workloads : \A n \in DOMAIN w : NRanks * w[n] * Leaders <= CommSize

\* A partial sum: which rank's, of which round, of which group and matrix.
Sums == [src : Ranks, round : Nat, group : Nat, warp : Warps]

ASSUME SentinelAssumption == Empty \notin Sums

VARIABLES
  sizes,    \* tot_groups of the rounds, the same on all ranks
  round,    \* kernels a rank has launched on its stream
  flag,     \* workspace: which slot is in use
  counter,  \* workspace: blocks that have read the workspace
  clear,    \* workspace: clear_size, the cells the next kernel empties
  buf,      \* the buffer of a rank: slots of cells
  blk,      \* blocks of the kernel a rank runs
  reduced   \* history: groups of the round whose result a rank has

workspace == <<flag, counter, clear>>
vars == <<sizes, round, flag, counter, clear, buf, blk, reduced>>

Blocks == 0 .. MaxGrid - 1
Slots == 0 .. 2
Cells == 0 .. CommSize - 1
Threads == Warps \X Ranks

Groups(r) == sizes[round[r]]
Grid(n) == IF n < MaxGrid THEN n ELSE MaxGrid

\* Where a rank's sum of a group lies in the slot of a round of n groups.
Cell(n, src, group, warp) == src * n * Leaders + Leaders * group + warp

NoSums == [t \in Threads |-> Empty]

Ready(b) == [pc |-> "read", flag |-> 0, clear |-> 0, group |-> b, sent |-> {}, got |-> NoSums]
Gone == [pc |-> "done", flag |-> 0, clear |-> 0, group |-> 0, sent |-> {}, got |-> NoSums]

Init ==
  /\ sizes \in Workloads
  /\ round = [r \in Ranks |-> 0]
  /\ flag = [r \in Ranks |-> 0]
  /\ counter = [r \in Ranks |-> 0]
  /\ clear = [r \in Ranks |-> 0]
  /\ buf = [r \in Ranks |-> [s \in Slots |-> [i \in Cells |-> Empty]]]
  /\ blk = [r \in Ranks |-> [b \in Blocks |-> Gone]]
  /\ reduced = [r \in Ranks |-> {}]

-----------------------------------------------------------------------------
Idle(r) == \A b \in Blocks : blk[r][b].pc = "done"

\* The next call; its grid fits the device.
Launch(r) ==
  /\ Idle(r) /\ round[r] < Len(sizes)
  /\ round' = [round EXCEPT ![r] = @ + 1]
  /\ blk' = [blk EXCEPT ![r] =
       [b \in Blocks |-> IF b < Grid(sizes[round[r] + 1]) THEN Ready(b) ELSE Gone]]
  /\ reduced' = [reduced EXCEPT ![r] = {}]
  /\ UNCHANGED <<sizes, workspace, buf>>

\* The constructor of LamportComm reads the workspace ...
Read(r, b) ==
  /\ blk[r][b].pc = "read"
  /\ blk' = [blk EXCEPT ![r][b].pc = "count", ![r][b].flag = flag[r], ![r][b].clear = clear[r]]
  /\ UNCHANGED <<sizes, round, workspace, buf, reduced>>

\* ... and lets block 0 know.
Count(r, b) ==
  /\ blk[r][b].pc = "count"
  /\ counter' = [counter EXCEPT ![r] = @ + 1]
  /\ blk' = [blk EXCEPT ![r][b].pc = "work"]
  /\ UNCHANGED <<sizes, round, flag, clear, buf, reduced>>

DataSlot(f) == f % 3
\* Fault: the slot the next round will use is emptied.
ClearSlot_Next(f) == (f + 1) % 3
ClearSlot(f) == (f + 2) % 3

\* Lane t of a leader warp pushes its rank's sum to rank t ...
Push(r, b, w, t) ==
  LET me == blk[r][b]
      sum == [src |-> r, round |-> round[r], group |-> me.group, warp |-> w]
  IN  /\ me.pc = "work" /\ <<w, t>> \notin me.sent
      /\ buf' = [buf EXCEPT ![t][DataSlot(me.flag)][Cell(Groups(r), r, me.group, w)] = sum]
      /\ blk' = [blk EXCEPT ![r][b].sent = @ \cup {<<w, t>>}]
      /\ UNCHANGED <<sizes, round, workspace, reduced>>

\* ... and then waits for rank t's sum in its own rank's buffer.
Pull(r, b, w, t) ==
  LET me == blk[r][b]
      value == buf[r][DataSlot(me.flag)][Cell(Groups(r), t, me.group, w)]
  IN  /\ me.pc = "work" /\ <<w, t>> \in me.sent
      /\ me.got[<<w, t>>] = Empty /\ value # Empty
      /\ blk' = [blk EXCEPT ![r][b].got[<<w, t>>] = value]
      /\ UNCHANGED <<sizes, round, workspace, buf, reduced>>

\* Fault: a block stops after its first group.
Finish_One(r, b) ==
  LET me == blk[r][b]
  IN  /\ me.pc = "work" /\ \A t \in Threads : me.got[t] # Empty
      /\ reduced' = [reduced EXCEPT ![r] = @ \cup {me.group}]
      /\ blk' = [blk EXCEPT ![r][b].sent = {}, ![r][b].got = NoSums, ![r][b].pc = "clear"]
      /\ UNCHANGED <<sizes, round, workspace, buf>>

\* With all sums the block scales its rows and goes on to its next group.
Finish(r, b) ==
  LET me == blk[r][b]
      next == me.group + Grid(Groups(r))
  IN  /\ me.pc = "work" /\ \A t \in Threads : me.got[t] # Empty
      /\ reduced' = [reduced EXCEPT ![r] = @ \cup {me.group}]
      /\ blk' = [blk EXCEPT ![r][b].group = next, ![r][b].sent = {}, ![r][b].got = NoSums,
                            ![r][b].pc = IF next < Groups(r) THEN "work" ELSE "clear"]
      /\ UNCHANGED <<sizes, round, workspace, buf>>

\* Fault: no stride, each block empties one span.
Share_OneSpan(b, grid, n) == {i \in Cells : i < n /\ i \div BlockDim = b}

\* The cells a block empties: its threads stride over the first n of a slot.
Share(b, grid, n) == {i \in Cells : i < n /\ (i \div BlockDim) % grid = b}

\* Fault: as many cells are emptied as this round has used.
Clear_ThisRound(r, b) ==
  LET me == blk[r][b]
      mine == Share(b, Grid(Groups(r)), Leaders * Groups(r) * NRanks)
  IN  /\ me.pc = "clear"
      /\ buf' = [buf EXCEPT ![r][ClearSlot(me.flag)] =
                   [i \in Cells |-> IF i \in mine THEN Empty ELSE @[i]]]
      /\ blk' = [blk EXCEPT ![r][b].pc = "update"]
      /\ UNCHANGED <<sizes, round, workspace, reduced>>

Clear(r, b) ==
  LET me == blk[r][b]
      mine == Share(b, Grid(Groups(r)), me.clear)
  IN  /\ me.pc = "clear"
      /\ buf' = [buf EXCEPT ![r][ClearSlot(me.flag)] =
                   [i \in Cells |-> IF i \in mine THEN Empty ELSE @[i]]]
      /\ blk' = [blk EXCEPT ![r][b].pc = "update"]
      /\ UNCHANGED <<sizes, round, workspace, reduced>>

\* Faults: block 0 does not wait for the others; the flag is not wrapped.
Update_NoWait(r, b) ==
  /\ blk[r][b].pc = "update" /\ b = 0
  /\ flag' = [flag EXCEPT ![r] = (blk[r][b].flag + 1) % 3]
  /\ clear' = [clear EXCEPT ![r] = Leaders * Groups(r) * NRanks]
  /\ counter' = [counter EXCEPT ![r] = 0]
  /\ blk' = [blk EXCEPT ![r][b] = Gone]
  /\ UNCHANGED <<sizes, round, buf, reduced>>

Update_NoWrap(r, b) ==
  /\ blk[r][b].pc = "update" /\ b = 0 /\ counter[r] = Grid(Groups(r))
  /\ flag' = [flag EXCEPT ![r] = blk[r][b].flag + 1]
  /\ clear' = [clear EXCEPT ![r] = Leaders * Groups(r) * NRanks]
  /\ counter' = [counter EXCEPT ![r] = 0]
  /\ blk' = [blk EXCEPT ![r][b] = Gone]
  /\ UNCHANGED <<sizes, round, buf, reduced>>

\* Block 0 rotates the slots when every block has read the workspace.
Update(r, b) ==
  /\ blk[r][b].pc = "update" /\ b = 0 /\ counter[r] = Grid(Groups(r))
  /\ flag' = [flag EXCEPT ![r] = (blk[r][b].flag + 1) % 3]
  /\ clear' = [clear EXCEPT ![r] = Leaders * Groups(r) * NRanks]
  /\ counter' = [counter EXCEPT ![r] = 0]
  /\ blk' = [blk EXCEPT ![r][b] = Gone]
  /\ UNCHANGED <<sizes, round, buf, reduced>>

Leave(r, b) ==
  /\ blk[r][b].pc = "update" /\ b # 0
  /\ blk' = [blk EXCEPT ![r][b] = Gone]
  /\ UNCHANGED <<sizes, round, workspace, buf, reduced>>

BlockStep(r, b) ==
  \/ Read(r, b) \/ Count(r, b) \/ Finish(r, b) \/ Clear(r, b)
  \/ Update(r, b) \/ Leave(r, b)

ThreadStep(r, b, w, t) == Push(r, b, w, t) \/ Pull(r, b, w, t)

RankNext(r) ==
  \/ Launch(r)
  \/ \E b \in Blocks :
       BlockStep(r, b) \/ \E w \in Warps, t \in Ranks : ThreadStep(r, b, w, t)

Next == \E r \in Ranks : RankNext(r)

\* A rank makes its calls, and the blocks of a kernel, which are all on the
\* device, make progress in all their warps.
Fairness ==
  \A r \in Ranks :
    /\ WF_vars(Launch(r))
    /\ \A b \in Blocks :
         /\ WF_vars(BlockStep(r, b))
         /\ \A w \in Warps, t \in Ranks : WF_vars(ThreadStep(r, b, w, t))

Spec == Init /\ [][Next]_vars /\ Fairness

-----------------------------------------------------------------------------
(* Properties. *)

BlockStates ==
  [pc : {"read", "count", "work", "clear", "update", "done"},
   flag : Slots, clear : 0 .. CommSize, group : Nat,
   sent : SUBSET Threads, got : [Threads -> Sums \cup {Empty}]]

\* A cell is empty or a sum; registers and workspace are in their ranges.
TypeOK ==
  /\ sizes \in Workloads
  /\ round \in [Ranks -> 0 .. Len(sizes)]
  /\ flag \in [Ranks -> Slots]
  /\ counter \in [Ranks -> Nat]
  /\ clear \in [Ranks -> 0 .. CommSize]
  /\ buf \in [Ranks -> [Slots -> [Cells -> Sums \cup {Empty}]]]
  /\ blk \in [Ranks -> [Blocks -> BlockStates]]
  /\ reduced \in [Ranks -> SUBSET Nat]

\* What a thread takes from a cell is the sum it waits for: of that rank, of
\* this round and of its group, never one left over from an earlier round or
\* already of the next.
ReducesOwnRound ==
  \A r \in Ranks, b \in Blocks, w \in Warps, t \in Ranks :
    blk[r][b].got[<<w, t>>] \in
      {Empty, [src |-> t, round |-> round[r], group |-> blk[r][b].group, warp |-> w]}

\* A kernel that is over has reduced every group of its tokens.
AllGroupsReduced ==
  \A r \in Ranks : Idle(r) /\ round[r] > 0 => reduced[r] = 0 .. Groups(r) - 1

\* A sum is written to an empty cell, never over another sum ...
WritesToEmpty ==
  [][\A r \in Ranks, s \in Slots, i \in Cells :
       buf[r][s][i] # Empty => buf'[r][s][i] \in {buf[r][s][i], Empty}]_vars

\* ... and is not wiped out as long as the rank may have to read it.
KeptWhileNeeded ==
  [][\A r \in Ranks, s \in Slots, i \in Cells :
       buf[r][s][i] # Empty /\ buf'[r][s][i] = Empty => buf[r][s][i].round < round[r]]_vars

\* A block that can take no step: it is over, waits for others to have read the
\* workspace, or has pushed its sums and finds none of those it lacks.
Waits(r, b) ==
  LET me == blk[r][b]
      Lacks(x) == me.got[x] = Empty
  IN  \/ me.pc = "done"
      \/ me.pc = "update" /\ b = 0 /\ counter[r] # Grid(Groups(r))
      \/ /\ me.pc = "work" /\ Threads \subseteq me.sent /\ \E x \in Threads : Lacks(x)
         /\ \A w \in Warps, t \in Ranks : Lacks(<<w, t>>) =>
              buf[r][DataSlot(me.flag)][Cell(Groups(r), t, me.group, w)] = Empty

\* A rank whose blocks all wait, and that has no further call to make.
Stuck(r) == (\A b \in Blocks : Waits(r, b)) /\ (Idle(r) => round[r] = Len(sizes))

\* Ranks never all wait for sums: what one lacks is on its way.
NoDeadlock == (\A r \in Ranks : Stuck(r)) => \A r \in Ranks : Idle(r)

\* Without a barrier of their own the kernels of the ranks meet in every
\* round: none is over before all have started it, and all get to the end.
Collective == INSTANCE Rendezvous WITH
  last <- Len(sizes), entered <- round,
  left <- [r \in Ranks |-> IF Idle(r) THEN round[r] ELSE round[r] - 1]
Meets == Collective!Spec
=============================================================================
