# Specifications of vLLM-metax

vLLM-metax is the MetaX plugin of vLLM. Most of its lines are ported kernels and
models; the logic that keeps state over time, under concurrency and failure, is
in a few places, and those are what this directory specifies:

* `tools/batched_test`: a scheduler that runs many model servers on the devices
  of one machine or of a cluster, with deadlines, cancellation and cleanup;
* `vllm_metax/device_allocator` and `csrc/cumem_allocator.cpp`: the sleep-mode
  allocator, which takes device memory from live tensors and gives it back;
* kernels with a synchronisation protocol of their own: the all-reduce without a
  barrier in `minimax_reduce_rms_kernel.cu`, and the top-k search of
  `persistent_topk.cuh`, whose thread blocks wait for each other.

Paths below are relative to the repository.

## Inventory

| component | state | operations | hard behaviour | what makes it correct |
|---|---|---|---|---|
| `TaskRunner.run` (`runtime.py`) | result, lease, context, monitor thread, `monitor_done`, `timed_out`, cancel event | allocate in a loop, start monitor, execute the task, finally block | every exception path, deadline against completion, cleanup that fails | resources go back after processes stopped, exactly once; the result says what happened |
| `ProcessSession` (`runtime.py`) | `_local`, `_remote`, `_children`, a lock | start, start_remote, observe, wait, stop | two threads share it, processes fork and move between its system calls, stop fails halfway | nothing starts after a stop; what was seen is stopped or kept for the next stop |
| device and node reservations (`gpu_manager.py`, `mp_manager.py`, `resources.py`) | occupied units | allocate, release | concurrent tasks, other users, failure between reservation and lease | no unit leased twice, none leaked |
| `PortManager` (`utils.py`) | occupied ports | probe and reserve, release | port reserved before it is bound | a listening server's port is not given out |
| scheduler (`launch.py`) | futures and events of a batch | submit, yield results, close | Ctrl-C at any time, one failed future, shutdown that waits | a closed batch left nothing running unreported |
| deployment and tasks (`deployment.py`, `model_worker.py`, `suites.py`) | plan, processes of a task | plan ports, start rank 0, start remote ranks, wait ready, run suites or sweep | checks between steps, lost SSH answers | a verdict is of an undisturbed server |
| reports (`reporting.py`) | CSV, manifest | write, resume | a batch cut short and resumed | only a passed, unchanged model is skipped |
| sleep-mode allocator (`cumem.py`, `cumem_allocator.cpp`, `sleep_mode_backend.py`) | table of allocations, error code of the extension, pools kept alive | enter and leave a pool, malloc and free callbacks, sleep, discard, wake up | calls that fail at some entry and are retried, tags woken one by one, errors that outlive a call | content survives; the table knows all memory |
| Lamport all-reduce (`minimax_reduce_rms_kernel.cu`, `lamport_workspace.py`) | three slots per rank, flag, counter, clear size | write, spin, clear, rotate | kernels of different ranks a round apart, rounds of different sizes | no rank reads another round's data, none waits for ever |
| persistent top-k (`persistent_topk.cuh`, `topk.cu`) | three histograms, arrival and output counter per group of blocks; row, round, prefix per block | launch decision, four rounds of radix select per row, barrier, collection, ties | blocks at different rows, waves of a block apart, counters reset while others lag | every row gets its top k, no write leaves its row, every launch ends |
| quick all-reduce (`csrc/quickreduce`) | buffers and flag colours | two-shot reduce | the same | the same |
| patch installer (`vllm_metax/patch`) | pending and applied patches | register, import hook, apply | order of imports | applied once, whatever the order |
| platform, registry, envs | none over time | checks at start | - | - |
| attention and cache back ends, models, quantization | none over time | numerical | - | - |

Interaction: the scheduler's main thread submits one `TaskRunner.run` per task to
a thread pool and shares one event per task with it. Each run has a monitor
thread, with which it shares the session, the event and two flags. All runs
share one resource manager and one port manager, each behind its own lock. The
worker calls the allocator's backend; the allocator calls the extension, which
calls back into the allocator for every block torch allocates or frees.

## Modules

| module | what it is |
|---|---|
| `TaskRunner` | the batch: scheduler, task threads, monitors, reservations, ports |
| `LeaseProtocol` | what the batch promises about devices, abstractly |
| `MCTaskRunner` | demands of the model-checked batches |
| `TaskRunnerProofs` | theorems about `TaskRunner` |
| `ProcessSession` | one session against the process tree of the operating system |
| `ProcessSessionProofs` | theorems about `ProcessSession` |
| `SleepAllocator` | allocator, extension and backend; driver and torch outside |
| `MCSleepAllocator` | symmetry of its instances |
| `SleepAllocatorProofs` | theorems about `SleepAllocator` |
| `LamportReduce` | the kernels of all ranks over the triple-buffered workspace |
| `Rendezvous` | what a collective operation promises about rounds, abstractly |
| `MCLamportReduce` | sizes of the model-checked rounds |
| `LamportReduceProofs` | theorems about `LamportReduce` |
| `PersistentTopK` | the blocks of one group, their barrier, and the launcher's layout |
| `MCPersistentTopK` | rows of the model-checked launches |
| `PersistentTopKProofs` | theorems about the barrier and the rows of `PersistentTopK`, its inductive invariant |
| `PersistentTopKCounting` | lemmas on digits, suffix sums and a round of the radix select |
| `PersistentTopKSearchProofs` | theorems about its histograms and the search |
| `PersistentTopKOutputProofs` | theorems about its output |

### TaskRunner

A unit is a GPU of the machine (`LocalBackend`) or a node of the cluster
(`ClusterBackend`). `pc[t]` is the place of a task's thread in `run()`: each place
is a point where another thread can see what was done before and change what is
done next. Between two places the code touches nothing shared or holds the lock
concerned.

* Allocation: `Allocate`, `GiveUpAllocating` (event, allocation timeout),
  `AllocateRaises`. A failed try changes nothing and is no action.
* Context and monitor: `StartMonitor`, `MonitorCannotStart`. The deadline of the
  context (`Expire`) runs from `Allocate` on.
* Execution: `PlanPort`, `PlanMasterPort`, `LockForStart` and `Spawn`,
  `LockForRank` and `StartRank` (rank by rank), `WaitReady` and `RunSuites` of a
  model test, `WaitSweep` of a benchmark, `Complete`. Each has its checks and its
  failures; all failures go through `Raise`. Start is split at the session lock
  because its point is the second check under that lock.
* Finally block: `SetMonitorDone`, `JoinMonitor`, `StopProcesses`, `ReleaseLease`,
  `ReleasePorts`.
* Monitor: `MonitorWakes`, `MonitorRound`, `MonitorStops`.
* Scheduler: `Begin`, `Yield`, `Interrupt`, `CancelTask`, `ShutDown`, `Closed`.

`StopSession` is `stop()` in one step with any set of processes that could not be
stopped. Processes are `owned` (registered), `alive`, or `orphans`, the remote
ranks whose start the task never heard of. Durations are not modelled: timeouts
may strike at any time, only their order with events matters. Text, commands and
scores are left out; a verdict is drawn freely.

### ProcessSession

Processes with parent, process group and running state, which fork, call setsid
and exit at any time; the task thread; the monitor. `stop()` is split into its
system calls: `StopBegins` (lock, last observation, list), `KillChild` per listed
child, `KillLeader` (the leader's group), `WaitLeader`, `StopEnds` (wait for the listed
children, then clear, or keep). The two kills only signal: `killed` are the processes
with a SIGKILL to take, which may run on for any time and end by `Exit`, as others do.
Hence what `stop()` waits for, the leader and the listed children, has ended when it
succeeds; other members of the leader's group have been killed and may still be ending,
which is what `LeaderGroupStopped` says. `seen` is history.
`Descendants` is psutil's recursive list of children, stated without recursion: the
processes that are in every family the leader is in.

### SleepAllocator

One action per entry of a walk, because a walk can raise at any of them. `gpu` and
`want` are the content of a range and what the program may expect of it. `err` is
the `error_code` of the extension, which only the Python entry points clear. torch
is `live`, `cached` and `dropped` blocks; a block freed while cached comes back
through `Free` (`my_free`). The driver may refuse every request but two, unmapping
a range that is mapped and freeing one that is not, and a call stops between any two of
its requests: `phys` says how far a range is (no memory, made, mapped without access,
usable), `Release` is `unmap_and_release` with the ranges whose memory stays unreleased,
because that is refused or an error was left by another call, and `WakeRaises` ends
`create_and_map` after any of its three requests. `WakeUncopied` is a wake whose copy back
is refused: `is_asleep` is cleared already, so that no later wake copies. `cut` (ranges
with calls cut short), `lost` (tensors not copied back) and `fault` are history. The build is the non-ROCm one,
as the plugin is compiled for MACA. Pools do not nest and the calls of the worker
do not overlap: the worker is single threaded there.

### LamportReduce

One kernel per rank and round, after `LamportComm` and the kernel bodies. `round` is
the kernel a rank is in; `flag`, `counter` and `clear` are its workspace, `buf` its
three slots of cells, `blk` the registers of its blocks. `Launch` starts the blocks
(a kernel of a rank begins when the one before has ended: one stream). A block reads
the workspace (`Read`), is counted (`Count`), pushes its rank's sum of a group to
every rank and waits for theirs (`Push`, `Pull`, lane by lane), goes on to its next
group or to the end (`Finish`), empties its share of the slot before (`Clear`); block 0
waits for the count and rotates (`Update`), the others leave (`Leave`). A sum is named
by rank, round, group and leader warp: its value is data. A cell has four numbers that
may become visible one by one; the code compares each with negative zero, so that a
half-written cell counts as `Empty`.

### PersistentTopK

One group of blocks (CTAs); groups share nothing. `hist`, `arrival` and `outc` are
`RadixRowState`, `pc`, `phase` and `cta` the registers of a CTA, `out` the writes to
the output as a set. `CtasPerGroup`, `ChunkSize`, `Chunk` and `Launched` are the
launcher's (`topk.cu`). `Start` gives a block a place on the device; `ShortRow`,
`LargeRow` and `LeaveLoop` are the heads of the row loop; `PassInit`, `PassRound` and
`PassFinal` the waits at the barrier; `Add` and `Clear` are done wave by wave, and
`ArriveRound` is thread 0's, which waits for its own wave only; `Select` finds the
digit, `Collect` writes what is above the pivot, `Tie` what equals it, one by one.
No barrier ends the loop over the ties: `Overtake` is a wave that loads the next row over
what slower waves have not looked at, which they then take for ties or not (`Tie`,
`Miss`), and `NextRow` is the last wave's step, as the `__syncthreads` after the load lets
none get further without it. `late` and `torn` are history: a thread 0 has arrived before
its waves were through; the CTAs and rows in which a wave was overtaken. How CTA 0
serves a row that is not large is data here: it touches no shared state.

## Runs

| run | instance | shows |
|---|---|---|
| `local` | 2 tasks (model test, benchmark), 2 GPUs, demands 2 and 1, 2 workers, 2 ports | 2.7 million states. `LeaseExclusive`, `PortExclusive`, `CleanupErrorMeansRetained`, `CancelledByScheduler`, `TimeoutReported`, `VerdictIsClean`, `ClosedMeansStopped`, `NoStartAfterStop`, `VerdictUninterrupted`, and `ImplementsLeaseProtocol`: every behaviour is one of `LeaseProtocol` |
| `cluster` | 3 nodes, a task of 3 ranks and one that asks for 4, 1 worker (as the scheduler sets) | `StoppedBeforeRelease`, `VerdictIsClean`, `NoStartAfterStop` with two remote ranks |
| `liveness` | 2 tasks on 1 GPU and 1 worker, under `FairSpec` | `BatchEnds`, `OverrunStopped` |
| `session` | sweep and 3 more processes, both threads, under `FairSpec` | 1.7 million states. `ObservedStopped`, `LeaderGroupStopped`, `NeverForgotten`, `RunEnds` |
| `sleep` | 2 ranges, 2 tags, 2 contents | 3.1 million states. `ContentPreserved`, `MemoryTracked` |
| `lamport` | 2 ranks, 2 blocks of 2 threads, 4 rounds of 1, 3, 1, 2 and of 3, 1, 1, 2 groups | 116,450 states. `ReducesOwnRound`, `AllGroupsReduced`, `WritesToEmpty`, `KeptWhileNeeded`, `NoDeadlock`, and `Meets`: every behaviour is one of `Rendezvous`, with its liveness |
| `topk` | 2 CTAs, rows of up to 4 keys, top 2, batches of up to 3 rows, room for 1 or 2 blocks | 1.5 million states. `Lockstep`, `SameRound`, `HistogramExact`, `TopKExact`, `WritesInRow`, `PositionsDistinct`, `NoDeadlock`, `Ends` |
| `stray_rank`, `lost_lease`, `descendants`, `woken`, `topk_gap` | as above; `topk_gap` with a large, a short and a large row | disagreements between code and documentation, see Findings |

Bounds. Two tasks are enough for every interaction, which is pairwise over leases,
ports and workers; the theorems below remove the bound for safety. Demand 2 on 2
GPUs lets one task block the other; one worker lets one task starve in the queue.
Two remote ranks are the least for a launch or a stop that fails between ranks.
In `session` four processes give sweep, server, worker and one more in the sweep's
own group; three are enough for the counterexample of `descendants`. In `sleep`
two ranges let a walk fail at one entry with the other done or still to come, next to
memory held by a call that was cut short; two contents tell an old backup from a new one. In `lamport` four rounds bring
the three slots once round, and a round that is larger or smaller than its neighbours
tells the clear size of one from that of another; three groups on two blocks let a
block take two groups. One leader warp is checked, as two make too many
states; the theorems hold for any number, also the two of the kernel that takes Q and K. In `topk` a digit has two values
(`Radix`) and a key four digits, so that 16 keys need all four rounds; two waves let
thread 0 run ahead of one other; the rows have ties at the pivot, need every digit and
come in every length above the threshold; stride, chunk and K are the least for which
both CTAs have work and positions run out.

Fairness. Threads are scheduled (weak fairness of each thread, not of each of its
actions), workers take queued tasks, deadlines come (`Expire`; in `ProcessSession`
the event that follows, `Cancel`). Calls that can block carry a timeout: waiting
for a killed process (`cleanup_timeout`), SSH commands, HTTP requests. One
exception is taken on trust: `remote_command` reads the exit status without a
timeout of its own once the output has ended. Nothing is assumed of Ctrl-C, of
processes ending by themselves, of idle devices, or of failures. Of the device it is
assumed that a kernel that has its blocks on it makes progress in all of them, wave by
wave and lane by lane; that a block gets a place when there is one (`Start`); and that
a rank makes its next call when its kernel has ended (`Launch`). Nothing is assumed
of their relative speed, and nothing gives a place to a block that needs one held by a
block that waits.

Deadlock is checked in the runs of `TaskRunner`, `ProcessSession` and `SleepAllocator`,
whose final states stutter explicitly (`Over`) where they have any. A launch of the top-k kernel and
the rounds of a workload do end: there `CHECK_DEADLOCK FALSE` is set, and `Ends` and
`Meets` say that nothing stops before.

## Findings

* `stray_rank`: a remote rank was started but the answer with its pid was lost.
  No stop callback exists, so the node is released with the rank running.
* `lost_lease`: `Thread.start` of the monitor raises; the finally block joins the
  thread that never started, which raises again before anything is released.
* `descendants`: a server forked into its own session after the last observation
  is unknown to `stop()` once the sweep is gone.
* `woken`: an old error of the extension makes `discard` raise after the unmap but
  before `is_asleep` is set; `wake_up` later skips the entry and succeeds.

* `topk_gap`: the histogram of a round is `(4 * iter + round) % 3` with `iter` counting
  all rows of the group, but buffers are cleared, one round ahead, only during large
  rows. The rotation survives a gap of rows that are not large only if the large rows
  are 1 modulo 3 apart (`NoGap`); otherwise the later one is searched over counts of
  the earlier. It takes more rows than groups, so that a group has several. `topk`
  states exactness under `NoGap`.

`local`, `cluster` and `session` therefore state their properties of the processes
the code was told of or has observed, which is what its design can guarantee. That a
remote rank has ended is what its stop says, without looking: `stop_headless_rank`
(`mp_manager.py:228-240`) sends the signals and ends with `|| true`. A stop that succeeds
is taken here to have ended the rank.

Three more weaknesses of the code are conditions of properties rather than findings, as
no document or test denies them: a copy back that is refused loses its tensor (`lost`, in
`ContentPreserved`), a thread 0 arrives at a barrier before its waves (`late`), and a wave
overtakes others in the loop over the ties (`Overtaken`), see "Not modelled" and "Proofs".

## Proofs

TLAPS checks, for every value of the constants that satisfies the modules'
assumptions:

`TaskRunnerProofs`, from `BatchAssumption` (demands are positive numbers, a
cluster has one worker, ports are numbers):

* `TypeCorrect` : `TypeOK`
* `SafetyCorrect` : `SafetyInv`, the inductive invariant
* from it `LeasesExclusive`, `PortsExclusive`, `ReleasedAfterStop`,
  `CleanupReported`, `VerdictsClean`, and the action properties
  `NothingStartsAfterStop` and `VerdictsUninterrupted`
* `LeaseProtocolImplemented` : `Spec => Abstract!Spec`
* `TimeoutsReported`, `CancellationsReported`, `ClosedStopped`

The safety properties are not inductive. That a stop precedes a release needs to
know which places of the thread hold a lease (`LeaseInv`) and that every running
process is registered and every registration covered by a lease (`SessionInv`).
That ports are exclusive needs ports to be kept as long as registrations
(`PortInv`). That nothing starts after a stop needs to know that the event is set
whenever the monitor is gone (`MonitorInv`), and that a monitor cannot get past the
session lock while a process is being made. That a verdict means a clean end needs
status, phase and cleanup error to agree with the place (`ResultInv`). `SafetyInv`
is the conjunction of the five; `LeaseNext`, `SessionNext`, `PortNext`,
`MonitorNext` and `ResultNext` prove each separately, from lemmas on the operations
that several actions share (`StopSessionEffect`, `TakePortEffect`, ...).

What the result says of the monitor needs more: that whoever set the event is known
(the monitor by one of its flags, or a scheduler that is closing), that a monitor that
was joined says nothing more, and that the join puts its word into the status
(`ReportInv`); what a closed batch leaves, that a run without a monitor has nothing
registered (`ClosedInv`). The theorems hold for any set of tasks, so that a
performance batch on the runner of an inference batch is covered as far as it shares
reservations.

The refinement maps leases to `holds`, tasks with a running process to `active` and
tasks whose context was made to `spent`. `ProcessStep` and `ProtocolStep` show that
each step is one of the protocol or a stutter; release is where `SessionInv` is
needed.

`SleepAllocatorProofs`, from `AllocatorAssumption` (`None` and `Garbage` are no
contents):

* `AllocatorCorrect` : `SafetyInv`, and from it `AllocatorTypes` : `TypeOK`,
  `ContentKept` : `ContentPreserved`, `MemoryKnown` : `MemoryTracked`.

`ContentPreserved` is said of every tensor but those whose copy back was refused.
`MemoryTracked` has three parts: memory that can be used belongs to an entry that is
awake; outside `cut` there is no memory half made or unmapped but held, and no entry
awake with an old backup; and as long as the driver has refused nothing and no tensor
died asleep (`~fault`) nothing was cut short, no error is left, and every awake entry has
its memory. Inside `cut` memory may be held under any entry, or under none, but cannot be
used; most of it no later call releases.

Content is kept because a range gives up its memory in one of two ways: with its
backup, by a suspend, or as a dead block. The strengthening says what dead blocks
are: `want` is `Garbage` for every range that is no tensor, tensors always have
entries (`MemoryType`), and so do the dead blocks of the pool that is open
(`OpenPool`), which torch may turn into tensors again.

`ProcessSessionProofs`, from `SessionAssumption` (the leader is a process, the adopter
is none, and nobody is no thread), for any number of processes:

* `TypeCorrect` : `TypeOK`, `SafetyCorrect` : `SafetyInv`
* from it `ObservedEnd` : `ObservedStopped`, `LeaderGroupEnds` : `LeaderGroupStopped`,
  and the action property `ChildrenKept` : `NeverForgotten`.

`LockInv` says who stops when, and that the list being stopped is still the registered
children at its end, as nobody observes under another's lock. `ChildrenInv` says that
what was observed is registered or has ended. `GroupInv` says that all that runs of the
leader's group has been killed when the leader is not registered or its kill succeeded; the
group gets no member then, because only a member that was not killed adds one.

`LamportReduceProofs`, from `GridAssumption`, `SizeAssumption` and
`SentinelAssumption`, for any number of ranks, blocks, threads, leader warps and rounds
of any sizes:

* `Invariance` : `IInv`, `TypeCorrect` : `TypeOK`, `OwnRound` : `ReducesOwnRound`,
  `AllReduced` : `AllGroupsReduced`
* the action properties `NoOverwriting` : `WritesToEmpty` and `NothingLost` :
  `KeptWhileNeeded`
* `Synchronised` : `Spec => Collective!Safety`, the safety part of `Meets`
* `NeverDeadlocked` : `NoDeadlock`, what of the liveness of `Meets` is safety.

There is no barrier, and the argument is a balance of three slots: a rank that is in a
round has finished the one before, for which it needed every rank's sums, so that ranks
are at most one round apart (`PaceOK`); a slot is written in a round, read in it, and
emptied in the next, while the ranks ahead write the third. The parts of `IInv` carry
this through the blocks: registers agree with the workspace they were read from
(`BlocksOK`, `WorkspaceOK`), each cell of each slot is empty or holds the one sum that
its round puts there (`CellsOK`), what a lane has taken is the sum it waited for
(`SumsOK`), and what is reduced is what blocks are through with (`ReducedOK`). That a
slot is really empty when it comes round needs the clear size of the round that wrote
it and that the shares of the blocks cover it.

`NoDeadlock` says that blocks never all wait with a kernel still running; `Waits` is the
negation of the guards of a block's steps, so that no `ENABLED` occurs in it. Its proof
needs what `IInv` does not say, that what has been pushed is there until its round is
over (`DeliveryOK`): only a push sends a sum (`SentNext`), because a block that counts
has passed none of its groups and one that finishes a group has pushed all its sums, and
no step empties a cell of a round that is still to be read (`DeliveredNext`). If all
wait, take among the blocks that wait for sums one of the least round and, in it, the
least group (`Least`). The sum it lacks has not been pushed. Its sender is then in the
same round, in a block that waits with an earlier group, or it is a round behind with
no block that waits for sums; there block 0 finds the count complete (`NoneWorks`), the
kernel ends, and the rank has another to launch. Both contradict the choice.

`PersistentTopKProofs`, `PersistentTopKSearchProofs` and `PersistentTopKOutputProofs`,
with the lemmas of `PersistentTopKCounting`, from `LaunchAssumption` and
`KernelAssumption`, for any number of CTAs, waves, keys and rows:

* whether waves keep up or not, `Invariance` : `IInv`, `TypeCorrect` : `TypeOK`,
  `InLockstep` : `Lockstep`, `RoundsAgree` : `SameRound`, `OutputDistinct` :
  `PositionsDistinct` (of indices: in rows in which no wave was overtaken)
* `ChunksPartition`: the chunks of the CTAs partition a row of any length
* `HistogramsExact` : `HistogramExact`, `WritesStayInRow` : `WritesInRow`,
  `LargeRowsExact` : `TopKExact`, each under the conditions the property states
* `NeverDeadlocked` : `NoDeadlock`, with no condition
* `SearchNarrows`: what a round of the radix select does to the bounds of the search.

The counter of arrivals alone holds the CTAs together: it is the number of CTAs times
the barriers all have come to, plus those that have come to the next (`BarrierOK`). A
large row has six barriers and any other none, so the barriers a CTA has come to tell
its row and round (`PlanOK`), from which the same round follows, and that nobody
collects while the output counter is reset. An index is written by the CTA whose chunk
has it, and only once unless that CTA's waves were overtaken in the row (`ServedOK`); a CTA
is past such a row or in its ties (`TornOK`); a position is below the counter when someone else
collects (`ReservedOK`). None of this needs the histograms to be right, which is why
`OutputDistinct` holds where `TopKExact` does not.

That histograms are right needs `SearchInv`. While a CTA searches a row the others are
in the same row and at most a round away (`Peers`), so the three buffers of their
rounds differ, and nobody clears or adds to a buffer that is read (`Elsewhere`). CTAs of
one round have the same prefix, because the one that selects later finds the histogram
that the other has found (`AgreeOK`). A buffer that CTA 0 has cleared stays clean until
the first wave adds to it (`FreshOK`); this is where `NoGap` enters, which makes the
buffers of two large rows in sequence those of two rounds in sequence (`Rotation`).
From then on a histogram counts the elements of the waves that have added (`FillOK`),
with `NoGap` exactly these and without it at least these; a CTA reads when all have.

Of a prefix the search keeps (`SearchOK`) that with `NoGap` the elements above its span
and those still to be found are K (`Exact`), and without it that no more than K are
above what the search can still reach (`Bounded`): a count that is too high only raises
the pivot, so that `Collect`, whose writes have no bound, stays in the row. This is a
fact about one histogram and one row (`SearchNarrows`). A suffix sum is the number of
elements of a set of pairs, which `SuffixSum` compares with the elements of the row by
numbering those of each digit, so that no induction is needed.
`OutputInv` then follows the elements that their CTAs are done with: the output counter
is their number, the positions below it, as far as there are K, are written, by none
below the pivot and all above it (`SeenOK`), in rows in which no wave was overtaken: until
all have collected none can be. The last CTA to leave a row has seen, with
the others, all that are not below the pivot, at least K by `Exact` (`LastLeaves`).

`NoDeadlock` joins the launch decision and the barrier. With a large row all CTAs have
room (`RoomOK`, from `Launched`), and without one nobody waits at a barrier, so that
places become free (`NoneUnplaced`). Someone who waits at a barrier waits for a CTA that
has come to fewer; the one that has come to the fewest waits for none, unless it has
left its rows, and who has left has come to all barriers there are (`NoneWaits`).

Where these theorems state a condition it is one the kernel does not ensure: that thread 0
of no block arrives before the other waves are through (`late`), that the rows of a group
leave the buffers in step (`NoGap`), and, for the output of a row, that no wave was
overtaken in it (`Overtaken`). The first holds for the whole launch, the last row by row:
what happened to one row does not spoil another.

Only model-checked: `BatchEnds`, `OverrunStopped`, `RunEnds`, `Ends` and the liveness half
of `Meets`, as liveness is out of the prover's reach. Every invariant and every action
property that a passing run checks is proved.

## Not modelled

* Reports and resume: `CsvReport` and `ResumeIndex` are one thread that writes and a
  later batch that reads; what a report that was cut short is worth depends on the
  order in which the file system keeps writes, and on text compared as text.
* Patch installer: what is replaced, and when modules are imported, is vLLM's.
* Quick all-reduce (`csrc/quickreduce`): none of the build's source lists compiles it.
  `custom_all_gather_reduce_scatter.cu`: one flag per block and rank around copies.
* Configuration, platform checks, registration: one pass over data, no state.
* Kernels, models, quantization, attention back ends: numerical, or driven by
  vLLM's scheduler, which is not in this repository. They are most of the lines of the
  repository, and the reason why the modules here stand for a small share of them.
* In `TaskRunner`, `ProcessSession` and `SleepAllocator`: second Ctrl-C, reuse of
  pids, who answers a health check, the interpreter lock in `my_free`. All but the first,
  which leads to the interpreter's exit, are hazards in `PROJECT.json` with the reason.
  Liveness of a batch is checked on one machine, without remote ranks.
* In `SleepAllocator`: the handle behind an entry that a failed `my_malloc` leaves in the
  table is freed memory (`cumem_allocator.cpp:440`), through which a later wake or free
  writes or reads; what a driver does with such a handle is left out. Threads besides the
  worker's, and the ROCm build.
* In `LamportReduce`: the sums and norms; the visibility order of stores other than
  that a cell is whole or counts as empty; the creation and the end of the workspace;
  rounds that overflow a slot, which `SizeAssumption` excludes; the kernel for a single
  matrix. The handles are published before the buffers are filled and no barrier follows
  (`lamport_workspace.py:171-172`), so that a peer's first push could be wiped. The fused
  operator is switched off by default (`_MINIMAX_FUSED_AR_RMS_QK = None` in `rms_norm_tp.py`).
* In `PersistentTopK`: how one block picks the top k of a row that is not large
  (`histogram_2048_topk`, `histogram_256_topk`), `FilteredTopK`, `cooperative_topk`, and
  the kernels the launcher falls back to.
* Thread 0 of a block arrives at a barrier before its other waves may be through
  (`persistent_topk.cuh:713`). The model has these behaviours; `HistogramExact`,
  `TopKExact` and `WritesInRow` are stated for the others (`~late`), since with a late
  wave another block can read an incomplete histogram.
* No `__syncthreads` follows the loop over the ties (`persistent_topk.cuh:805-812`), so
  that a fast wave can overwrite `shared_ordered` under a slower one: a tie is lost, or an
  index is written that is no tie or is in the output already. The model has these
  behaviours too; `TopKExact` and the indices of `PositionsDistinct` are stated for rows
  without them, and all else holds in spite of them.
* `slots` is both what the launcher takes the device to have room for and the room there
  is. Kernels of other streams that hold places, against which `topk.cu:119-132` keeps
  some in reserve, are left out.

## Plan

Done: `TaskRunner`, `LeaseProtocol`, `ProcessSession`, `SleepAllocator`,
`LamportReduce`, `Rendezvous`, `PersistentTopK`, their runs and their proofs.

1. `ResumeReport`: `CsvReport` and `ResumeIndex` with a batch cut short at any
   write, over a model of what the file system keeps.
2. An abstract specification of suspend and resume, which `SleepAllocator` implements.
3. `LeaseProtocol` composed over two batches on one runner, with what the first
   retained.
