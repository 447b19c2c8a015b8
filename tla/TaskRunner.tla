----------------------------- MODULE TaskRunner -----------------------------
(***************************************************************************)
(* The life cycle of a batch of model tests (tools/batched_test): the      *)
(* scheduler of launch.py, one TaskRunner.run thread and one monitor       *)
(* thread per task (runtime.py), the process session each task owns, the   *)
(* shared device or node reservations (resources.py, gpu_manager.py,       *)
(* mp_manager.py) and the shared port reservations (utils.py).             *)
(*                                                                         *)
(* A unit is what a backend reserves: a GPU of the local machine, or a     *)
(* node of the cluster.  Process 0 of a task is the Popen leader on this   *)
(* machine (rank 0); process r > 0 is the headless rank on node r.         *)
(***************************************************************************)
EXTENDS Naturals, FiniteSets

CONSTANTS
  Tasks,         \* the submitted tasks
  Benchmarks,    \* those that are BenchmarkTasks; the others are InferenceTasks
  NumUnits,      \* GPUs of the machine, or nodes of the cluster
  Need,          \* [Tasks -> Nat \ {0}]: units the task asks for
  Distributed,   \* TRUE for ClusterBackend, FALSE for LocalBackend
  MaxWorkers,    \* threads of the executor
  HttpPorts,     \* candidate service ports (8000..8999)
  MasterPorts    \* candidate rendezvous ports (29500..29649)

ASSUME BatchAssumption ==
  /\ Benchmarks \subseteq Tasks
  /\ NumUnits \in Nat \ {0}
  /\ Need \in [Tasks -> Nat \ {0}]
  /\ Distributed \in BOOLEAN
  /\ MaxWorkers \in Nat \ {0}
  /\ Distributed => MaxWorkers = 1
  /\ HttpPorts \subseteq Nat
  /\ MasterPorts \subseteq Nat

Units == 0 .. NumUnits - 1
Leader == 0
Ports == HttpPorts \cup MasterPorts

VARIABLES
  sched,         \* the generator _run_tasks: running, closing, shutdown, closed
  pending,       \* futures not yielded, then those not yet cancelled
  pc,            \* where the thread of TaskRunner.run is
  mon,           \* where the monitor thread watch() is
  cancel,        \* the per-task cancellation event
  expired,       \* execution_timeout has passed since the context was made
  timedOut,      \* the monitor's timed_out event
  monErr,        \* monitor_errors is not empty
  status,        \* result.status
  phase,         \* context.phase while the task runs, then result.phase
  cleanupErr,    \* result.cleanup_error is not empty
  occupied,      \* units the manager has reserved
  lease,         \* units of the lease the task holds, {} for none
  usedPorts,     \* PortManager.occupied_ports
  ports,         \* context._ports
  owned,         \* processes registered with the session
  alive,         \* running processes whose start the task was told of
  orphans        \* running remote ranks whose start the task was not told of

resources == <<occupied, lease, usedPorts, ports>>
processes == <<owned, alive, orphans>>
events == <<cancel, expired, timedOut, monErr>>
outcome == <<status, phase, cleanupErr>>
control == <<sched, pending>>
vars == <<sched, pending, pc, mon, cancel, expired, timedOut, monErr, status,
          phase, cleanupErr, occupied, lease, usedPorts, ports, owned, alive,
          orphans>>

-----------------------------------------------------------------------------
Places == {"queued", "dropped", "allocating", "leased", "planning", "master",
           "starting", "spawning", "launching", "remote", "waiting",
           "testing", "returned", "finally", "joining", "stopping",
           "releasing", "freeing", "done", "crashed"}

Final == {"dropped", "done", "crashed"}

\* The places a worker thread of the executor is busy at.
Working == Places \ ({"queued"} \cup Final)

\* The context exists and the execution deadline runs.
Deadlined == {"leased", "planning", "master", "starting", "spawning",
              "launching", "remote", "waiting", "testing", "returned",
              "finally", "joining"}

Statuses == {"passed", "failed", "error", "timeout", "cancelled"}

Succeeded == {"passed", "failed"}

\* monitor_done is set from the join on.
MonitorDone(t) ==
  pc[t] \in {"joining", "stopping", "releasing", "freeing", "done"}

\* ProcessSession._lock is held by the task thread: a process is being made.
SessionLocked(t) == pc[t] \in {"spawning", "remote"}

Remotes(t) == IF Distributed THEN lease[t] \ {Leader} ELSE {}

\* Move the thread of task t; it must be at one of the places in from.
Go(t, from, to) == pc[t] = from /\ pc' = [pc EXCEPT ![t] = to]

Init ==
  /\ sched = "running"
  /\ pending = Tasks
  /\ pc = [t \in Tasks |-> "queued"]
  /\ mon = [t \in Tasks |-> "off"]
  /\ cancel = [t \in Tasks |-> FALSE]
  /\ expired = [t \in Tasks |-> FALSE]
  /\ timedOut = [t \in Tasks |-> FALSE]
  /\ monErr = [t \in Tasks |-> FALSE]
  /\ status = [t \in Tasks |-> "error"]
  /\ phase = [t \in Tasks |-> "allocating"]
  /\ cleanupErr = [t \in Tasks |-> FALSE]
  /\ occupied = {}
  /\ lease = [t \in Tasks |-> {}]
  /\ usedPorts = {}
  /\ ports = [t \in Tasks |-> {}]
  /\ owned = [t \in Tasks |-> {}]
  /\ alive = [t \in Tasks |-> {}]
  /\ orphans = [t \in Tasks |-> {}]

-----------------------------------------------------------------------------
(***************************************************************************)
(* Exceptions.  Every exception of the body ends in the finally block with *)
(* the status its except clause gives it.                                  *)
(***************************************************************************)
Raise(t, from, s) ==
  /\ Go(t, from, "finally")
  /\ status' = [status EXCEPT ![t] = s]
  /\ UNCHANGED <<phase, cleanupErr>>

\* context.check(): cancellation first, then the execution deadline.
CheckFails(t, from) ==
  \/ cancel[t] /\ Raise(t, from, "cancelled")
  \/ ~cancel[t] /\ expired[t] /\ Raise(t, from, "timeout")

CheckPasses(t) == ~cancel[t] /\ ~expired[t]

-----------------------------------------------------------------------------
(***************************************************************************)
(* The executor and the allocation loop.                                   *)
(***************************************************************************)
\* A worker thread takes the task from the executor's queue.
Begin(t) ==
  /\ Cardinality({u \in Tasks : pc[u] \in Working}) < MaxWorkers
  /\ Go(t, "queued", "allocating")
  /\ UNCHANGED <<control, mon, events, outcome, resources, processes>>

\* The k lowest members of S.
IsFirst(T, S, k) ==
  /\ T \subseteq S
  /\ Cardinality(T) = k
  /\ \A a \in T, b \in S \ T : a < b

\* Faults: reservations are not looked at; devices are numbered from one.
FreeUnits_Reserved(idle) == IF Distributed THEN Units ELSE idle
FreeUnits_FromOne(idle) ==
  {u + 1 : u \in (IF Distributed THEN Units ELSE idle)} \ occupied

\* GPUManager.allocate counts a GPU as free when it is unreserved and its
\* memory reads as idle; MPClusterManager.allocate looks at reservations only.
\* mp_manager refuses while node 0, the machine of rank 0, is taken.
FreeUnits(idle) == (IF Distributed THEN Units ELSE idle) \ occupied

CanAllocate(t, idle) ==
  /\ Cardinality(FreeUnits(idle)) >= Need[t]
  /\ Distributed => Leader \notin occupied

\* allocate raises: more units than there are, a device that cannot be read, a
\* lease that cannot be built, of which ClusterBackend gives the units back.
AllocateRaises(t) ==
  /\ ~cancel[t]
  /\ Raise(t, "allocating", "error")
  /\ UNCHANGED <<control, mon, events, resources, processes>>

\* The lease is taken, and the context made, whose clock starts now.
Allocate(t) ==
  /\ ~cancel[t]
  /\ Go(t, "allocating", "leased")
  /\ \E idle \in SUBSET Units :
       /\ CanAllocate(t, idle)
       /\ \E T \in SUBSET FreeUnits(idle) :
            /\ IsFirst(T, FreeUnits(idle), Need[t])
            /\ lease' = [lease EXCEPT ![t] = T]
            /\ occupied' = occupied \cup T
  /\ phase' = [phase EXCEPT ![t] = "starting"]
  /\ UNCHANGED <<control, mon, events, status, cleanupErr, usedPorts, ports,
                 processes>>

\* The loop head: cancellation, then allocation_timeout.  A failed allocation
\* waits allocation_poll seconds (or until cancel) and leaves nothing changed;
\* a request above the machine's size raises instead of waiting.
GiveUpAllocating(t) ==
  /\ \/ cancel[t] /\ Raise(t, "allocating", "cancelled")
     \/ ~cancel[t] /\ Need[t] <= NumUnits /\ Raise(t, "allocating", "timeout")
  /\ UNCHANGED <<control, mon, events, resources, processes>>

\* session.check(), mkdir of the work directory, start of the monitor.
StartMonitor(t) ==
  /\ \/ cancel[t] /\ Raise(t, "leased", "cancelled") /\ UNCHANGED mon
     \/ ~cancel[t] /\ Raise(t, "leased", "error") /\ UNCHANGED mon
     \/ /\ ~cancel[t]
        /\ Go(t, "leased", "planning")
        /\ mon' = [mon EXCEPT ![t] = "sleeping"]
        /\ UNCHANGED outcome
  /\ UNCHANGED <<control, events, resources, processes>>

\* Thread.start raises: join() of the unstarted thread raises again in the
\* finally block, so run() ends there, with nothing stopped or released.
MonitorCannotStart(t) ==
  /\ ~cancel[t]
  /\ Go(t, "leased", "crashed")
  /\ UNCHANGED <<control, mon, events, outcome, resources, processes>>

-----------------------------------------------------------------------------
(***************************************************************************)
(* task.execute: plan, start rank 0, start the remote ranks, wait, test.   *)
(***************************************************************************)
\* Fault: only the probe of the port counts, not its reservation.
TakePort_Reserved(t, from, to, candidates) ==
  /\ Go(t, from, to)
  /\ UNCHANGED outcome
  /\ \E p \in candidates :
       /\ usedPorts' = usedPorts \cup {p}
       /\ ports' = [ports EXCEPT ![t] = @ \cup {p}]

\* PortManager.get_next_available_port over a range of candidates, of which
\* some are in use by processes outside the batch.
TakePort(t, from, to, candidates) ==
  \E listening \in SUBSET candidates :
    LET free == candidates \ (usedPorts \cup listening)
    IN \/ /\ free = {}
          /\ Raise(t, from, "error")
          /\ UNCHANGED <<usedPorts, ports>>
       \/ /\ Go(t, from, to)
          /\ UNCHANGED outcome
          /\ \E p \in free :
               /\ \A q \in free : p <= q
               /\ usedPorts' = usedPorts \cup {p}
               /\ ports' = [ports EXCEPT ![t] = @ \cup {p}]

\* plan_deployment reserves the service port ...
PlanPort(t) ==
  /\ \/ CheckFails(t, "planning") /\ UNCHANGED <<usedPorts, ports>>
     \/ /\ CheckPasses(t)
        /\ TakePort(t, "planning",
                    IF Distributed THEN "master" ELSE "starting", HttpPorts)
  /\ UNCHANGED <<control, mon, events, occupied, lease, processes>>

\* ... and in a cluster the rendezvous port.
PlanMasterPort(t) ==
  /\ \/ CheckFails(t, "master") /\ UNCHANGED <<usedPorts, ports>>
     \/ CheckPasses(t) /\ TakePort(t, "master", "starting", MasterPorts)
  /\ UNCHANGED <<control, mon, events, occupied, lease, processes>>

\* Fault: the event is not checked again under the lock.
LockForStart_Unchecked(t) ==
  /\ Go(t, "starting", "spawning")
  /\ UNCHANGED <<control, mon, events, outcome, resources, processes>>

\* The command and the benchmark's parameters are written out, which may
\* fail; ProcessSession.start takes the lock and checks cancellation ...
LockForStart(t) ==
  /\ \/ Raise(t, "starting", "error")
     \/ cancel[t] /\ Raise(t, "starting", "cancelled")
     \/ ~cancel[t] /\ Go(t, "starting", "spawning") /\ UNCHANGED outcome
  /\ UNCHANGED <<control, mon, events, resources, processes>>

\* The ranks in left are still to be launched.  With none left the wait
\* begins; a benchmark enters TESTING before it waits.
Proceed(t, from, left) ==
  /\ Go(t, from, IF left = {} THEN "waiting" ELSE "launching")
  /\ phase' = [phase EXCEPT ![t] =
                 IF left = {} /\ t \in Benchmarks THEN "testing" ELSE @]
  /\ UNCHANGED <<status, cleanupErr>>

\* ... then spawns and registers the leader, or Popen raises.
Spawn(t) ==
  /\ \/ /\ Proceed(t, "spawning", Remotes(t))
        /\ owned' = [owned EXCEPT ![t] = @ \cup {Leader}]
        /\ alive' = [alive EXCEPT ![t] = @ \cup {Leader}]
        /\ UNCHANGED orphans
     \/ Raise(t, "spawning", "error") /\ UNCHANGED processes
  /\ UNCHANGED <<control, mon, events, resources>>

\* Fault: neither launch_remotes nor start_remote checks.
LockForRank_Unchecked(t) ==
  /\ Go(t, "launching", "remote")
  /\ UNCHANGED <<control, mon, events, outcome, resources, processes>>

\* The next rank of launch_remotes: context.check(), then start_remote takes
\* the session lock and checks again.
LockForRank(t) ==
  /\ \/ CheckFails(t, "launching")
     \/ CheckPasses(t) /\ Go(t, "launching", "remote") /\ UNCHANGED outcome
  /\ UNCHANGED <<control, mon, events, resources, processes>>

\* start_headless_rank over SSH, rank by rank in lease order: the rank runs
\* and its stop callback is registered; or it raises before the command ran;
\* or the command ran and the answer with the pid was lost, so that it raises
\* with the rank running.
StartRank(t) ==
  LET left == Remotes(t) \ owned[t]
  IN /\ \E r \in left :
          /\ \A q \in left : r <= q
          /\ \/ /\ Proceed(t, "remote", left \ {r})
                /\ owned' = [owned EXCEPT ![t] = @ \cup {r}]
                /\ alive' = [alive EXCEPT ![t] = @ \cup {r}]
                /\ UNCHANGED orphans
             \/ /\ \E s \in {"error", "timeout"} : Raise(t, "remote", s)
                /\ \/ UNCHANGED orphans
                   \/ orphans' = [orphans EXCEPT ![t] = @ \cup {r}]
                /\ UNCHANGED <<owned, alive>>
     /\ UNCHANGED <<control, mon, events, resources>>

\* wait_ready: the check, the exit of rank 0, an error word in the log, the
\* startup timeout, or a healthy answer, after which the suites run.
WaitReady(t) ==
  /\ t \notin Benchmarks
  /\ \/ CheckFails(t, "waiting")
     \/ Raise(t, "waiting", "error")
     \/ Raise(t, "waiting", "timeout")
     \/ /\ Leader \in alive[t]
        /\ Go(t, "waiting", "testing")
        /\ phase' = [phase EXCEPT ![t] = "testing"]
        /\ UNCHANGED <<status, cleanupErr>>
  /\ UNCHANGED <<control, mon, events, resources, processes>>

\* run_suites: a check, a failed request or the cancelled client raises;
\* otherwise the cases decide between passed and failed (drawn in Complete).
RunSuites(t) ==
  /\ \/ CheckFails(t, "testing")
     \/ Raise(t, "testing", "error")
     \/ Go(t, "testing", "returned") /\ UNCHANGED outcome
  /\ UNCHANGED <<control, mon, events, resources, processes>>

\* ProcessSession.wait for the sweep has no deadline of its own: it ends with
\* the cancellation or with the sweep, whose exit code may be an error.
WaitSweep(t) ==
  /\ t \in Benchmarks
  /\ \/ cancel[t] /\ Raise(t, "waiting", "cancelled")
     \/ Leader \notin alive[t] /\ Raise(t, "waiting", "error")
     \/ /\ Leader \notin alive[t]
        /\ Go(t, "waiting", "returned")
        /\ UNCHANGED outcome
  /\ UNCHANGED <<control, mon, events, resources, processes>>

\* Or the observe() of a round of that wait raises.
WaitSweepFails(t) ==
  /\ t \in Benchmarks
  /\ Raise(t, "waiting", "error")
  /\ UNCHANGED <<control, mon, events, resources, processes>>

\* Fault: the context is not checked after execute.
Complete_Unchecked(t) ==
  /\ Go(t, "returned", "finally")
  /\ \E s \in IF t \in Benchmarks THEN {"passed"} ELSE Succeeded :
       status' = [status EXCEPT ![t] = s]
  /\ phase' = [phase EXCEPT ![t] = "complete"]
  /\ UNCHANGED <<control, mon, events, cleanupErr, resources, processes>>

\* The check after execute, then the outcome's status becomes the result's.
Complete(t) ==
  /\ \/ CheckFails(t, "returned")
     \/ /\ CheckPasses(t)
        /\ Go(t, "returned", "finally")
        /\ \E s \in IF t \in Benchmarks THEN {"passed"} ELSE Succeeded :
             status' = [status EXCEPT ![t] = s]
        /\ phase' = [phase EXCEPT ![t] = "complete"]
        /\ UNCHANGED cleanupErr
  /\ UNCHANGED <<control, mon, events, resources, processes>>

-----------------------------------------------------------------------------
(***************************************************************************)
(* The finally block.                                                      *)
(***************************************************************************)
SetMonitorDone(t) ==
  /\ Go(t, "finally", "joining")
  /\ UNCHANGED <<control, mon, events, outcome, resources, processes>>

\* Fault: what the monitor saw does not reach the result.
JoinMonitor_Silent(t) ==
  /\ mon[t] \in {"off", "exited"}
  /\ Go(t, "joining", "stopping")
  /\ UNCHANGED <<control, mon, events, outcome, resources, processes>>

\* monitor.join(), then what the monitor saw overrides the status.
JoinMonitor(t) ==
  /\ mon[t] \in {"off", "exited"}
  /\ Go(t, "joining", "stopping")
  /\ status' = [status EXCEPT ![t] =
                  IF timedOut[t] THEN "timeout"
                  ELSE IF monErr[t] THEN "error" ELSE @]
  /\ UNCHANGED <<control, mon, events, phase, cleanupErr, resources,
                 processes>>

\* Fault: a stop callback is forgotten before it has succeeded.
StopSession_Forgets(t, failed) ==
  /\ alive' = [alive EXCEPT ![t] = @ \ (owned[t] \ failed)]
  /\ owned' = [owned EXCEPT ![t] = {}]
  /\ UNCHANGED orphans

(***************************************************************************)
(* ProcessSession.stop: every registered process is killed and waited for. *)
(* The ones in failed could not be stopped: a remote rank's stop callback  *)
(* that raised stays registered (whether or not its kill was delivered),   *)
(* and after any failure so do the local processes.                        *)
(***************************************************************************)
StopSession(t, failed) ==
  /\ \E lost \in SUBSET (failed \ {Leader}) :
       alive' = [alive EXCEPT ![t] = @ \ ((owned[t] \ failed) \cup lost)]
  /\ owned' = [owned EXCEPT ![t] =
                 IF failed = {} THEN {} ELSE failed \cup (@ \cap {Leader})]
  /\ UNCHANGED orphans

\* Faults: the lease is given back after a failed stop as well; a failed stop
\* leaves the status as it was.
StopProcesses_Releases(t) ==
  /\ Go(t, "stopping", "releasing")
  /\ \E failed \in SUBSET owned[t] :
       /\ StopSession(t, failed)
       /\ cleanupErr' = [cleanupErr EXCEPT ![t] = failed # {}]
  /\ UNCHANGED <<control, mon, events, status, phase, resources>>

StopProcesses_KeepsStatus(t) ==
  /\ \E failed \in SUBSET owned[t] :
       /\ Go(t, "stopping", IF failed = {} THEN "releasing" ELSE "done")
       /\ StopSession(t, failed)
       /\ cleanupErr' = [cleanupErr EXCEPT ![t] = failed # {}]
  /\ UNCHANGED <<control, mon, events, status, phase, resources>>

\* The last stop of the run, and what its failure does to the result.
StopProcesses(t) ==
  /\ \/ /\ Go(t, "stopping", "releasing")
        /\ StopSession(t, {})
        /\ UNCHANGED outcome
     \/ \E failed \in (SUBSET owned[t]) \ {{}} :
          /\ Go(t, "stopping", "done")
          /\ StopSession(t, failed)
          /\ cleanupErr' = [cleanupErr EXCEPT ![t] = TRUE]
          /\ status' = [status EXCEPT ![t] =
                          IF @ = "timeout" THEN @ ELSE "error"]
          /\ phase' = [phase EXCEPT ![t] =
                         IF status[t] = "timeout" THEN @ ELSE "cleanup"]
  /\ UNCHANGED <<control, mon, events, resources>>

\* lease.release(), when there is a lease.
ReleaseLease(t) ==
  /\ Go(t, "releasing", "freeing")
  /\ occupied' = occupied \ lease[t]
  /\ lease' = [lease EXCEPT ![t] = {}]
  /\ UNCHANGED <<control, mon, events, outcome, usedPorts, ports, processes>>

\* release_port for every port of the context; run() returns the result.
ReleasePorts(t) ==
  /\ Go(t, "freeing", "done")
  /\ usedPorts' = usedPorts \ ports[t]
  /\ ports' = [ports EXCEPT ![t] = {}]
  /\ UNCHANGED <<control, mon, events, outcome, occupied, lease, processes>>

-----------------------------------------------------------------------------
(***************************************************************************)
(* The monitor thread.                                                     *)
(***************************************************************************)
\* monitor_done.wait(0.1): done ends the thread, the timeout starts a round.
MonitorWakes(t) ==
  /\ mon[t] = "sleeping"
  /\ mon' = [mon EXCEPT ![t] = IF MonitorDone(t) THEN "exited" ELSE "awake"]
  /\ UNCHANGED <<control, pc, events, outcome, resources, processes>>

\* Fault: the monitor looks at the event only, never at the clock.
MonitorRound_NoClock(t) ==
  /\ mon[t] = "awake"
  /\ mon' = [mon EXCEPT ![t] = IF cancel[t] THEN "stopping" ELSE "sleeping"]
  /\ UNCHANGED <<control, pc, events, outcome, resources, processes>>

\* One round: the deadline, then cancellation, else observe(), which may fail.
MonitorRound(t) ==
  /\ mon[t] = "awake"
  /\ timedOut' = [timedOut EXCEPT ![t] = @ \/ expired[t]]
  /\ \/ /\ cancel[t] \/ expired[t]
        /\ cancel' = [cancel EXCEPT ![t] = TRUE]
        /\ mon' = [mon EXCEPT ![t] = "stopping"]
        /\ UNCHANGED monErr
     \/ /\ ~cancel[t] /\ ~expired[t] /\ ~SessionLocked(t)
        /\ mon' = [mon EXCEPT ![t] = "sleeping"]
        /\ \/ UNCHANGED <<cancel, monErr>>
           \/ /\ cancel' = [cancel EXCEPT ![t] = TRUE]
              /\ monErr' = [monErr EXCEPT ![t] = TRUE]
  /\ UNCHANGED <<control, pc, expired, outcome, resources, processes>>

\* session.stop() of the monitor, once the session lock is free; what it
\* raises is dropped and the thread ends.
MonitorStops(t) ==
  /\ mon[t] = "stopping"
  /\ ~SessionLocked(t)
  /\ \E failed \in SUBSET owned[t] : StopSession(t, failed)
  /\ mon' = [mon EXCEPT ![t] = "exited"]
  /\ UNCHANGED <<control, pc, events, outcome, resources>>

-----------------------------------------------------------------------------
(***************************************************************************)
(* The scheduler and the environment.                                      *)
(***************************************************************************)
\* The main thread takes a finished future: its result, or what it raised.
Yield(t) ==
  /\ sched = "running"
  /\ t \in pending
  /\ pc[t] \in {"done", "crashed"}
  /\ pending' = pending \ {t}
  /\ sched' = IF pc[t] = "crashed" THEN "closing" ELSE sched
  /\ UNCHANGED <<pc, mon, events, outcome, resources, processes>>

\* Ctrl-C, or an exception of the report: the generator is closed.
Interrupt ==
  /\ sched = "running"
  /\ pending # {}
  /\ sched' = "closing"
  /\ UNCHANGED <<pending, pc, mon, events, outcome, resources, processes>>

\* The finally block of the generator sets the task's event and cancels its
\* future, which drops a task no worker has taken.
CancelTask(t) ==
  /\ sched = "closing"
  /\ t \in pending
  /\ pending' = pending \ {t}
  /\ cancel' = [cancel EXCEPT ![t] = TRUE]
  /\ pc' = [pc EXCEPT ![t] = IF @ = "queued" THEN "dropped" ELSE @]
  /\ UNCHANGED <<sched, mon, expired, timedOut, monErr, outcome, resources,
                 processes>>

\* executor.shutdown(wait=True) begins once every future was seen to.
ShutDown ==
  /\ sched \in {"running", "closing"}
  /\ pending = {}
  /\ sched' = "shutdown"
  /\ UNCHANGED <<pending, pc, mon, events, outcome, resources, processes>>

\* Fault: shutdown(wait=False).
Closed_NoWait ==
  /\ sched = "shutdown"
  /\ sched' = "closed"
  /\ UNCHANGED <<pending, pc, mon, events, outcome, resources, processes>>

\* ... and returns when the workers have ended.
Closed ==
  /\ sched = "shutdown"
  /\ \A t \in Tasks : pc[t] \in Final
  /\ sched' = "closed"
  /\ UNCHANGED <<pending, pc, mon, events, outcome, resources, processes>>

\* time.monotonic() passes the execution deadline.
Expire(t) ==
  /\ pc[t] \in Deadlined
  /\ ~expired[t]
  /\ expired' = [expired EXCEPT ![t] = TRUE]
  /\ UNCHANGED <<control, pc, mon, cancel, timedOut, monErr, outcome,
                 resources, processes>>

\* A process ends by itself.
Exit(t) ==
  /\ \/ /\ \E p \in alive[t] : alive' = [alive EXCEPT ![t] = @ \ {p}]
        /\ UNCHANGED orphans
     \/ /\ \E p \in orphans[t] : orphans' = [orphans EXCEPT ![t] = @ \ {p}]
        /\ UNCHANGED alive
  /\ UNCHANGED <<control, pc, mon, events, outcome, resources, owned>>

-----------------------------------------------------------------------------
Execute(t) ==
  \/ PlanPort(t) \/ PlanMasterPort(t) \/ LockForStart(t) \/ Spawn(t)
  \/ LockForRank(t) \/ StartRank(t)
  \/ WaitReady(t) \/ RunSuites(t) \/ WaitSweep(t) \/ Complete(t)

CleanUp(t) ==
  \/ SetMonitorDone(t) \/ JoinMonitor(t) \/ StopProcesses(t)
  \/ ReleaseLease(t) \/ ReleasePorts(t)

Run(t) ==
  \/ AllocateRaises(t) \/ Allocate(t) \/ GiveUpAllocating(t)
  \/ StartMonitor(t) \/ MonitorCannotStart(t) \/ Execute(t) \/ CleanUp(t)

Watch(t) == MonitorWakes(t) \/ MonitorRound(t) \/ MonitorStops(t)

Schedule == Interrupt \/ ShutDown \/ Closed
            \/ \E t \in Tasks : Begin(t) \/ Yield(t) \/ CancelTask(t)

Environment == \E t \in Tasks : Expire(t) \/ Exit(t) \/ WaitSweepFails(t)

\* The batch is over and every thread has ended.
Over == sched = "closed" /\ UNCHANGED vars

Next == Schedule \/ Environment \/ Over
        \/ \E t \in Tasks : Run(t) \/ Watch(t)

Spec == Init /\ [][Next]_vars

(***************************************************************************)
(* Fairness: threads are scheduled, deadlines come.  A SIGKILL, an SSH     *)
(* command and an HTTP request end because each carries a timeout.         *)
(* Nothing is assumed of Ctrl-C, of process exits, of idle devices or of   *)
(* failures: a sweep that hangs is ended by the deadline alone.            *)
(***************************************************************************)
Fairness ==
  /\ \A t \in Tasks : /\ WF_vars(Begin(t))
                      /\ WF_vars(Run(t))
                      /\ WF_vars(Watch(t))
                      /\ WF_vars(Expire(t))
                      /\ WF_vars(Yield(t))
                      /\ WF_vars(CancelTask(t))
  /\ WF_vars(ShutDown)
  /\ WF_vars(Closed)

FairSpec == Spec /\ Fairness

-----------------------------------------------------------------------------
TypeOK ==
  /\ sched \in {"running", "closing", "shutdown", "closed"}
  /\ pending \subseteq Tasks
  /\ pc \in [Tasks -> Places]
  /\ mon \in [Tasks -> {"off", "sleeping", "awake", "stopping", "exited"}]
  /\ cancel \in [Tasks -> BOOLEAN]
  /\ expired \in [Tasks -> BOOLEAN]
  /\ timedOut \in [Tasks -> BOOLEAN]
  /\ monErr \in [Tasks -> BOOLEAN]
  /\ status \in [Tasks -> Statuses]
  /\ phase \in [Tasks -> {"allocating", "starting", "testing", "cleanup",
                          "complete"}]
  /\ cleanupErr \in [Tasks -> BOOLEAN]
  /\ occupied \subseteq Units
  /\ lease \in [Tasks -> SUBSET Units]
  /\ usedPorts \subseteq Ports
  /\ ports \in [Tasks -> SUBSET Ports]
  /\ owned \in [Tasks -> SUBSET Units]
  /\ alive \in [Tasks -> SUBSET Units]
  /\ orphans \in [Tasks -> SUBSET Units]

(***************************************************************************)
(* Safety.                                                                 *)
(***************************************************************************)
\* No device or node is leased twice, and the manager's reservations are
\* exactly the leases that exist: nothing leaks, whatever path a run takes
\* through errors, timeouts and cancellation.
LeaseExclusive ==
  /\ occupied = UNION {lease[t] : t \in Tasks}
  /\ \A t, u \in Tasks : t # u => lease[t] \cap lease[u] = {}

\* The same for ports: a port another running model listens on is not given
\* out, since its reservation lasts until the model's processes are gone.
PortExclusive ==
  /\ \A t, u \in Tasks : t # u => ports[t] \cap ports[u] = {}
  /\ \A t \in Tasks : alive[t] # {} => ports[t] # {} /\ ports[t] \subseteq usedPorts

\* "Returns the reservation to its backend after processes have stopped"
\* (resources.py): a process the task was told of runs only under its lease,
\* also after a stop that failed halfway and was retried.
StoppedBeforeRelease ==
  \A t \in Tasks : alive[t] # {} => lease[t] # {}

\* A node of the cluster runs no rank of a task that does not lease it.
NoStrayRank ==
  \A t \in Tasks : orphans[t] \subseteq lease[t]

\* "nonempty means resources were retained" (results.py), and empty means
\* that nothing was.
CleanupErrorMeansRetained ==
  \A t \in Tasks : pc[t] = "done" =>
    IF cleanupErr[t] THEN lease[t] # {} ELSE lease[t] = {} /\ ports[t] = {}

\* Every run that has ended gave its lease back or reports that it did not.
LeaseAccountedFor ==
  \A t \in Tasks : pc[t] \in Final => lease[t] = {} \/ cleanupErr[t]

\* "cancelled without a timeout" (results.py): the event is also set by the
\* deadline and by a failing monitor, but then the result says so; CANCELLED
\* is left for the batch being closed.
CancelledByScheduler ==
  \A t \in Tasks : pc[t] = "done" /\ status[t] = "cancelled" =>
    sched # "running" /\ ~timedOut[t] /\ ~monErr[t]

\* A deadline the monitor saw is reported as a timeout, whatever the killed
\* processes made the task raise and however the cleanup went.
TimeoutReported ==
  \A t \in Tasks : pc[t] = "done" /\ timedOut[t] => status[t] = "timeout"

\* A run that reports a verdict on the model left nothing behind.
VerdictIsClean ==
  \A t \in Tasks : pc[t] = "done" /\ status[t] \in Succeeded =>
    /\ phase[t] = "complete"
    /\ alive[t] = {} /\ orphans[t] = {}
    /\ lease[t] = {} /\ ports[t] = {}

\* "TaskRunner has already cleaned up all active tasks" (launch.py): once the
\* generator is closed no thread is left, and the processes that are left
\* belong to tasks that report a cleanup error.
ClosedMeansStopped ==
  sched = "closed" => \A t \in Tasks : alive[t] # {} => cleanupErr[t]

\* After the monitor has stopped the session nothing is started any more:
\* the check under the session lock sees the event set before the stop.
NoStartAfterStop ==
  [][\A t \in Tasks :
       mon[t] = "exited" => alive'[t] \subseteq alive[t]
                            /\ orphans'[t] \subseteq orphans[t]]_vars

\* A verdict is recorded only of a run nobody has interrupted: requests that
\* fail because the server is being killed never count as a FAILED model.
VerdictUninterrupted ==
  [][\A t \in Tasks :
       status'[t] \in Succeeded /\ status[t] \notin Succeeded
         => mon[t] \in {"sleeping", "awake"} /\ ~cancel[t]]_vars

(***************************************************************************)
(* Liveness, under FairSpec.                                               *)
(***************************************************************************)
\* The batch ends, however its tasks hang, fail or starve for devices.
BatchEnds == <>(sched = "closed")

\* A model that overruns its time is stopped for good, or reported as not stoppable.
OverrunStopped ==
  \A t \in Tasks : expired[t] ~> [](alive[t] = {} \/ cleanupErr[t])

(***************************************************************************)
(* The inductive invariant behind the safety properties above.             *)
(***************************************************************************)
\* Inside task.execute, and everywhere else a task holds its lease for sure.
Executing == {"planning", "master", "starting", "spawning", "launching",
              "remote", "waiting", "testing", "returned"}
Leased == {"leased"} \cup Executing
Unleased == {"queued", "dropped", "allocating"}
AfterBody == {"finally", "joining", "stopping", "releasing", "freeing", "done"}

LeaseInv ==
  /\ LeaseExclusive
  /\ \A t \in Tasks :
       /\ pc[t] \in Unleased \cup {"freeing"} => lease[t] = {}
       /\ pc[t] \in Leased => lease[t] # {}

SessionInv ==
  \A t \in Tasks :
    /\ alive[t] \subseteq owned[t]
    /\ owned[t] # {} => lease[t] # {}
    /\ pc[t] \in {"releasing", "freeing"} => owned[t] = {}

PortInv ==
  /\ \A t, u \in Tasks : t # u => ports[t] \cap ports[u] = {}
  /\ \A t \in Tasks :
       /\ ports[t] \subseteq usedPorts
       /\ owned[t] # {} => ports[t] # {}
       /\ pc[t] \in Executing \ {"planning"} => ports[t] # {}

MonitorInv ==
  \A t \in Tasks :
    /\ mon[t] = "off" => pc[t] \notin Executing
    /\ mon[t] = "stopping" => cancel[t]
    /\ mon[t] = "exited" => cancel[t] \/ MonitorDone(t)
    /\ SessionLocked(t) => mon[t] # "exited"

ResultInv ==
  \A t \in Tasks :
    /\ pc[t] \in Unleased => phase[t] = "allocating"
    /\ lease[t] # {} => phase[t] # "allocating"
    /\ pc[t] \in Unleased \cup Leased => orphans[t] = {}
    /\ status[t] \in Succeeded => /\ pc[t] \in AfterBody
                                  /\ phase[t] = "complete"
                                  /\ orphans[t] = {}
    /\ cleanupErr[t] => /\ pc[t] = "done"
                        /\ lease[t] # {}
                        /\ status[t] \notin Succeeded
    /\ pc[t] = "done" /\ ~cleanupErr[t] =>
         lease[t] = {} /\ ports[t] = {} /\ owned[t] = {}

\* What every reachable state satisfies and every step preserves: a task's
\* processes, ports, lease, monitor and result agree with where its thread is.
SafetyInv == LeaseInv /\ SessionInv /\ PortInv /\ MonitorInv /\ ResultInv

(***************************************************************************)
(* The lease protocol this implements.  A task has had its lease from the  *)
(* moment its context exists.                                              *)
(***************************************************************************)
Abstract == INSTANCE LeaseProtocol WITH
  holds  <- lease,
  active <- {t \in Tasks : alive[t] # {}},
  spent  <- {t \in Tasks : phase[t] # "allocating"}

\* Seen through its leases and processes, the batch is a LeaseProtocol.
ImplementsLeaseProtocol == Abstract!Spec

=============================================================================
