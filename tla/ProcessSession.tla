--------------------------- MODULE ProcessSession ---------------------------
(***************************************************************************)
(* ProcessSession of runtime.py against the operating system's process     *)
(* tree: one benchmark task, whose sweep forks a server in a session of    *)
(* its own, whose workers fork in turn; the task thread that waits for the *)
(* sweep; and the monitor thread that observes descendants and stops the   *)
(* session.  TaskRunner.tla takes stop() in one step and knows no          *)
(* descendants; here stop() is taken apart, and processes fork, leave      *)
(* their group and exit between any two of its system calls.               *)
(***************************************************************************)

CONSTANTS
  Procs,     \* the processes that can come to exist
  Leader,    \* the Popen leader, the first of them
  Adopter,   \* the process that adopts orphans (init)
  NoOne

Threads == {"task", "monitor"}

ASSUME SessionAssumption ==
  /\ Leader \in Procs
  /\ Adopter \notin Procs
  /\ NoOne \notin Threads

VARIABLES
  born,        \* processes that exist or have existed
  running,     \* processes that run
  killed,      \* those of them that were sent SIGKILL and have yet to end
  parent,      \* [Procs -> Procs \cup {Adopter}]
  group,       \* [Procs -> Procs]: the process group
  cancel,      \* the cancellation event
  holder,      \* who holds ProcessSession._lock
  registered,  \* the leader is in _local
  children,    \* _children
  seen,        \* history: every descendant ever put in _children
  task,        \* where the task thread is
  mon,         \* where the monitor thread is
  todo,        \* stop(): children still to be killed
  victims,     \* stop(): children to wait for
  errors,      \* stop(): something failed
  stage        \* stop(): idle, children, leader, collect

tree == <<born, running, killed, parent, group>>
stopVars == <<todo, victims, errors, stage>>
vars == <<born, running, killed, parent, group, cancel, holder, registered, children,
          seen, task, mon, todo, victims, errors, stage>>

Init ==
  /\ born = {}
  /\ running = {} /\ killed = {}
  /\ parent = [p \in Procs |-> Adopter]
  /\ group = [p \in Procs |-> p]
  /\ cancel = FALSE
  /\ holder = NoOne
  /\ registered = FALSE
  /\ children = {}
  /\ seen = {}
  /\ task = "starting"
  /\ mon = "watching"
  /\ todo = {}
  /\ victims = {}
  /\ errors = FALSE
  /\ stage = "idle"

-----------------------------------------------------------------------------
(***************************************************************************)
(* The operating system.                                                   *)
(***************************************************************************)
\* SIGKILL is sent to the members of S that run; when they end is up to them.
Kill(S) == killed' = killed \cup (S \cap running)

\* The processes of the group that g leads.
Members(g) == {p \in Procs : group[p] = g}

\* S is a family: with a process it holds the running children of that process.
Family(S) == \A p \in running : parent[p] \in S => p \in S

\* psutil's children(recursive=True) of the leader, which are in every family it
\* is in: nothing once it has ended, as its children have then been adopted.
Descendants ==
  {p \in running \ {Leader} : \A S \in SUBSET Procs : Leader \in S /\ Family(S) => p \in S}

\* A process forks; the child is in its parent's group.  The system refuses it
\* to a process with a signal to take first.
Fork(p, q) ==
  /\ p \in running \ killed
  /\ q \in Procs \ (born \cup {Leader})
  /\ born' = born \cup {q}
  /\ running' = running \cup {q}
  /\ parent' = [parent EXCEPT ![q] = p]
  /\ group' = [group EXCEPT ![q] = group[p]]
  /\ UNCHANGED <<killed, cancel, holder, registered, children, seen, task, mon,
                 stopVars>>

\* setsid() of a process that leads no group yet.
NewSession(p) ==
  /\ p \in running
  /\ group[p] # p
  /\ group' = [group EXCEPT ![p] = p]
  /\ UNCHANGED <<born, running, killed, parent, cancel, holder, registered,
                 children, seen, task, mon, stopVars>>

\* A process ends, by itself or because it was killed; its children are adopted.
Exit(p) ==
  /\ p \in running
  /\ running' = running \ {p}
  /\ killed' = killed \ {p}
  /\ parent' = [q \in Procs |-> IF parent[q] = p THEN Adopter ELSE parent[q]]
  /\ UNCHANGED <<born, group, cancel, holder, registered, children, seen,
                 task, mon, stopVars>>

-----------------------------------------------------------------------------
(***************************************************************************)
(* The task thread: start, wait for the sweep, then the finally block.     *)
(***************************************************************************)
\* ProcessSession.start, under the lock.
Start ==
  /\ task = "starting"
  /\ holder = NoOne
  /\ IF cancel
     THEN task' = "finally" /\ UNCHANGED <<tree, registered>>
     ELSE /\ task' = "waiting"
          /\ registered' = TRUE
          /\ born' = born \cup {Leader}
          /\ running' = running \cup {Leader}
          /\ UNCHANGED <<killed, parent, group>>
  /\ UNCHANGED <<cancel, holder, children, seen, mon, stopVars>>

\* Fault: only the descendants of the moment are kept.
Observe_Forgets ==
  /\ children' = IF registered THEN Descendants ELSE children
  /\ seen' = seen \cup children'

\* Fault: the leader is observed along with its descendants.
Observe_Leader ==
  /\ children' = children \cup
                   (IF registered THEN Descendants \cup {Leader} ELSE {})
  /\ seen' = seen \cup children'

\* observe(): the descendants of a registered leader are added to _children.
Observe ==
  /\ children' = children \cup (IF registered THEN Descendants ELSE {})
  /\ seen' = seen \cup children'

\* One round of ProcessSession.wait that goes on waiting.
WaitRound ==
  /\ task = "waiting"
  /\ ~cancel
  /\ holder = NoOne
  /\ Observe
  /\ UNCHANGED <<tree, cancel, holder, registered, task, mon, stopVars>>

\* The wait was cancelled, or the sweep has ended.
WaitEnds ==
  /\ task = "waiting"
  /\ cancel \/ Leader \notin running
  /\ task' = "finally"
  /\ UNCHANGED <<tree, cancel, holder, registered, children, seen, mon,
                 stopVars>>

\* observe() raised in a round of the wait, or a rank could not be launched.
WaitRaises ==
  /\ task = "waiting"
  /\ task' = "finally"
  /\ UNCHANGED <<tree, cancel, holder, registered, children, seen, mon,
                 stopVars>>

\* monitor_done.set(), then join.
Join ==
  /\ \/ task = "finally" /\ task' = "joining"
     \/ task = "joining" /\ mon = "exited" /\ task' = "stopping"
  /\ UNCHANGED <<tree, cancel, holder, registered, children, seen, mon,
                 stopVars>>

-----------------------------------------------------------------------------
(***************************************************************************)
(* The monitor thread.                                                     *)
(***************************************************************************)
\* The batch is cancelled, or the deadline has passed.
Cancel ==
  /\ ~cancel
  /\ cancel' = TRUE
  /\ UNCHANGED <<tree, holder, registered, children, seen, task, mon,
                 stopVars>>

\* A round without cancellation.
MonitorObserves ==
  /\ mon = "watching"
  /\ ~cancel
  /\ holder = NoOne
  /\ Observe
  /\ UNCHANGED <<tree, cancel, holder, registered, task, mon, stopVars>>

\* A round that ends the thread, at once or with a stop.
MonitorEnds ==
  /\ mon = "watching"
  /\ \/ cancel /\ mon' = "stopping"
     \/ task \in {"joining", "stopping"} /\ mon' = "exited"
  /\ UNCHANGED <<tree, cancel, holder, registered, children, seen, task,
                 stopVars>>

-----------------------------------------------------------------------------
(***************************************************************************)
(* stop(), by either thread.                                               *)
(***************************************************************************)
\* The thread wants to stop the session.
Stopping(th) == IF th = "task" THEN task = "stopping" ELSE mon = "stopping"

\* The lock is taken, the descendants are observed once more, which can fail,
\* and listed.
StopBegins(th) ==
  /\ Stopping(th)
  /\ holder = NoOne
  /\ holder' = th
  /\ \/ Observe /\ errors' = FALSE
     \/ UNCHANGED <<children, seen>> /\ errors' = TRUE
  /\ todo' = children'
  /\ victims' = children'
  /\ stage' = "children"
  /\ UNCHANGED <<tree, cancel, registered, task, mon>>

\* A listed child is killed, with its group if it leads one, else alone; a
\* child that has ended still counts while its parent has not reaped it.  Or it
\* is gone, or the kill fails.
KillChild(th, c) ==
  /\ holder = th
  /\ c \in todo
  /\ todo' = todo \ {c}
  /\ \/ /\ c \in running \/ parent[c] \in running
        /\ Kill(IF group[c] = c THEN Members(c) ELSE {c})
        /\ UNCHANGED errors
     \/ c \notin running /\ UNCHANGED <<killed, errors>>
     \/ errors' = TRUE /\ UNCHANGED killed
  /\ UNCHANGED <<born, running, parent, group, cancel, holder, registered,
                 children, seen, task, mon, victims, stage>>

\* Fault: the leader's group is spared when the leader has ended.
KillLeader_IfRunning(th) ==
  /\ holder = th
  /\ stage = "children" /\ todo = {}
  /\ IF registered /\ Leader \in running
     THEN Kill(Members(Leader)) /\ stage' = "leader"
     ELSE UNCHANGED killed /\ stage' = "collect"
  /\ UNCHANGED <<born, running, parent, group, cancel, holder, registered,
                 children, seen, task, mon, todo, victims, errors>>

\* SIGKILL is sent to the leader's group, whether or not the leader still runs,
\* which can fail.
KillLeader(th) ==
  /\ holder = th
  /\ stage = "children" /\ todo = {}
  /\ \/ registered /\ Kill(Members(Leader)) /\ stage' = "leader"
        /\ UNCHANGED errors
     \/ registered /\ errors' = TRUE /\ stage' = "collect" /\ UNCHANGED killed
     \/ ~registered /\ stage' = "collect" /\ UNCHANGED <<killed, errors>>
  /\ UNCHANGED <<born, running, parent, group, cancel, holder, registered,
                 children, seen, task, mon, todo, victims>>

\* The leader, and nobody else of its group, is waited for: it ends in time or
\* not.
WaitLeader(th) ==
  /\ holder = th
  /\ stage = "leader"
  /\ stage' = "collect"
  /\ errors' = (errors \/ Leader \in running)
  /\ UNCHANGED <<tree, cancel, holder, registered, children, seen, task, mon,
                 todo, victims>>

\* Fault: the children are dropped after a failed stop as well.
StopEnds_Drops(th) ==
  LET failed == errors \/ victims \cap running # {}
  IN /\ holder = th
     /\ stage = "collect"
     /\ holder' = NoOne
     /\ stage' = "idle"
     /\ registered' = FALSE
     /\ children' = {}
     /\ IF th = "monitor"
        THEN mon' = "exited" /\ UNCHANGED task
        ELSE /\ task' = IF failed THEN "retained" ELSE "released"
             /\ UNCHANGED mon
     /\ UNCHANGED <<tree, cancel, seen, todo, victims, errors>>

\* Fault: the monitor stops the session again until it succeeds.
StopEnds_Retries(th) ==
  LET failed == errors \/ victims \cap running # {}
  IN /\ holder = th
     /\ stage = "collect"
     /\ holder' = NoOne
     /\ stage' = "idle"
     /\ IF failed THEN UNCHANGED <<registered, children>>
                  ELSE registered' = FALSE /\ children' = {}
     /\ IF th = "monitor"
        THEN mon' = (IF failed THEN mon ELSE "exited") /\ UNCHANGED task
        ELSE /\ task' = IF failed THEN "retained" ELSE "released"
             /\ UNCHANGED mon
     /\ UNCHANGED <<tree, cancel, seen, todo, victims, errors>>

\* wait_procs: a listed child that still runs is an error.  Without errors the
\* registrations are cleared; else they are kept for the next stop.  The
\* monitor drops the error, the task thread retains the resources.
StopEnds(th) ==
  LET failed == errors \/ victims \cap running # {}
  IN /\ holder = th
     /\ stage = "collect"
     /\ holder' = NoOne
     /\ stage' = "idle"
     /\ IF failed THEN UNCHANGED <<registered, children>>
                  ELSE registered' = FALSE /\ children' = {}
     /\ IF th = "monitor"
        THEN mon' = "exited" /\ UNCHANGED task
        ELSE /\ task' = IF failed THEN "retained" ELSE "released"
             /\ UNCHANGED mon
     /\ UNCHANGED <<tree, cancel, seen, todo, victims, errors>>

-----------------------------------------------------------------------------
Stop(th) ==
  \/ StopBegins(th) \/ KillLeader(th) \/ WaitLeader(th) \/ StopEnds(th)
  \/ \E c \in Procs : KillChild(th, c)

TaskThread ==
  Start \/ WaitRound \/ WaitEnds \/ WaitRaises \/ Join \/ Stop("task")
MonitorThread == MonitorObserves \/ MonitorEnds \/ Stop("monitor")

System == \/ \E p, q \in Procs : Fork(p, q)
          \/ \E p \in Procs : NewSession(p) \/ Exit(p)

\* The run is over and so is every process.
Over == task \in {"released", "retained"} /\ UNCHANGED vars

Next == TaskThread \/ MonitorThread \/ System \/ Cancel \/ Over

Spec == Init /\ [][Next]_vars

(***************************************************************************)
(* The threads are scheduled, every wait in stop() has a timeout, and the  *)
(* deadline of the run comes.  A sweep need not end by itself.             *)
(***************************************************************************)
FairSpec ==
  /\ Spec
  /\ WF_vars(Start) /\ WF_vars(WaitEnds) /\ WF_vars(Join)
  /\ WF_vars(MonitorEnds) /\ WF_vars(Cancel)
  /\ \A th \in Threads : WF_vars(Stop(th))

-----------------------------------------------------------------------------
TypeOK ==
  /\ born \subseteq Procs
  /\ running \subseteq born /\ killed \subseteq running
  /\ parent \in [Procs -> Procs \cup {Adopter}]
  /\ group \in [Procs -> Procs]
  /\ cancel \in BOOLEAN
  /\ holder \in Threads \cup {NoOne}
  /\ registered \in BOOLEAN
  /\ children \subseteq Procs \ {Leader}
  /\ seen \subseteq Procs
  /\ task \in {"starting", "waiting", "finally", "joining", "stopping",
              "released", "retained"}
  /\ mon \in {"watching", "stopping", "exited"}
  /\ todo \subseteq victims
  /\ victims \subseteq Procs
  /\ errors \in BOOLEAN
  /\ stage \in {"idle", "children", "leader", "collect"}

\* A descendant that was observed once does not outlive the release, even if
\* its parents end first, it changes its session, or the first stop() fails.
ObservedStopped == task = "released" => seen \cap running = {}

\* A process of the leader's own group that outlives the release, observed or
\* not, was sent SIGKILL, and can bring no other process into being.  stop()
\* waits for the leader and the observed descendants only, so that the others
\* may still be ending then.
LeaderGroupStopped ==
  task = "released" => Members(Leader) \cap running \subseteq killed \ {Leader}


\* An observed descendant is forgotten only once it has ended.
NeverForgotten == [][children \cap running' \subseteq children']_vars

\* The finally block is left, with the resources released or retained.
RunEnds == <>(task \in {"released", "retained"})

=============================================================================
