-------------------------- MODULE TaskRunnerProofs --------------------------
(***************************************************************************)
(* Proofs about TaskRunner for every set of tasks, machine size, demand,   *)
(* number of workers and set of ports.                                     *)
(***************************************************************************)
EXTENDS TaskRunner, FiniteSetTheorems, TLAPS

-----------------------------------------------------------------------------
(***************************************************************************)
(* What the operations that several actions share do.                      *)
(***************************************************************************)
\* ProcessSession.stop touches its own session only, in which processes and
\* registrations just disappear; after a stop that failed some registration is
\* left, and so is that of every process that may still run.
LEMMA StopSessionEffect ==
  ASSUME TypeOK, NEW t \in Tasks, NEW failed \in SUBSET owned[t],
         StopSession(t, failed)
  PROVE  /\ owned' \in [Tasks -> SUBSET Units]
         /\ alive' \in [Tasks -> SUBSET Units]
         /\ orphans' = orphans
         /\ \A u \in Tasks : u # t => owned'[u] = owned[u] /\ alive'[u] = alive[u]
         /\ owned'[t] \subseteq owned[t]
         /\ alive'[t] \subseteq alive[t]
         /\ failed = {} => owned'[t] = {}
         /\ failed # {} => owned'[t] # {}
         /\ alive[t] \subseteq owned[t] => alive'[t] \subseteq owned'[t]
<1>1. PICK lost \in SUBSET (failed \ {Leader}) :
        alive' = [alive EXCEPT ![t] = @ \ ((owned[t] \ failed) \cup lost)]
  BY DEF StopSession
<1>2. /\ owned' = [owned EXCEPT ![t] =
                     IF failed = {} THEN {} ELSE failed \cup (@ \cap {Leader})]
      /\ orphans' = orphans
  BY DEF StopSession
<1>3. /\ alive' \in [Tasks -> SUBSET Units]
      /\ \A u \in Tasks : u # t => alive'[u] = alive[u]
      /\ alive'[t] = alive[t] \ ((owned[t] \ failed) \cup lost)
  BY <1>1 DEF TypeOK
<1>4. /\ \A u \in Tasks : u # t => owned'[u] = owned[u]
      /\ owned'[t] = IF failed = {} THEN {}
                     ELSE failed \cup (owned[t] \cap {Leader})
  BY <1>2 DEF TypeOK
<1>5. /\ owned'[t] \subseteq owned[t]
      /\ owned' \in [Tasks -> SUBSET Units]
  BY <1>2, <1>4 DEF TypeOK
<1>6. QED
  BY <1>2, <1>3, <1>4, <1>5

\* A port is taken for the task itself, out of the candidates, and was
\* reserved for nobody; or the task raises and nothing was taken.
LEMMA TakePortEffect ==
  ASSUME NEW t, NEW from, NEW to, NEW candidates,
         TakePort(t, from, to, candidates)
  PROVE  \/ /\ Raise(t, from, "error")
            /\ UNCHANGED <<usedPorts, ports>>
         \/ /\ Go(t, from, to)
            /\ UNCHANGED outcome
            /\ \E p \in candidates \ usedPorts :
                 /\ usedPorts' = usedPorts \cup {p}
                 /\ ports' = [ports EXCEPT ![t] = @ \cup {p}]
BY DEF TakePort

\* The same for the two steps of plan_deployment.
LEMMA PlanEffect ==
  ASSUME NEW t \in Tasks, PlanPort(t) \/ PlanMasterPort(t)
  PROVE  /\ pc[t] \in {"planning", "master"}
         /\ UNCHANGED <<control, mon, events, occupied, lease, processes>>
         /\ \/ /\ \E s \in {"cancelled", "timeout", "error"} : Raise(t, pc[t], s)
               /\ UNCHANGED <<usedPorts, ports>>
            \/ /\ \E to \in {"master", "starting"} : Go(t, pc[t], to)
               /\ UNCHANGED outcome
               /\ \E p \in Ports \ usedPorts :
                    /\ usedPorts' = usedPorts \cup {p}
                    /\ ports' = [ports EXCEPT ![t] = @ \cup {p}]
<1>1. CASE PlanPort(t)
  <2> DEFINE to == IF Distributed THEN "master" ELSE "starting"
  <2>1. CASE CheckFails(t, "planning") /\ UNCHANGED <<usedPorts, ports>>
    BY <1>1, <2>1 DEF PlanPort, CheckFails, Raise, Go
  <2>2. CASE TakePort(t, "planning", to, HttpPorts)
    <3>1. \/ /\ Raise(t, "planning", "error")
             /\ UNCHANGED <<usedPorts, ports>>
          \/ /\ Go(t, "planning", to)
             /\ UNCHANGED outcome
             /\ \E p \in HttpPorts \ usedPorts :
                  /\ usedPorts' = usedPorts \cup {p}
                  /\ ports' = [ports EXCEPT ![t] = @ \cup {p}]
      BY <2>2, TakePortEffect
    <3>2. to \in {"master", "starting"}
      OBVIOUS
    <3>3. QED
      BY <1>1, <3>1, <3>2 DEF PlanPort, Raise, Go, Ports
  <2>3. QED
    BY <1>1, <2>1, <2>2 DEF PlanPort
<1>2. CASE PlanMasterPort(t)
  <2>1. CASE CheckFails(t, "master") /\ UNCHANGED <<usedPorts, ports>>
    BY <1>2, <2>1 DEF PlanMasterPort, CheckFails, Raise, Go
  <2>2. CASE TakePort(t, "master", "starting", MasterPorts)
    <3>1. \/ /\ Raise(t, "master", "error")
             /\ UNCHANGED <<usedPorts, ports>>
          \/ /\ Go(t, "master", "starting")
             /\ UNCHANGED outcome
             /\ \E p \in MasterPorts \ usedPorts :
                  /\ usedPorts' = usedPorts \cup {p}
                  /\ ports' = [ports EXCEPT ![t] = @ \cup {p}]
      BY <2>2, TakePortEffect
    <3>2. QED
      BY <1>2, <3>1 DEF PlanMasterPort, Raise, Go, Ports
  <2>3. QED
    BY <1>2, <2>1, <2>2 DEF PlanMasterPort
<1>3. QED
  BY <1>1, <1>2

-----------------------------------------------------------------------------
(***************************************************************************)
(* Type correctness.                                                       *)
(***************************************************************************)
\* The initial state has the types.
LEMMA TypeInit == Init => TypeOK
BY BatchAssumption DEF Init, TypeOK, Places, Statuses, Units, Ports

\* Every step keeps them: reserved units and ports stay within the machine.
LEMMA TypeNext == TypeOK /\ [Next]_vars => TypeOK'
<1> SUFFICES ASSUME TypeOK, [Next]_vars PROVE TypeOK'
  OBVIOUS
<1> USE BatchAssumption DEF TypeOK, Units, Ports, Places, Statuses,
        resources, processes, events, outcome, control, Go, Raise
<1>1. ASSUME NEW t \in Tasks, Begin(t) PROVE TypeOK'
  BY <1>1 DEF Begin
<1>2. ASSUME NEW t \in Tasks, AllocateRaises(t) PROVE TypeOK'
  BY <1>2 DEF AllocateRaises
<1>3. ASSUME NEW t \in Tasks, Allocate(t) PROVE TypeOK'
  BY <1>3 DEF Allocate, IsFirst, FreeUnits
<1>4. ASSUME NEW t \in Tasks, GiveUpAllocating(t) PROVE TypeOK'
  BY <1>4 DEF GiveUpAllocating
<1>5. ASSUME NEW t \in Tasks, StartMonitor(t) PROVE TypeOK'
  BY <1>5 DEF StartMonitor
<1>6. ASSUME NEW t \in Tasks, MonitorCannotStart(t) PROVE TypeOK'
  BY <1>6 DEF MonitorCannotStart
<1>7. ASSUME NEW t \in Tasks, PlanPort(t) \/ PlanMasterPort(t)
      PROVE  TypeOK'
  <2>1. UNCHANGED <<control, mon, events, occupied, lease, processes>>
    BY <1>7, PlanEffect
  <2>2. CASE \E s \in {"cancelled", "timeout", "error"} :
               Raise(t, pc[t], s) /\ UNCHANGED <<usedPorts, ports>>
    <3>1. PICK s \in {"cancelled", "timeout", "error"} :
               Raise(t, pc[t], s) /\ UNCHANGED <<usedPorts, ports>>
      BY <2>2
    <3>2. QED
      BY <2>1, <3>1
  <2>3. CASE /\ \E to \in {"master", "starting"} : Go(t, pc[t], to)
             /\ UNCHANGED outcome
             /\ \E p \in Ports \ usedPorts :
                  /\ usedPorts' = usedPorts \cup {p}
                  /\ ports' = [ports EXCEPT ![t] = @ \cup {p}]
    BY <2>1, <2>3
  <2>4. QED
    BY <1>7, <2>2, <2>3, PlanEffect
<1>9. ASSUME NEW t \in Tasks, LockForStart(t) PROVE TypeOK'
  BY <1>9 DEF LockForStart
<1>10. ASSUME NEW t \in Tasks, Spawn(t) PROVE TypeOK'
  BY <1>10, SMTT(30) DEF Spawn, Proceed, Leader
<1>11. ASSUME NEW t \in Tasks, LockForRank(t) PROVE TypeOK'
  BY <1>11 DEF LockForRank, CheckFails
<1>12. ASSUME NEW t \in Tasks, StartRank(t) PROVE TypeOK'
  <2>1. PICK r \in Remotes(t) \ owned[t] :
          \/ /\ Proceed(t, "remote", (Remotes(t) \ owned[t]) \ {r})
             /\ owned' = [owned EXCEPT ![t] = @ \cup {r}]
             /\ alive' = [alive EXCEPT ![t] = @ \cup {r}]
             /\ UNCHANGED orphans
          \/ /\ \E s \in {"error", "timeout"} : Raise(t, "remote", s)
             /\ \/ UNCHANGED orphans
                \/ orphans' = [orphans EXCEPT ![t] = @ \cup {r}]
             /\ UNCHANGED <<owned, alive>>
    BY <1>12 DEF StartRank
  <2>2. r \in Units
    BY DEF Remotes
  <2>3. /\ owned' \in [Tasks -> SUBSET Units]
        /\ alive' \in [Tasks -> SUBSET Units]
        /\ orphans' \in [Tasks -> SUBSET Units]
    <3>1. \/ owned' = owned
          \/ owned' = [owned EXCEPT ![t] = @ \cup {r}]
      BY <2>1
    <3>2. \/ alive' = alive
          \/ alive' = [alive EXCEPT ![t] = @ \cup {r}]
      BY <2>1
    <3>3. \/ orphans' = orphans
          \/ orphans' = [orphans EXCEPT ![t] = @ \cup {r}]
      BY <2>1
    <3>4. \A f \in [Tasks -> SUBSET Units] :
            [f EXCEPT ![t] = @ \cup {r}] \in [Tasks -> SUBSET Units]
      BY <2>2
    <3>5. owned' \in [Tasks -> SUBSET Units]
      BY <3>1, <3>4
    <3>6. alive' \in [Tasks -> SUBSET Units]
      BY <3>2, <3>4
    <3>7. orphans' \in [Tasks -> SUBSET Units]
      BY <3>3, <3>4
    <3>8. QED
      BY <3>5, <3>6, <3>7
  <2>4. /\ pc' \in [Tasks -> Places]
        /\ status' \in [Tasks -> Statuses]
        /\ phase' \in [Tasks -> {"allocating", "starting", "testing",
                                 "cleanup", "complete"}]
        /\ UNCHANGED cleanupErr
    <3>1. CASE Proceed(t, "remote", (Remotes(t) \ owned[t]) \ {r})
      BY <3>1 DEF Proceed
    <3>2. CASE \E s \in {"error", "timeout"} : Raise(t, "remote", s)
      BY <3>2
    <3>3. QED
      BY <2>1, <3>1, <3>2
  <2>5. QED
    BY <1>12, <2>3, <2>4 DEF StartRank
<1>13. ASSUME NEW t \in Tasks, WaitReady(t) PROVE TypeOK'
  BY <1>13, SMTT(30) DEF WaitReady, CheckFails
<1>14. ASSUME NEW t \in Tasks, RunSuites(t) PROVE TypeOK'
  BY <1>14 DEF RunSuites, CheckFails
<1>15. ASSUME NEW t \in Tasks, WaitSweep(t) PROVE TypeOK'
  BY <1>15, SMTT(30) DEF WaitSweep
<1>16. ASSUME NEW t \in Tasks, WaitSweepFails(t) PROVE TypeOK'
  BY <1>16 DEF WaitSweepFails
<1>17. ASSUME NEW t \in Tasks, Complete(t) PROVE TypeOK'
  <2>1. CASE CheckFails(t, "returned")
    BY <1>17, <2>1, SMTT(30) DEF Complete, CheckFails
  <2>2. CASE /\ Go(t, "returned", "finally")
             /\ \E s \in Succeeded : status' = [status EXCEPT ![t] = s]
             /\ phase' = [phase EXCEPT ![t] = "complete"]
             /\ UNCHANGED cleanupErr
    BY <1>17, <2>2 DEF Complete, Succeeded
  <2>3. QED
    BY <1>17, <2>1, <2>2 DEF Complete, Succeeded
<1>18. ASSUME NEW t \in Tasks, SetMonitorDone(t) PROVE TypeOK'
  BY <1>18 DEF SetMonitorDone
<1>19. ASSUME NEW t \in Tasks, JoinMonitor(t) PROVE TypeOK'
  BY <1>19 DEF JoinMonitor
<1>20. ASSUME NEW t \in Tasks, StopProcesses(t) PROVE TypeOK'
  <2>1. PICK failed \in SUBSET owned[t] : StopSession(t, failed)
    BY <1>20 DEF StopProcesses
  <2>2. /\ owned' \in [Tasks -> SUBSET Units]
        /\ alive' \in [Tasks -> SUBSET Units]
        /\ orphans' = orphans
    BY <2>1, StopSessionEffect
  <2>3. /\ pc' \in [Tasks -> Places]
        /\ status' \in [Tasks -> Statuses]
        /\ cleanupErr' \in [Tasks -> BOOLEAN]
        /\ phase' \in [Tasks -> {"allocating", "starting", "testing",
                                 "cleanup", "complete"}]
    BY <1>20, ZenonT(40) DEF StopProcesses
  <2>4. QED
    BY <1>20, <2>2, <2>3 DEF StopProcesses
<1>21. ASSUME NEW t \in Tasks, ReleaseLease(t) PROVE TypeOK'
  BY <1>21 DEF ReleaseLease
<1>22. ASSUME NEW t \in Tasks, ReleasePorts(t) PROVE TypeOK'
  BY <1>22 DEF ReleasePorts
<1>23. ASSUME NEW t \in Tasks, MonitorWakes(t) PROVE TypeOK'
  BY <1>23 DEF MonitorWakes
<1>24. ASSUME NEW t \in Tasks, MonitorRound(t) PROVE TypeOK'
  BY <1>24 DEF MonitorRound
<1>25. ASSUME NEW t \in Tasks, MonitorStops(t) PROVE TypeOK'
  <2>1. PICK failed \in SUBSET owned[t] : StopSession(t, failed)
    BY <1>25 DEF MonitorStops
  <2>2. QED
    BY <1>25, <2>1, StopSessionEffect DEF MonitorStops
<1>26. ASSUME NEW t \in Tasks, Yield(t) PROVE TypeOK'
  BY <1>26 DEF Yield
<1>27. ASSUME NEW t \in Tasks, CancelTask(t) PROVE TypeOK'
  BY <1>27 DEF CancelTask
<1>28. ASSUME NEW t \in Tasks, Expire(t) PROVE TypeOK'
  BY <1>28 DEF Expire
<1>29. ASSUME NEW t \in Tasks, Exit(t) PROVE TypeOK'
  BY <1>29 DEF Exit
<1>30. CASE Interrupt
  BY <1>30 DEF Interrupt
<1>31. CASE ShutDown
  BY <1>31 DEF ShutDown
<1>32. CASE Closed
  BY <1>32 DEF Closed
<1>33. CASE UNCHANGED vars
  BY <1>33 DEF vars
<1>34. QED
  BY <1>1, <1>2, <1>3, <1>4, <1>5, <1>6, <1>7, <1>9, <1>10, <1>11,
     <1>12, <1>13, <1>14, <1>15, <1>16, <1>17, <1>18, <1>19, <1>20, <1>21,
     <1>22, <1>23, <1>24, <1>25, <1>26, <1>27, <1>28, <1>29, <1>30, <1>31,
     <1>32, <1>33
  DEF Next, Schedule, Environment, Over, Run, Execute, CleanUp, Watch

\* Every variable has its type in every reachable state.
THEOREM TypeCorrect == Spec => []TypeOK
BY TypeInit, TypeNext, PTL DEF Spec

-----------------------------------------------------------------------------
(***************************************************************************)
(* The steps, sorted by what they touch.                                   *)
(***************************************************************************)
\* The thread of the task moves on, or raises; no resource or process changes.
ControlStep(t) ==
  \/ AllocateRaises(t) \/ GiveUpAllocating(t) \/ StartMonitor(t)
  \/ MonitorCannotStart(t) \/ LockForStart(t) \/ LockForRank(t)
  \/ WaitReady(t) \/ RunSuites(t) \/ WaitSweep(t) \/ WaitSweepFails(t)
  \/ Complete(t) \/ SetMonitorDone(t) \/ JoinMonitor(t)

\* No task thread moves.
IdleStep ==
  \/ Interrupt \/ ShutDown \/ Closed \/ UNCHANGED vars
  \/ \E t \in Tasks :
       MonitorWakes(t) \/ MonitorRound(t) \/ Yield(t) \/ Expire(t)

\* A process of the task starts or ends, or a resource is taken or returned.
ResourceStep(t) ==
  \/ Allocate(t) \/ PlanPort(t) \/ PlanMasterPort(t) \/ Spawn(t)
  \/ StartRank(t) \/ StopProcesses(t) \/ MonitorStops(t)
  \/ ReleaseLease(t) \/ ReleasePorts(t) \/ Exit(t)

\* These, a worker that begins and a task that is cancelled are all there is.
LEMMA StepKinds ==
  ASSUME [Next]_vars
  PROVE  \/ IdleStep
         \/ \E t \in Tasks :
              ControlStep(t) \/ ResourceStep(t) \/ Begin(t) \/ CancelTask(t)
BY DEF Next, Schedule, Environment, Over, Run, Execute, CleanUp, Watch,
       ControlStep, IdleStep, ResourceStep

\* Where a control step can lead.
LEMMA ControlEffect ==
  ASSUME NEW t \in Tasks, ControlStep(t)
  PROVE  /\ UNCHANGED <<control, events, cleanupErr, resources, processes>>
         /\ \/ UNCHANGED phase
            \/ /\ pc[t] \in Executing
               /\ \E ph \in {"testing", "complete"} :
                    phase' = [phase EXCEPT ![t] = ph]
         /\ \E to \in {"finally", "joining", "stopping", "crashed"}
                        \cup Executing :
              /\ pc' = [pc EXCEPT ![t] = to]
              /\ to \in Executing => pc[t] \in Leased
              /\ to \in Executing \ {"planning"} =>
                   pc[t] \in Executing \ {"planning"}
<1> USE DEF Go, Raise, Executing, Leased, outcome
<1>1. CASE AllocateRaises(t) \/ GiveUpAllocating(t)
  BY <1>1 DEF AllocateRaises, GiveUpAllocating
<1>2. CASE StartMonitor(t) \/ MonitorCannotStart(t)
  BY <1>2 DEF StartMonitor, MonitorCannotStart
<1>3. CASE LockForStart(t) \/ LockForRank(t)
  BY <1>3 DEF LockForStart, LockForRank, CheckFails
<1>4. CASE WaitReady(t)
  BY <1>4 DEF WaitReady, CheckFails
<1>5. CASE RunSuites(t)
  BY <1>5 DEF RunSuites, CheckFails
<1>6. CASE WaitSweep(t) \/ WaitSweepFails(t)
  BY <1>6 DEF WaitSweep, WaitSweepFails
<1>7. CASE Complete(t)
  BY <1>7 DEF Complete, CheckFails
<1>8. CASE SetMonitorDone(t) \/ JoinMonitor(t)
  BY <1>8 DEF SetMonitorDone, JoinMonitor
<1>9. QED
  BY <1>1, <1>2, <1>3, <1>4, <1>5, <1>6, <1>7, <1>8 DEF ControlStep

\* What an idle step leaves alone.
LEMMA IdleEffect ==
  ASSUME IdleStep
  PROVE  UNCHANGED <<pc, outcome, resources, processes>>
BY DEF IdleStep, Interrupt, ShutDown, Closed, vars, MonitorWakes,
       MonitorRound, Yield, Expire, outcome, resources, processes

-----------------------------------------------------------------------------
(***************************************************************************)
(* Leases.                                                                 *)
(***************************************************************************)
\* A lease is taken from unreserved units and is not empty.
LEMMA AllocateEffect ==
  ASSUME TypeOK, NEW t \in Tasks, Allocate(t)
  PROVE  \E T \in (SUBSET Units) \ {{}} :
           /\ T \cap occupied = {}
           /\ lease' = [lease EXCEPT ![t] = T]
           /\ occupied' = occupied \cup T
<1>1. PICK idle \in SUBSET Units :
        \E T \in SUBSET FreeUnits(idle) :
          /\ Cardinality(T) = Need[t]
          /\ lease' = [lease EXCEPT ![t] = T]
          /\ occupied' = occupied \cup T
  BY DEF Allocate, IsFirst
<1>2. PICK T \in SUBSET FreeUnits(idle) :
          /\ Cardinality(T) = Need[t]
          /\ lease' = [lease EXCEPT ![t] = T]
          /\ occupied' = occupied \cup T
  BY <1>1
<1>3. T # {}
  BY <1>2, BatchAssumption, FS_EmptySet
<1>4. T \in SUBSET Units /\ T \cap occupied = {}
  BY DEF FreeUnits
<1>5. QED
  BY <1>2, <1>3, <1>4

\* Reservations are exactly the leases, which are disjoint; where a task's
\* thread is tells whether it holds one.
LEMMA LeaseNext ==
  ASSUME TypeOK, LeaseInv, [Next]_vars
  PROVE  LeaseInv'
<1> USE DEF LeaseInv, LeaseExclusive, TypeOK, resources, outcome
<1>1. CASE IdleStep
  BY <1>1, IdleEffect
<1>2. ASSUME NEW t \in Tasks, ControlStep(t) PROVE LeaseInv'
  BY <1>2, ControlEffect DEF Leased, Unleased, Executing
<1>3. ASSUME NEW t \in Tasks, Begin(t) PROVE LeaseInv'
  BY <1>3 DEF Begin, Go, Leased, Unleased, Executing
<1>4. ASSUME NEW t \in Tasks, CancelTask(t) PROVE LeaseInv'
  BY <1>4 DEF CancelTask, Leased, Unleased, Executing
<1>5. ASSUME NEW t \in Tasks, Allocate(t) PROVE LeaseInv'
  <2>1. PICK T \in (SUBSET Units) \ {{}} :
           /\ T \cap occupied = {}
           /\ lease' = [lease EXCEPT ![t] = T]
           /\ occupied' = occupied \cup T
    BY <1>5, AllocateEffect
  <2>2. lease[t] = {} /\ pc' = [pc EXCEPT ![t] = "leased"]
    BY <1>5 DEF Allocate, Go, Unleased
  <2>3. LeaseExclusive'
    BY <2>1, <2>2
  <2>4. QED
    BY <2>1, <2>2, <2>3 DEF Leased, Unleased, Executing
<1>6. ASSUME NEW t \in Tasks, PlanPort(t) \/ PlanMasterPort(t)
      PROVE  LeaseInv'
  BY <1>6, PlanEffect DEF Go, Raise, Leased, Unleased, Executing
<1>7. ASSUME NEW t \in Tasks, Spawn(t) PROVE LeaseInv'
  BY <1>7 DEF Spawn, Proceed, Go, Raise, Leased, Unleased, Executing
<1>8. ASSUME NEW t \in Tasks, StartRank(t) PROVE LeaseInv'
  BY <1>8 DEF StartRank, Proceed, Go, Raise, Leased, Unleased, Executing
<1>9. ASSUME NEW t \in Tasks, StopProcesses(t) PROVE LeaseInv'
  BY <1>9 DEF StopProcesses, Go, Leased, Unleased, Executing
<1>10. ASSUME NEW t \in Tasks, MonitorStops(t) PROVE LeaseInv'
  BY <1>10 DEF MonitorStops
<1>11. ASSUME NEW t \in Tasks, ReleaseLease(t) PROVE LeaseInv'
  BY <1>11 DEF ReleaseLease, Go, Leased, Unleased, Executing
<1>12. ASSUME NEW t \in Tasks, ReleasePorts(t) PROVE LeaseInv'
  BY <1>12 DEF ReleasePorts, Go, Leased, Unleased, Executing
<1>13. ASSUME NEW t \in Tasks, Exit(t) PROVE LeaseInv'
  BY <1>13 DEF Exit
<1>14. QED
  BY <1>1, <1>2, <1>3, <1>4, <1>5, <1>6, <1>7, <1>8, <1>9, <1>10, <1>11,
     <1>12, <1>13, StepKinds DEF ResourceStep

\* The session of a task runs processes only under its lease.
LEMMA SessionNext ==
  ASSUME TypeOK, LeaseInv, SessionInv, [Next]_vars
  PROVE  SessionInv'
<1> USE DEF SessionInv, TypeOK, resources, outcome, processes
<1>1. CASE IdleStep
  BY <1>1, IdleEffect
<1>2. ASSUME NEW t \in Tasks, ControlStep(t) PROVE SessionInv'
  BY <1>2, ControlEffect DEF Executing
<1>3. ASSUME NEW t \in Tasks, Begin(t) PROVE SessionInv'
  BY <1>3 DEF Begin, Go
<1>4. ASSUME NEW t \in Tasks, CancelTask(t) PROVE SessionInv'
  BY <1>4 DEF CancelTask
<1>5. ASSUME NEW t \in Tasks, Allocate(t) PROVE SessionInv'
  <2>1. \E T \in (SUBSET Units) \ {{}} : lease' = [lease EXCEPT ![t] = T]
    BY <1>5, AllocateEffect
  <2>2. QED
    BY <1>5, <2>1 DEF Allocate, Go
<1>6. ASSUME NEW t \in Tasks, PlanPort(t) \/ PlanMasterPort(t)
      PROVE  SessionInv'
  BY <1>6, PlanEffect DEF Go, Raise
<1>7. ASSUME NEW t \in Tasks, Spawn(t) PROVE SessionInv'
  <2>1. lease[t] # {}
    BY <1>7 DEF Spawn, Proceed, Raise, Go, LeaseInv, Leased, Executing
  <2>2. QED
    BY <1>7, <2>1 DEF Spawn, Proceed, Go, Raise
<1>8. ASSUME NEW t \in Tasks, StartRank(t) PROVE SessionInv'
  <2>1. lease[t] # {}
    BY <1>8 DEF StartRank, Proceed, Raise, Go, LeaseInv, Leased, Executing
  <2>2. QED
    BY <1>8, <2>1 DEF StartRank, Proceed, Go, Raise
<1>9. ASSUME NEW t \in Tasks, StopProcesses(t) PROVE SessionInv'
  <2>1. PICK failed \in SUBSET owned[t] :
          /\ StopSession(t, failed)
          /\ pc' = [pc EXCEPT ![t] = IF failed = {} THEN "releasing"
                                                    ELSE "done"]
    BY <1>9 DEF StopProcesses, Go
  <2>2. QED
    BY <1>9, <2>1, StopSessionEffect DEF StopProcesses
<1>10. ASSUME NEW t \in Tasks, MonitorStops(t) PROVE SessionInv'
  <2>1. PICK failed \in SUBSET owned[t] : StopSession(t, failed)
    BY <1>10 DEF MonitorStops
  <2>2. QED
    BY <1>10, <2>1, StopSessionEffect DEF MonitorStops
<1>11. ASSUME NEW t \in Tasks, ReleaseLease(t) PROVE SessionInv'
  BY <1>11 DEF ReleaseLease, Go
<1>12. ASSUME NEW t \in Tasks, ReleasePorts(t) PROVE SessionInv'
  BY <1>12 DEF ReleasePorts, Go
<1>13. ASSUME NEW t \in Tasks, Exit(t) PROVE SessionInv'
  BY <1>13 DEF Exit
<1>14. QED
  BY <1>1, <1>2, <1>3, <1>4, <1>5, <1>6, <1>7, <1>8, <1>9, <1>10, <1>11,
     <1>12, <1>13, StepKinds DEF ResourceStep

-----------------------------------------------------------------------------
(***************************************************************************)
(* Ports.                                                                  *)
(***************************************************************************)
\* Port reservations are disjoint, and a registered process has one.
LEMMA PortNext ==
  ASSUME TypeOK, SessionInv, PortInv, [Next]_vars
  PROVE  PortInv'
<1> USE DEF PortInv, TypeOK, resources, outcome, processes
<1>1. CASE IdleStep
  BY <1>1, IdleEffect
<1>2. ASSUME NEW t \in Tasks, ControlStep(t) PROVE PortInv'
  BY <1>2, ControlEffect DEF Executing
<1>3. ASSUME NEW t \in Tasks, Begin(t) PROVE PortInv'
  BY <1>3 DEF Begin, Go, Executing
<1>4. ASSUME NEW t \in Tasks, CancelTask(t) PROVE PortInv'
  BY <1>4 DEF CancelTask, Executing
<1>5. ASSUME NEW t \in Tasks, Allocate(t) PROVE PortInv'
  BY <1>5 DEF Allocate, Go, Executing
<1>6. ASSUME NEW t \in Tasks, PlanPort(t) \/ PlanMasterPort(t)
      PROVE  PortInv'
  <2>1. UNCHANGED owned
    BY <1>6, PlanEffect
  <2>2. CASE \E s \in {"cancelled", "timeout", "error"} :
               Raise(t, pc[t], s) /\ UNCHANGED <<usedPorts, ports>>
    BY <2>1, <2>2 DEF Raise, Go, Executing
  <2>3. CASE /\ \E to \in {"master", "starting"} : Go(t, pc[t], to)
             /\ \E p \in Ports \ usedPorts :
                  /\ usedPorts' = usedPorts \cup {p}
                  /\ ports' = [ports EXCEPT ![t] = @ \cup {p}]
    BY <2>1, <2>3 DEF Go, Executing
  <2>4. QED
    BY <1>6, <2>2, <2>3, PlanEffect
<1>7. ASSUME NEW t \in Tasks, Spawn(t) PROVE PortInv'
  BY <1>7 DEF Spawn, Proceed, Go, Raise, Executing
<1>8. ASSUME NEW t \in Tasks, StartRank(t) PROVE PortInv'
  BY <1>8 DEF StartRank, Proceed, Go, Raise, Executing
<1>9. ASSUME NEW t \in Tasks, StopProcesses(t) PROVE PortInv'
  <2>1. PICK failed \in SUBSET owned[t] :
          /\ StopSession(t, failed)
          /\ pc' = [pc EXCEPT ![t] = IF failed = {} THEN "releasing"
                                                    ELSE "done"]
    BY <1>9 DEF StopProcesses, Go
  <2>2. QED
    BY <1>9, <2>1, StopSessionEffect DEF StopProcesses, Executing
<1>10. ASSUME NEW t \in Tasks, MonitorStops(t) PROVE PortInv'
  <2>1. PICK failed \in SUBSET owned[t] : StopSession(t, failed)
    BY <1>10 DEF MonitorStops
  <2>2. QED
    BY <1>10, <2>1, StopSessionEffect, SMTT(30) DEF MonitorStops
<1>11. ASSUME NEW t \in Tasks, ReleaseLease(t) PROVE PortInv'
  BY <1>11 DEF ReleaseLease, Go, Executing
<1>12. ASSUME NEW t \in Tasks, ReleasePorts(t) PROVE PortInv'
  <2>1. owned[t] = {}
    BY <1>12 DEF ReleasePorts, Go, SessionInv
  <2>2. QED
    BY <1>12, <2>1 DEF ReleasePorts, Go, Executing
<1>13. ASSUME NEW t \in Tasks, Exit(t) PROVE PortInv'
  BY <1>13 DEF Exit
<1>14. QED
  BY <1>1, <1>2, <1>3, <1>4, <1>5, <1>6, <1>7, <1>8, <1>9, <1>10, <1>11,
     <1>12, <1>13, StepKinds DEF ResourceStep

-----------------------------------------------------------------------------
(***************************************************************************)
(* The monitor.                                                            *)
(***************************************************************************)
\* A monitor that stopped a session did so after cancellation was set, which
\* the threads that start processes check under the session lock.
LEMMA MonitorNext ==
  ASSUME TypeOK, MonitorInv, [Next]_vars
  PROVE  MonitorInv'
<1> USE DEF MonitorInv, TypeOK, MonitorDone, SessionLocked, events, outcome,
        Go, Raise, Executing
<1>1. CASE Interrupt \/ ShutDown \/ Closed \/ UNCHANGED vars
  BY <1>1 DEF Interrupt, ShutDown, Closed, vars
<1>2. ASSUME NEW t \in Tasks, Begin(t) PROVE MonitorInv'
  BY <1>2 DEF Begin
<1>3. ASSUME NEW t \in Tasks, AllocateRaises(t) \/ GiveUpAllocating(t)
      PROVE  MonitorInv'
  BY <1>3 DEF AllocateRaises, GiveUpAllocating
<1>4. ASSUME NEW t \in Tasks, Allocate(t) PROVE MonitorInv'
  BY <1>4 DEF Allocate
<1>5. ASSUME NEW t \in Tasks, StartMonitor(t) PROVE MonitorInv'
  BY <1>5 DEF StartMonitor
<1>6. ASSUME NEW t \in Tasks, MonitorCannotStart(t) PROVE MonitorInv'
  BY <1>6 DEF MonitorCannotStart
<1>7. ASSUME NEW t \in Tasks, PlanPort(t) \/ PlanMasterPort(t)
      PROVE  MonitorInv'
  BY <1>7, PlanEffect
<1>8. ASSUME NEW t \in Tasks, LockForStart(t) PROVE MonitorInv'
  BY <1>8 DEF LockForStart
<1>9. ASSUME NEW t \in Tasks, Spawn(t) PROVE MonitorInv'
  BY <1>9 DEF Spawn, Proceed
<1>10. ASSUME NEW t \in Tasks, LockForRank(t) PROVE MonitorInv'
  BY <1>10 DEF LockForRank, CheckFails, CheckPasses
<1>11. ASSUME NEW t \in Tasks, StartRank(t) PROVE MonitorInv'
  BY <1>11 DEF StartRank, Proceed
<1>12. ASSUME NEW t \in Tasks, WaitReady(t) \/ RunSuites(t)
       PROVE  MonitorInv'
  BY <1>12 DEF WaitReady, RunSuites, CheckFails
<1>13. ASSUME NEW t \in Tasks, WaitSweep(t) \/ WaitSweepFails(t)
       PROVE  MonitorInv'
  BY <1>13 DEF WaitSweep, WaitSweepFails
<1>14. ASSUME NEW t \in Tasks, Complete(t) PROVE MonitorInv'
  BY <1>14 DEF Complete, CheckFails
<1>15. ASSUME NEW t \in Tasks, SetMonitorDone(t) \/ JoinMonitor(t)
       PROVE  MonitorInv'
  BY <1>15 DEF SetMonitorDone, JoinMonitor
<1>16. ASSUME NEW t \in Tasks, StopProcesses(t) PROVE MonitorInv'
  BY <1>16 DEF StopProcesses
<1>17. ASSUME NEW t \in Tasks, ReleaseLease(t) \/ ReleasePorts(t)
       PROVE  MonitorInv'
  BY <1>17 DEF ReleaseLease, ReleasePorts
<1>18. ASSUME NEW t \in Tasks, MonitorWakes(t) PROVE MonitorInv'
  BY <1>18 DEF MonitorWakes
<1>19. ASSUME NEW t \in Tasks, MonitorRound(t) PROVE MonitorInv'
  BY <1>19 DEF MonitorRound
<1>20. ASSUME NEW t \in Tasks, MonitorStops(t) PROVE MonitorInv'
  BY <1>20 DEF MonitorStops
<1>21. ASSUME NEW t \in Tasks, Yield(t) \/ Expire(t) \/ Exit(t)
       PROVE  MonitorInv'
  BY <1>21 DEF Yield, Expire, Exit
<1>22. ASSUME NEW t \in Tasks, CancelTask(t) PROVE MonitorInv'
  BY <1>22 DEF CancelTask
<1>23. QED
  BY <1>1, <1>2, <1>3, <1>4, <1>5, <1>6, <1>7, <1>8, <1>9, <1>10, <1>11,
     <1>12, <1>13, <1>14, <1>15, <1>16, <1>17, <1>18, <1>19, <1>20, <1>21,
     <1>22
  DEF Next, Schedule, Environment, Over, Run, Execute, CleanUp, Watch

-----------------------------------------------------------------------------
(***************************************************************************)
(* The result.                                                             *)
(***************************************************************************)
\* Status, phase and cleanup error of a result agree with what the run holds.
LEMMA ResultNext ==
  ASSUME TypeOK, LeaseInv, SessionInv, ResultInv, [Next]_vars
  PROVE  ResultInv'
<1> USE DEF ResultInv, TypeOK, resources, outcome, processes, Go, Raise,
        Leased, Unleased, Executing, AfterBody, Succeeded
<1>1. CASE IdleStep
  BY <1>1, IdleEffect
<1>2. ASSUME NEW t \in Tasks, Begin(t) PROVE ResultInv'
  BY <1>2 DEF Begin
<1>3. ASSUME NEW t \in Tasks, AllocateRaises(t) \/ GiveUpAllocating(t)
      PROVE  ResultInv'
  BY <1>3 DEF AllocateRaises, GiveUpAllocating
<1>4. ASSUME NEW t \in Tasks, Allocate(t) PROVE ResultInv'
  <2>1. PICK T \in (SUBSET Units) \ {{}} : lease' = [lease EXCEPT ![t] = T]
    BY <1>4, AllocateEffect
  <2>2. QED
    BY <1>4, <2>1 DEF Allocate
<1>5. ASSUME NEW t \in Tasks, StartMonitor(t) \/ MonitorCannotStart(t)
      PROVE  ResultInv'
  BY <1>5 DEF StartMonitor, MonitorCannotStart
<1>6. ASSUME NEW t \in Tasks, PlanPort(t) \/ PlanMasterPort(t)
      PROVE  ResultInv'
  BY <1>6, PlanEffect
<1>7. ASSUME NEW t \in Tasks, LockForStart(t) \/ LockForRank(t)
      PROVE  ResultInv'
  BY <1>7 DEF LockForStart, LockForRank, CheckFails
<1>8. ASSUME NEW t \in Tasks, Spawn(t) PROVE ResultInv'
  BY <1>8 DEF Spawn, Proceed
<1>9. ASSUME NEW t \in Tasks, StartRank(t) PROVE ResultInv'
  BY <1>9 DEF StartRank, Proceed
<1>10. ASSUME NEW t \in Tasks, WaitReady(t) \/ RunSuites(t)
       PROVE  ResultInv'
  BY <1>10 DEF WaitReady, RunSuites, CheckFails
<1>11. ASSUME NEW t \in Tasks, WaitSweep(t) \/ WaitSweepFails(t)
       PROVE  ResultInv'
  BY <1>11 DEF WaitSweep, WaitSweepFails
<1>12. ASSUME NEW t \in Tasks, Complete(t) PROVE ResultInv'
  BY <1>12 DEF Complete, CheckFails, LeaseInv
<1>13. ASSUME NEW t \in Tasks, SetMonitorDone(t) \/ JoinMonitor(t)
       PROVE  ResultInv'
  BY <1>13 DEF SetMonitorDone, JoinMonitor
<1>14. ASSUME NEW t \in Tasks, StopProcesses(t) PROVE ResultInv'
  <2>1. CASE /\ Go(t, "stopping", "releasing")
             /\ StopSession(t, {})
             /\ UNCHANGED outcome
    BY <1>14, <2>1, StopSessionEffect DEF StopProcesses
  <2>2. CASE \E failed \in (SUBSET owned[t]) \ {{}} :
               /\ Go(t, "stopping", "done")
               /\ StopSession(t, failed)
               /\ cleanupErr' = [cleanupErr EXCEPT ![t] = TRUE]
               /\ status' = [status EXCEPT ![t] =
                               IF @ = "timeout" THEN @ ELSE "error"]
               /\ phase' = [phase EXCEPT ![t] =
                              IF status[t] = "timeout" THEN @ ELSE "cleanup"]
    <3>1. lease[t] # {}
      BY <2>2 DEF SessionInv
    <3>2. /\ orphans' = orphans
          /\ \A u \in Tasks : u # t => owned'[u] = owned[u]
      BY <2>2, StopSessionEffect
    <3>3. QED
      BY <1>14, <2>2, <3>1, <3>2 DEF StopProcesses
  <2>3. QED
    BY <1>14, <2>1, <2>2 DEF StopProcesses
<1>15. ASSUME NEW t \in Tasks, MonitorStops(t) PROVE ResultInv'
  <2>1. PICK failed \in SUBSET owned[t] : StopSession(t, failed)
    BY <1>15 DEF MonitorStops
  <2>2. QED
    BY <1>15, <2>1, StopSessionEffect DEF MonitorStops
<1>16. ASSUME NEW t \in Tasks, ReleaseLease(t) PROVE ResultInv'
  BY <1>16 DEF ReleaseLease
<1>17. ASSUME NEW t \in Tasks, ReleasePorts(t) PROVE ResultInv'
  BY <1>17 DEF ReleasePorts, LeaseInv, SessionInv
<1>18. ASSUME NEW t \in Tasks, Exit(t) PROVE ResultInv'
  BY <1>18 DEF Exit
<1>19. ASSUME NEW t \in Tasks, CancelTask(t) PROVE ResultInv'
  BY <1>19 DEF CancelTask
<1>20. QED
  BY <1>1, <1>2, <1>3, <1>4, <1>5, <1>6, <1>7, <1>8, <1>9, <1>10, <1>11,
     <1>12, <1>13, <1>14, <1>15, <1>16, <1>17, <1>18, <1>19, StepKinds
  DEF ResourceStep, ControlStep

-----------------------------------------------------------------------------
(***************************************************************************)
(* The safety properties.                                                  *)
(***************************************************************************)
\* The initial state satisfies the inductive invariant.
LEMMA SafetyInit == Init => SafetyInv
BY DEF Init, SafetyInv, LeaseInv, LeaseExclusive, SessionInv, PortInv,
       MonitorInv, ResultInv, SessionLocked, Leased, Unleased, Executing,
       Succeeded

\* Every reachable state satisfies the inductive invariant.
THEOREM SafetyCorrect == Spec => []SafetyInv
<1>1. TypeOK /\ SafetyInv /\ [Next]_vars => SafetyInv'
  BY LeaseNext, SessionNext, PortNext, MonitorNext, ResultNext DEF SafetyInv
<1>2. QED
  BY <1>1, SafetyInit, TypeCorrect, PTL DEF Spec

\* No device or node is leased twice, and no reservation leaks.
THEOREM LeasesExclusive == Spec => []LeaseExclusive
<1>1. SafetyInv => LeaseExclusive
  BY DEF SafetyInv, LeaseInv
<1>2. QED
  BY <1>1, SafetyCorrect, PTL

\* No two running models share a port.
THEOREM PortsExclusive == Spec => []PortExclusive
<1>1. SafetyInv => PortExclusive
  BY DEF SafetyInv, PortInv, SessionInv, PortExclusive
<1>2. QED
  BY <1>1, SafetyCorrect, PTL

\* A lease outlives the processes that were started under it.
THEOREM ReleasedAfterStop == Spec => []StoppedBeforeRelease
<1>1. SafetyInv => StoppedBeforeRelease
  BY DEF SafetyInv, SessionInv, StoppedBeforeRelease
<1>2. QED
  BY <1>1, SafetyCorrect, PTL

\* A cleanup error is reported exactly of the runs that retained resources.
THEOREM CleanupReported == Spec => []CleanupErrorMeansRetained
<1>1. SafetyInv => CleanupErrorMeansRetained
  BY DEF SafetyInv, ResultInv, CleanupErrorMeansRetained
<1>2. QED
  BY <1>1, SafetyCorrect, PTL

\* A run with a verdict left nothing behind.
THEOREM VerdictsClean == Spec => []VerdictIsClean
<1>1. SafetyInv => VerdictIsClean
  BY DEF SafetyInv, ResultInv, SessionInv, VerdictIsClean
<1>2. QED
  BY <1>1, SafetyCorrect, PTL

-----------------------------------------------------------------------------
(***************************************************************************)
(* What a step may never do.                                               *)
(***************************************************************************)
\* Once the monitor has stopped the session, no step starts a process: the
\* two steps that do hold the session lock since before the stop.
THEOREM NothingStartsAfterStop == Spec => NoStartAfterStop
<1>1. ASSUME TypeOK, SafetyInv, [Next]_vars
      PROVE  \A t \in Tasks : mon[t] = "exited" =>
               alive'[t] \subseteq alive[t] /\ orphans'[t] \subseteq orphans[t]
  <2> USE <1>1 DEF TypeOK, processes, resources
  <2>1. CASE IdleStep
    BY <2>1, IdleEffect
  <2>2. ASSUME NEW u \in Tasks,
               ControlStep(u) \/ PlanPort(u) \/ PlanMasterPort(u)
        PROVE  UNCHANGED <<alive, orphans>>
    BY <2>2, ControlEffect, PlanEffect
  <2>3. ASSUME NEW u \in Tasks,
               \/ Begin(u) \/ CancelTask(u) \/ Allocate(u)
               \/ ReleaseLease(u) \/ ReleasePorts(u)
        PROVE  UNCHANGED <<alive, orphans>>
    BY <2>3 DEF Begin, CancelTask, Allocate, ReleaseLease, ReleasePorts
  <2>4. ASSUME NEW u \in Tasks, NEW t \in Tasks, mon[t] = "exited",
               Spawn(u) \/ StartRank(u)
        PROVE  alive'[t] = alive[t] /\ orphans'[t] = orphans[t]
    <3>1. SessionLocked(u)
      BY <2>4 DEF Spawn, StartRank, Proceed, Raise, Go, SessionLocked
    <3>2. u # t
      BY <2>4, <3>1 DEF SafetyInv, MonitorInv
    <3>3. QED
      BY <2>4, <3>2 DEF Spawn, StartRank
  <2>5. ASSUME NEW u \in Tasks, NEW t \in Tasks,
               StopProcesses(u) \/ MonitorStops(u)
        PROVE  alive'[t] \subseteq alive[t] /\ orphans'[t] = orphans[t]
    <3>1. PICK failed \in SUBSET owned[u] : StopSession(u, failed)
      BY <2>5 DEF StopProcesses, MonitorStops
    <3>2. QED
      BY <3>1, StopSessionEffect
  <2>6. ASSUME NEW u \in Tasks, NEW t \in Tasks, Exit(u)
        PROVE  alive'[t] \subseteq alive[t] /\ orphans'[t] \subseteq orphans[t]
    BY <2>6 DEF Exit
  <2>7. QED
    BY <2>1, <2>2, <2>3, <2>4, <2>5, <2>6, StepKinds DEF ResourceStep
<1>2. QED
  BY <1>1, TypeCorrect, SafetyCorrect, PTL DEF Spec, NoStartAfterStop

\* A verdict is recorded while the monitor still watches an uncancelled run.
THEOREM VerdictsUninterrupted == Spec => VerdictUninterrupted
<1>1. ASSUME TypeOK, SafetyInv, [Next]_vars
      PROVE  \A t \in Tasks :
               status'[t] \in Succeeded /\ status[t] \notin Succeeded
                 => mon[t] \in {"sleeping", "awake"} /\ ~cancel[t]
  <2> USE <1>1 DEF TypeOK, outcome, Succeeded, Go, Raise
  <2>1. CASE IdleStep
    BY <2>1, IdleEffect
  <2>2. ASSUME NEW u \in Tasks,
               \/ Begin(u) \/ CancelTask(u) \/ Allocate(u) \/ Exit(u)
               \/ ReleaseLease(u) \/ ReleasePorts(u) \/ MonitorStops(u)
               \/ SetMonitorDone(u) \/ MonitorCannotStart(u)
        PROVE  UNCHANGED status
    BY <2>2 DEF Begin, CancelTask, Allocate, Exit, ReleaseLease, ReleasePorts,
                MonitorStops, SetMonitorDone, MonitorCannotStart
  <2>3. ASSUME NEW u \in Tasks, NEW t \in Tasks,
               \/ AllocateRaises(u) \/ GiveUpAllocating(u) \/ StartMonitor(u)
               \/ LockForStart(u) \/ LockForRank(u)
        PROVE  status'[t] = status[t] \/ status'[t] \notin Succeeded
    BY <2>3 DEF AllocateRaises, GiveUpAllocating, StartMonitor, LockForStart,
                LockForRank, CheckFails
  <2>4. ASSUME NEW u \in Tasks, NEW t \in Tasks,
               \/ WaitReady(u) \/ RunSuites(u) \/ WaitSweep(u)
               \/ WaitSweepFails(u)
        PROVE  status'[t] = status[t] \/ status'[t] \notin Succeeded
    BY <2>4 DEF WaitReady, RunSuites, WaitSweep, WaitSweepFails, CheckFails
  <2>5. ASSUME NEW u \in Tasks, NEW t \in Tasks,
               PlanPort(u) \/ PlanMasterPort(u)
        PROVE  status'[t] = status[t] \/ status'[t] \notin Succeeded
    BY <2>5, PlanEffect
  <2>6. ASSUME NEW u \in Tasks, NEW t \in Tasks,
               \/ Spawn(u) \/ StartRank(u) \/ JoinMonitor(u)
               \/ StopProcesses(u)
        PROVE  status'[t] = status[t] \/ status'[t] \notin Succeeded
    BY <2>6 DEF Spawn, StartRank, Proceed, JoinMonitor, StopProcesses
  <2>7. ASSUME NEW u \in Tasks, NEW t \in Tasks, Complete(u),
               status'[t] \in Succeeded, status[t] \notin Succeeded
        PROVE  mon[t] \in {"sleeping", "awake"} /\ ~cancel[t]
    <3>1. t = u /\ pc[t] = "returned" /\ CheckPasses(t)
      BY <2>7 DEF Complete, CheckFails
    <3>2. QED
      BY <3>1 DEF SafetyInv, MonitorInv, MonitorDone, CheckPasses, Executing
  <2>8. QED
    BY <2>1, <2>2, <2>3, <2>4, <2>5, <2>6, <2>7, StepKinds
    DEF ResourceStep, ControlStep
<1>2. QED
  BY <1>1, TypeCorrect, SafetyCorrect, PTL DEF Spec, VerdictUninterrupted

-----------------------------------------------------------------------------
(***************************************************************************)
(* What the result says of the monitor, and what the closed batch leaves.  *)
(***************************************************************************)
\* The monitor has been joined.
Joined == {"stopping", "releasing", "freeing", "done"}

\* The event is set by the monitor, which then says why, or by the scheduler,
\* which is closing then; no status says otherwise, and what the monitor says is
\* in the status once it was joined, after which it says nothing more.
ReportInv ==
  \A t \in Tasks :
    /\ pc[t] \in Joined => mon[t] \in {"off", "exited"}
    /\ cancel[t] => sched # "running" \/ timedOut[t] \/ monErr[t]
    /\ status[t] = "cancelled" => sched # "running" \/ timedOut[t] \/ monErr[t]
    /\ pc[t] \in Joined /\ timedOut[t] => status[t] = "timeout"
    /\ pc[t] \in Joined /\ monErr[t] => status[t] # "cancelled"

\* Before a process can be started, and where a run ends for want of a monitor,
\* nothing is registered; a closed batch has only threads that have ended.
ClosedInv ==
  /\ \A t \in Tasks : pc[t] \in {"leased", "crashed"} => owned[t] = {}
  /\ sched = "closed" => \A t \in Tasks : pc[t] \in Final

\* Every step keeps what the result says in line with the monitor's flags.
LEMMA ReportNext ==
  ASSUME TypeOK, ReportInv, [Next]_vars
  PROVE  ReportInv'
<1> USE DEF ReportInv, TypeOK, Joined, control, events, outcome, Go, Raise
<1>1. CASE Interrupt \/ ShutDown \/ Closed \/ UNCHANGED vars
  BY <1>1 DEF Interrupt, ShutDown, Closed, vars
<1>2. ASSUME NEW t \in Tasks, Begin(t) PROVE ReportInv'
  BY <1>2 DEF Begin
<1>3. ASSUME NEW t \in Tasks, AllocateRaises(t) \/ GiveUpAllocating(t)
      PROVE  ReportInv'
  BY <1>3 DEF AllocateRaises, GiveUpAllocating
<1>4. ASSUME NEW t \in Tasks, Allocate(t) PROVE ReportInv'
  BY <1>4 DEF Allocate
<1>5. ASSUME NEW t \in Tasks, StartMonitor(t) PROVE ReportInv'
  BY <1>5 DEF StartMonitor
<1>6. ASSUME NEW t \in Tasks, MonitorCannotStart(t) PROVE ReportInv'
  BY <1>6 DEF MonitorCannotStart
<1>7. ASSUME NEW t \in Tasks, PlanPort(t) PROVE ReportInv'
  BY <1>7, TakePortEffect DEF PlanPort, CheckFails
<1>8. ASSUME NEW t \in Tasks, PlanMasterPort(t) PROVE ReportInv'
  BY <1>8, TakePortEffect DEF PlanMasterPort, CheckFails
<1>9. ASSUME NEW t \in Tasks, LockForStart(t) PROVE ReportInv'
  BY <1>9 DEF LockForStart
<1>10. ASSUME NEW t \in Tasks, Spawn(t) PROVE ReportInv'
  BY <1>10 DEF Spawn, Proceed
<1>11. ASSUME NEW t \in Tasks, LockForRank(t) PROVE ReportInv'
  BY <1>11 DEF LockForRank, CheckFails
<1>12. ASSUME NEW t \in Tasks, StartRank(t) PROVE ReportInv'
  BY <1>12 DEF StartRank, Proceed
<1>13. ASSUME NEW t \in Tasks, WaitReady(t) \/ RunSuites(t)
       PROVE  ReportInv'
  BY <1>13 DEF WaitReady, RunSuites, CheckFails
<1>14. ASSUME NEW t \in Tasks, WaitSweep(t) \/ WaitSweepFails(t)
       PROVE  ReportInv'
  BY <1>14 DEF WaitSweep, WaitSweepFails
<1>15. ASSUME NEW t \in Tasks, Complete(t) PROVE ReportInv'
  BY <1>15 DEF Complete, CheckFails, Succeeded
<1>16. ASSUME NEW t \in Tasks, SetMonitorDone(t) \/ JoinMonitor(t)
       PROVE  ReportInv'
  BY <1>16 DEF SetMonitorDone, JoinMonitor
<1>17. ASSUME NEW t \in Tasks, StopProcesses(t) PROVE ReportInv'
  BY <1>17 DEF StopProcesses
<1>18. ASSUME NEW t \in Tasks, ReleaseLease(t) \/ ReleasePorts(t)
       PROVE  ReportInv'
  BY <1>18 DEF ReleaseLease, ReleasePorts
<1>19. ASSUME NEW t \in Tasks, MonitorWakes(t) \/ MonitorStops(t)
       PROVE  ReportInv'
  BY <1>19 DEF MonitorWakes, MonitorStops
<1>20. ASSUME NEW t \in Tasks, MonitorRound(t) PROVE ReportInv'
  BY <1>20 DEF MonitorRound
<1>21. ASSUME NEW t \in Tasks, Yield(t) \/ Expire(t) \/ Exit(t)
       PROVE  ReportInv'
  BY <1>21 DEF Yield, Expire, Exit
<1>22. ASSUME NEW t \in Tasks, CancelTask(t) PROVE ReportInv'
  BY <1>22 DEF CancelTask
<1>23. QED
  BY <1>1, <1>2, <1>3, <1>4, <1>5, <1>6, <1>7, <1>8, <1>9, <1>10, <1>11,
     <1>12, <1>13, <1>14, <1>15, <1>16, <1>17, <1>18, <1>19, <1>20, <1>21,
     <1>22
  DEF Next, Schedule, Environment, Over, Run, Execute, CleanUp, Watch

\* Every step keeps a task that has nothing registered yet that way, and no
\* thread comes back to life.
LEMMA ClosedNext ==
  ASSUME TypeOK, LeaseInv, SessionInv, ClosedInv, [Next]_vars
  PROVE  ClosedInv'
<1> USE DEF ClosedInv, TypeOK, Final, resources, processes, control, outcome
<1>1. CASE Interrupt \/ ShutDown \/ Closed \/ UNCHANGED vars
  BY <1>1 DEF Interrupt, ShutDown, Closed, vars
<1>2. ASSUME NEW t \in Tasks,
             MonitorWakes(t) \/ MonitorRound(t) \/ Yield(t) \/ Expire(t)
      PROVE  ClosedInv'
  BY <1>2 DEF MonitorWakes, MonitorRound, Yield, Expire
<1>3. ASSUME NEW t \in Tasks, ControlStep(t) PROVE ClosedInv'
  <2>1. pc[t] \notin Final
    BY <1>3 DEF ControlStep, AllocateRaises, GiveUpAllocating, StartMonitor,
         MonitorCannotStart, LockForStart, LockForRank, WaitReady, RunSuites,
         WaitSweep, WaitSweepFails, Complete, SetMonitorDone, JoinMonitor,
         CheckFails, Raise, Go
  <2>2. \A to : pc' = [pc EXCEPT ![t] = to] /\ to = "crashed" => pc[t] = "leased"
    BY <1>3 DEF ControlStep, AllocateRaises, GiveUpAllocating, StartMonitor,
         MonitorCannotStart, LockForStart, LockForRank, WaitReady, RunSuites,
         WaitSweep, WaitSweepFails, Complete, SetMonitorDone, JoinMonitor,
         CheckFails, Raise, Go
  <2>3. PICK to \in {"finally", "joining", "stopping", "crashed"} \cup Executing :
          pc' = [pc EXCEPT ![t] = to]
    BY <1>3, ControlEffect
  <2>4. UNCHANGED <<sched, owned>>
    BY <1>3, ControlEffect
  <2>5. QED
    BY <2>1, <2>2, <2>3, <2>4 DEF Executing
<1>4. ASSUME NEW t \in Tasks, Begin(t) PROVE ClosedInv'
  BY <1>4 DEF Begin, Go
<1>5. ASSUME NEW t \in Tasks, CancelTask(t) PROVE ClosedInv'
  BY <1>5 DEF CancelTask
<1>6. ASSUME NEW t \in Tasks, Allocate(t) PROVE ClosedInv'
  <2>1. owned[t] = {}
    BY <1>6 DEF Allocate, Go, LeaseInv, Unleased, SessionInv
  <2>2. QED
    BY <1>6, <2>1 DEF Allocate, Go
<1>7. ASSUME NEW t \in Tasks, PlanPort(t) \/ PlanMasterPort(t)
      PROVE  ClosedInv'
  BY <1>7, PlanEffect DEF Raise, Go
<1>8. ASSUME NEW t \in Tasks, Spawn(t) PROVE ClosedInv'
  BY <1>8 DEF Spawn, Proceed, Raise, Go
<1>9. ASSUME NEW t \in Tasks, StartRank(t) PROVE ClosedInv'
  BY <1>9 DEF StartRank, Proceed, Raise, Go
<1>10. ASSUME NEW t \in Tasks, StopProcesses(t) \/ MonitorStops(t)
       PROVE  ClosedInv'
  <2>1. PICK failed \in SUBSET owned[t] : StopSession(t, failed)
    BY <1>10 DEF StopProcesses, MonitorStops
  <2>2. \A u \in Tasks : owned[u] = {} => owned'[u] = {}
    BY <2>1, StopSessionEffect
  <2>3. UNCHANGED sched
    BY <1>10 DEF StopProcesses, MonitorStops
  <2>4. \A u \in Tasks : \/ pc'[u] = pc[u]
                         \/ /\ pc[u] \notin Final
                            /\ pc'[u] \notin {"leased", "crashed"}
    BY <1>10 DEF StopProcesses, MonitorStops, Go
  <2>5. QED
    BY <2>2, <2>3, <2>4
<1>11. ASSUME NEW t \in Tasks, ReleaseLease(t) \/ ReleasePorts(t)
       PROVE  ClosedInv'
  BY <1>11 DEF ReleaseLease, ReleasePorts, Go
<1>12. ASSUME NEW t \in Tasks, Exit(t) PROVE ClosedInv'
  BY <1>12 DEF Exit
<1>13. QED
  BY <1>1, <1>2, <1>3, <1>4, <1>5, <1>6, <1>7, <1>8, <1>9, <1>10, <1>11,
     <1>12, StepKinds DEF IdleStep, ResourceStep

\* Every reachable state satisfies both.
LEMMA ReportCorrect == Spec => [](ReportInv /\ ClosedInv)
<1>1. Init => ReportInv /\ ClosedInv
  BY DEF Init, ReportInv, ClosedInv, Joined
<1>2. TypeOK /\ SafetyInv /\ ReportInv /\ ClosedInv /\ [Next]_vars
        => (ReportInv /\ ClosedInv)'
  BY ReportNext, ClosedNext DEF SafetyInv
<1>3. QED
  BY <1>1, <1>2, TypeCorrect, SafetyCorrect, PTL DEF Spec

\* A deadline the monitor saw is reported as a timeout.
THEOREM TimeoutsReported == Spec => []TimeoutReported
<1>1. ReportInv => TimeoutReported
  BY DEF ReportInv, Joined, TimeoutReported
<1>2. QED
  BY <1>1, ReportCorrect, PTL

\* A run reports to have been cancelled only in a batch that is being closed.
THEOREM CancellationsReported == Spec => []CancelledByScheduler
<1>1. ReportInv => CancelledByScheduler
  BY DEF ReportInv, Joined, CancelledByScheduler
<1>2. QED
  BY <1>1, ReportCorrect, PTL

\* A closed batch left only processes of runs that report a cleanup error.
THEOREM ClosedStopped == Spec => []ClosedMeansStopped
<1>1. TypeOK /\ SafetyInv /\ ClosedInv => ClosedMeansStopped
  BY DEF SafetyInv, LeaseInv, SessionInv, ResultInv, ClosedInv,
         ClosedMeansStopped, Final, Unleased, TypeOK
<1>2. QED
  BY <1>1, TypeCorrect, SafetyCorrect, ReportCorrect, PTL

-----------------------------------------------------------------------------
(***************************************************************************)
(* The batch implements the lease protocol.                                *)
(***************************************************************************)
\* The tasks with a running process, and those that have had their lease.
Active == {t \in Tasks : alive[t] # {}}
Spent == {t \in Tasks : phase[t] # "allocating"}

\* A step that changes no lease, no task's having had one, and the processes
\* of task t only, is a Launch, a Quiesce or a stutter of the protocol.
LEMMA ProcessStep ==
  ASSUME NEW t \in Tasks, lease' = lease, Spent' = Spent,
         \A u \in Tasks : u # t => alive'[u] = alive[u],
         alive'[t] # {} /\ alive[t] = {} => lease[t] # {}
  PROVE  [Abstract!Next]_(Abstract!vars)
<1>1. CASE alive'[t] = {}
  <2>1. Active' = Active \ {t}
    BY <1>1 DEF Active
  <2>2. QED
    BY <2>1 DEF Active, Spent, Abstract!Next, Abstract!Quiesce
<1>2. CASE alive'[t] # {} /\ alive[t] = {}
  <2>1. Active' = Active \cup {t}
    BY <1>2 DEF Active
  <2>2. QED
    BY <1>2, <2>1 DEF Active, Spent, Abstract!Next, Abstract!Launch
<1>3. CASE alive'[t] # {} /\ alive[t] # {}
  <2>1. Active' = Active
    BY <1>3 DEF Active
  <2>2. QED
    BY <2>1 DEF Active, Spent, Abstract!vars
<1>4. QED
  BY <1>1, <1>2, <1>3

\* Every step of the batch is a step of the protocol or a stutter.
LEMMA ProtocolStep ==
  ASSUME TypeOK, SafetyInv, [Next]_vars
  PROVE  [Abstract!Next]_(Abstract!vars)
<1> USE DEF TypeOK, resources, processes, outcome
<1>1. CASE IdleStep
  BY <1>1, IdleEffect DEF Abstract!vars
<1>2. ASSUME NEW t \in Tasks, ControlStep(t)
      PROVE  [Abstract!Next]_(Abstract!vars)
  <2>1. phase' = phase \/ (lease[t] # {} /\ \E ph \in {"testing", "complete"} :
                             phase' = [phase EXCEPT ![t] = ph])
    BY <1>2, ControlEffect DEF SafetyInv, LeaseInv, Leased
  <2>2. Spent' = Spent
    BY <2>1 DEF Spent, SafetyInv, ResultInv
  <2>3. QED
    BY <1>2, <2>2, ControlEffect, ProcessStep
<1>3. ASSUME NEW t \in Tasks,
             Begin(t) \/ CancelTask(t) \/ PlanPort(t) \/ PlanMasterPort(t)
      PROVE  [Abstract!Next]_(Abstract!vars)
  BY <1>3, PlanEffect DEF Begin, CancelTask, Raise, Abstract!vars
<1>4. ASSUME NEW t \in Tasks, Allocate(t)
      PROVE  [Abstract!Next]_(Abstract!vars)
  <2>1. PICK T \in (SUBSET Units) \ {{}} :
           /\ T \cap occupied = {}
           /\ lease' = [lease EXCEPT ![t] = T]
    BY <1>4, AllocateEffect
  <2>2. \A u \in Tasks : lease[u] \cap T = {}
    BY <2>1 DEF SafetyInv, LeaseInv, LeaseExclusive
  <2>3. t \notin Spent /\ Spent' = Spent \cup {t} /\ Active' = Active
    BY <1>4 DEF Allocate, Go, Spent, Active, SafetyInv, ResultInv, Unleased
  <2>4. QED
    BY <2>1, <2>2, <2>3
    DEF Active, Spent, Abstract!Next, Abstract!Acquire
<1>5. ASSUME NEW t \in Tasks, Spawn(t) \/ StartRank(t)
      PROVE  [Abstract!Next]_(Abstract!vars)
  <2>1. lease[t] # {}
    BY <1>5 DEF Spawn, StartRank, Proceed, Raise, Go, SafetyInv, LeaseInv,
                Leased, Executing
  <2>2. /\ lease' = lease
        /\ \A u \in Tasks : u # t => alive'[u] = alive[u]
        /\ \/ phase' = phase
           \/ phase' = [phase EXCEPT ![t] = "testing"]
    BY <1>5 DEF Spawn, StartRank, Proceed, Raise
  <2>3. Spent' = Spent
    BY <2>1, <2>2 DEF Spent, SafetyInv, ResultInv
  <2>4. QED
    BY <2>1, <2>2, <2>3, ProcessStep
<1>6. ASSUME NEW t \in Tasks, StopProcesses(t) \/ MonitorStops(t)
      PROVE  [Abstract!Next]_(Abstract!vars)
  <2>1. PICK failed \in SUBSET owned[t] : StopSession(t, failed)
    BY <1>6 DEF StopProcesses, MonitorStops
  <2>2. /\ \A u \in Tasks : u # t => alive'[u] = alive[u]
        /\ alive'[t] \subseteq alive[t]
    BY <2>1, StopSessionEffect
  <2>3. /\ lease' = lease
        /\ \/ phase' = phase
           \/ owned[t] # {} /\ phase' = [phase EXCEPT ![t] = "cleanup"]
    BY <1>6 DEF StopProcesses, MonitorStops
  <2>4. Spent' = Spent
    BY <2>3 DEF Spent, SafetyInv, SessionInv, ResultInv
  <2>5. QED
    BY <2>2, <2>3, <2>4, ProcessStep
<1>7. ASSUME NEW t \in Tasks, ReleaseLease(t)
      PROVE  [Abstract!Next]_(Abstract!vars)
  <2>1. t \notin Active
    BY <1>7 DEF ReleaseLease, Go, Active, SafetyInv, SessionInv
  <2>2. QED
    BY <1>7, <2>1
    DEF ReleaseLease, Active, Spent, Abstract!Next, Abstract!Release
<1>8. ASSUME NEW t \in Tasks, ReleasePorts(t)
      PROVE  [Abstract!Next]_(Abstract!vars)
  BY <1>8 DEF ReleasePorts, Abstract!vars
<1>9. ASSUME NEW t \in Tasks, Exit(t)
      PROVE  [Abstract!Next]_(Abstract!vars)
  BY <1>9, ProcessStep DEF Exit, Spent
<1>10. QED
  BY <1>1, <1>2, <1>3, <1>4, <1>5, <1>6, <1>7, <1>8, <1>9, StepKinds
  DEF ResourceStep

\* Whatever the batch does with devices and processes, the protocol allows.
THEOREM LeaseProtocolImplemented == Spec => ImplementsLeaseProtocol
<1>1. Init => Abstract!Init
  BY DEF Init, Abstract!Init
<1>2. QED
  BY <1>1, ProtocolStep, TypeCorrect, SafetyCorrect, PTL
  DEF Spec, ImplementsLeaseProtocol, Abstract!Spec

=============================================================================
