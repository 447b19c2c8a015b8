------------------------- MODULE ProcessSessionProofs -------------------------
(***************************************************************************)
(* Proofs about ProcessSession for any number of processes and every shape *)
(* of the process tree.                                                    *)
(***************************************************************************)
EXTENDS ProcessSession, TLAPS

-----------------------------------------------------------------------------
(***************************************************************************)
(* The inductive invariant.                                                *)
(***************************************************************************)
\* A thread has the lock while it stops the session, which the task does when
\* the monitor has ended; the list it stops is the registered children.
LockInv ==
  /\ holder = "task" => task = "stopping"
  /\ holder = "monitor" => mon = "stopping"
  /\ task \in {"stopping", "released", "retained"} => mon = "exited"
  /\ holder # NoOne => victims = children
  /\ stage \in {"leader", "collect"} => holder # NoOne

\* What was observed exists, is not the leader, and is a registered child or
\* has ended.
ChildrenInv ==
  /\ seen \subseteq born \ {Leader}
  /\ children \subseteq seen
  /\ (seen \ children) \cap running = {}
  /\ task = "released" => children = {}

\* What runs of the leader's group was sent SIGKILL.
GroupKilled == Members(Leader) \cap running \subseteq killed

\* The group of the leader is killed unless the leader is registered, and once
\* a stop has sent it SIGKILL; it gets no new member then, as only members
\* that are not killed add members.  The stop goes on when the leader has ended.
GroupInv ==
  /\ group[Leader] = Leader
  /\ ~registered => GroupKilled /\ Leader \notin running
  /\ stage = "leader" => GroupKilled
  /\ stage = "collect" /\ ~errors => GroupKilled /\ Leader \notin running
  /\ task = "released" => ~registered

SafetyInv == LockInv /\ ChildrenInv /\ GroupInv

-----------------------------------------------------------------------------
(***************************************************************************)
(* Operations that several actions share.                                  *)
(***************************************************************************)
\* Observing adds running processes other than the leader, and forgets none.
LEMMA ObserveEffect ==
  ASSUME TypeOK, Observe
  PROVE  /\ children \subseteq children'
         /\ children' \subseteq children \cup (running \ {Leader})
         /\ seen' = seen \cup children'
BY DEF Observe, Descendants

\* A child is sent SIGKILL, with others or alone, or not; nobody ends or is
\* spared by that.
LEMMA KillChildEffect ==
  ASSUME TypeOK, NEW th \in Threads, NEW c, KillChild(th, c)
  PROVE  /\ killed \subseteq killed' /\ killed' \subseteq running
         /\ todo' = todo \ {c} /\ errors' \in BOOLEAN
         /\ errors => errors'
         /\ UNCHANGED <<born, running, parent, group, cancel, holder, registered,
                        children, seen, task, mon, victims, stage>>
<1>1. (errors' = errors) \/ errors' = TRUE
  BY DEF KillChild
<1>2. errors' \in BOOLEAN /\ (errors => errors')
  BY <1>1, Zenon DEF TypeOK
<1>3. killed \subseteq killed' /\ killed' \subseteq running
  BY DEF KillChild, Kill, TypeOK
<1>4. QED
  BY <1>2, <1>3 DEF KillChild

\* The leader's group is sent SIGKILL, if it can have members, or an error is
\* noted.
LEMMA KillLeaderEffect ==
  ASSUME TypeOK, NEW th \in Threads, KillLeader(th)
  PROVE  /\ killed \subseteq killed' /\ killed' \subseteq running
         /\ stage' \in {"leader", "collect"} /\ errors' \in BOOLEAN
         /\ holder = th
         /\ stage' = "leader" => Members(Leader) \cap running \subseteq killed'
         /\ stage' = "collect" => errors' \/ ~registered
         /\ UNCHANGED <<born, running, parent, group, cancel, holder, registered,
                        children, seen, task, mon, todo, victims>>
BY DEF KillLeader, Kill, TypeOK

-----------------------------------------------------------------------------
(***************************************************************************)
(* Type correctness.                                                       *)
(***************************************************************************)
\* The initial state satisfies types and invariant.
LEMMA InitInv == Init => TypeOK /\ SafetyInv
BY SessionAssumption
DEF Init, TypeOK, SafetyInv, LockInv, ChildrenInv, GroupInv, GroupKilled, Members, Threads

\* Every step keeps the types: in particular only what was born runs, and only
\* what is listed remains to be killed.
LEMMA TypeNext ==
  ASSUME TypeOK, [Next]_vars
  PROVE  TypeOK'
<1> USE SessionAssumption DEF TypeOK, tree, stopVars, Threads
<1>1. ASSUME NEW p \in Procs, NEW q \in Procs, Fork(p, q) PROVE TypeOK'
  BY <1>1 DEF Fork
<1>2. ASSUME NEW p \in Procs, NewSession(p) PROVE TypeOK'
  BY <1>2 DEF NewSession
<1>3. ASSUME NEW p \in Procs, Exit(p) PROVE TypeOK'
  BY <1>3 DEF Exit
<1>4. CASE Start
  BY <1>4 DEF Start
<1>5. CASE WaitRound
  BY <1>5, ObserveEffect DEF WaitRound
<1>6. CASE WaitEnds \/ WaitRaises \/ Join \/ Cancel \/ MonitorEnds
  BY <1>6, ZenonT(40) DEF WaitEnds, WaitRaises, Join, Cancel, MonitorEnds
<1>7. CASE MonitorObserves
  BY <1>7, ObserveEffect DEF MonitorObserves
<1>8. ASSUME NEW th \in Threads, StopBegins(th) PROVE TypeOK'
  <2>1. children' \subseteq Procs \ {Leader} /\ seen' \subseteq Procs
    BY <1>8, ObserveEffect DEF StopBegins
  <2>2. QED
    BY <1>8, <2>1 DEF StopBegins
<1>9. ASSUME NEW th \in Threads, NEW c \in Procs, KillChild(th, c) PROVE TypeOK'
  <2>1. /\ killed' \subseteq running
        /\ todo' = todo \ {c} /\ errors' \in BOOLEAN
        /\ UNCHANGED <<born, running, parent, group, cancel, holder, registered,
                       children, seen, task, mon, victims, stage>>
    BY <1>9, KillChildEffect
  <2>2. QED
    BY <2>1
<1>10. ASSUME NEW th \in Threads, KillLeader(th) PROVE TypeOK'
  <2>1. /\ killed' \subseteq running
        /\ stage' \in {"leader", "collect"} /\ errors' \in BOOLEAN
        /\ UNCHANGED <<born, running, parent, group, cancel, holder, registered,
                       children, seen, task, mon, todo, victims>>
    BY <1>10, KillLeaderEffect
  <2>2. QED
    BY <2>1
<1>11. ASSUME NEW th \in Threads, WaitLeader(th) \/ StopEnds(th) PROVE TypeOK'
  BY <1>11 DEF WaitLeader, StopEnds
<1>12. CASE UNCHANGED vars
  BY <1>12 DEF vars
<1>13. QED
  BY <1>1, <1>2, <1>3, <1>4, <1>5, <1>6, <1>7, <1>8, <1>9, <1>10, <1>11, <1>12
  DEF Next, TaskThread, MonitorThread, System, Stop, Over

\* Every variable has its type in every reachable state.
THEOREM TypeCorrect == Spec => []TypeOK
BY InitInv, TypeNext, PTL DEF Spec

-----------------------------------------------------------------------------
(***************************************************************************)
(* Safety.                                                                 *)
(***************************************************************************)
\* Every step keeps the invariant.  Processes that fork are the hard part
\* where nobody has the lock, the two threads where somebody has.
LEMMA SafetyNext ==
  ASSUME TypeOK, SafetyInv, [Next]_vars
  PROVE  SafetyInv'
<1> USE SessionAssumption DEF TypeOK, SafetyInv, tree, stopVars, Threads
<1>1. ASSUME NEW p \in Procs, NEW q \in Procs, Fork(p, q) PROVE SafetyInv'
  <2>1. LockInv'
    BY <1>1 DEF Fork, LockInv
  <2>2. ChildrenInv'
    BY <1>1 DEF Fork, ChildrenInv
  <2>3. GroupKilled => GroupKilled'
    BY <1>1 DEF Fork, GroupKilled, Members
  <2>4. GroupInv'
    BY <1>1, <2>3 DEF Fork, GroupInv
  <2>5. QED
    BY <2>1, <2>2, <2>4
<1>2. ASSUME NEW p \in Procs, NewSession(p) PROVE SafetyInv'
  <2>1. LockInv' /\ ChildrenInv'
    BY <1>2 DEF NewSession, LockInv, ChildrenInv
  <2>2. p # Leader
    BY <1>2 DEF NewSession, GroupInv
  <2>3. GroupKilled => GroupKilled'
    BY <1>2, <2>2 DEF NewSession, GroupKilled, Members
  <2>4. GroupInv'
    BY <1>2, <2>2, <2>3 DEF NewSession, GroupInv
  <2>5. QED
    BY <2>1, <2>4
<1>3. ASSUME NEW p \in Procs, Exit(p) PROVE SafetyInv'
  <2>1. LockInv' /\ ChildrenInv'
    BY <1>3 DEF Exit, LockInv, ChildrenInv
  <2>2. GroupKilled => GroupKilled'
    BY <1>3 DEF Exit, GroupKilled, Members
  <2>3. GroupInv'
    BY <1>3, <2>2 DEF Exit, GroupInv
  <2>4. QED
    BY <2>1, <2>3
<1>4. CASE Start
  BY <1>4 DEF Start, LockInv, ChildrenInv, GroupInv, GroupKilled, Members
<1>5. CASE WaitRound \/ MonitorObserves
  <2>1. Observe /\ holder = NoOne /\ task # "released"
    BY <1>5 DEF WaitRound, MonitorObserves, LockInv
  <2>2. ChildrenInv'
    BY <1>5, <2>1, ObserveEffect DEF WaitRound, MonitorObserves, ChildrenInv
  <2>3. QED
    BY <1>5, <2>1, <2>2 DEF WaitRound, MonitorObserves, LockInv, GroupInv, GroupKilled, Members
<1>6. CASE WaitEnds \/ WaitRaises \/ Cancel
  BY <1>6 DEF WaitEnds, WaitRaises, Cancel, LockInv, ChildrenInv, GroupInv, GroupKilled, Members
<1>7. CASE Join \/ MonitorEnds
  BY <1>7 DEF Join, MonitorEnds, LockInv, ChildrenInv, GroupInv, GroupKilled, Members
<1>8. ASSUME NEW th \in Threads, StopBegins(th) PROVE SafetyInv'
  <2>1. Stopping(th) /\ task # "released"
    BY <1>8 DEF StopBegins, Stopping, LockInv
  <2>2. LockInv'
    BY <1>8, <2>1 DEF StopBegins, Stopping, LockInv
  <2>3. ChildrenInv'
    BY <1>8, <2>1, ObserveEffect DEF StopBegins, ChildrenInv
  <2>4. GroupInv'
    BY <1>8 DEF StopBegins, GroupInv, GroupKilled, Members
  <2>5. QED
    BY <2>2, <2>3, <2>4
<1>9. ASSUME NEW th \in Threads, NEW c \in Procs, KillChild(th, c) PROVE SafetyInv'
  <2>1. /\ killed \subseteq killed'
        /\ errors => errors'
        /\ UNCHANGED <<born, running, parent, group, cancel, holder, registered,
                       children, seen, task, mon, victims, stage>>
    BY <1>9, KillChildEffect
  <2>2. LockInv' /\ ChildrenInv'
    BY <2>1 DEF LockInv, ChildrenInv
  <2>3. GroupKilled => GroupKilled'
    BY <2>1 DEF GroupKilled, Members
  <2>4. GroupInv'
    BY <2>1, <2>3 DEF GroupInv
  <2>5. QED
    BY <2>2, <2>4
<1>10. ASSUME NEW th \in Threads, KillLeader(th) PROVE SafetyInv'
  <2>1. /\ killed \subseteq killed'
        /\ stage' \in {"leader", "collect"} /\ holder = th
        /\ stage' = "leader" => Members(Leader) \cap running \subseteq killed'
        /\ stage' = "collect" => errors' \/ ~registered
        /\ UNCHANGED <<born, running, parent, group, cancel, holder, registered,
                       children, seen, task, mon, todo, victims>>
    BY <1>10, KillLeaderEffect
  <2>2. LockInv' /\ ChildrenInv'
    BY <2>1 DEF LockInv, ChildrenInv
  <2>3. GroupKilled => GroupKilled'
    BY <2>1 DEF GroupKilled, Members
  <2>4. stage' = "leader" => GroupKilled'
    BY <2>1 DEF GroupKilled, Members
  <2>5. ~registered => GroupKilled /\ Leader \notin running
    BY DEF GroupInv
  <2>6. GroupInv'
    BY <2>1, <2>3, <2>4, <2>5 DEF GroupInv
  <2>7. QED
    BY <2>2, <2>6
<1>11. ASSUME NEW th \in Threads, WaitLeader(th) PROVE SafetyInv'
  BY <1>11 DEF WaitLeader, LockInv, ChildrenInv, GroupInv, GroupKilled, Members
<1>12. ASSUME NEW th \in Threads, StopEnds(th) PROVE SafetyInv'
  <2>1. holder = th /\ stage = "collect" /\ task # "released"
    BY <1>12 DEF StopEnds, LockInv
  <2>2. LockInv'
    BY <1>12, <2>1 DEF StopEnds, LockInv
  <2>3. ChildrenInv'
    BY <1>12, <2>1 DEF StopEnds, ChildrenInv, LockInv
  <2>4. GroupInv'
    BY <1>12, <2>1 DEF StopEnds, GroupInv, GroupKilled, Members
  <2>5. QED
    BY <2>2, <2>3, <2>4
<1>13. CASE UNCHANGED vars
  BY <1>13 DEF vars, LockInv, ChildrenInv, GroupInv, GroupKilled, Members
<1>14. QED
  BY <1>1, <1>2, <1>3, <1>4, <1>5, <1>6, <1>7, <1>8, <1>9, <1>10, <1>11, <1>12, <1>13
  DEF Next, TaskThread, MonitorThread, System, Stop, Over

\* The lock, the children and the leader's group agree in every reachable state.
THEOREM SafetyCorrect == Spec => []SafetyInv
BY InitInv, SafetyNext, TypeCorrect, PTL DEF Spec

\* Nothing that was observed outlives the release.
THEOREM ObservedEnd == Spec => []ObservedStopped
<1>1. SafetyInv => ObservedStopped
  BY DEF SafetyInv, ChildrenInv, ObservedStopped
<1>2. QED
  BY <1>1, SafetyCorrect, PTL

\* The leader has ended at the release, and what is left of its group was sent
\* SIGKILL.
THEOREM LeaderGroupEnds == Spec => []LeaderGroupStopped
<1>1. SafetyInv => LeaderGroupStopped
  BY DEF SafetyInv, GroupInv, GroupKilled, LeaderGroupStopped
<1>2. QED
  BY <1>1, SafetyCorrect, PTL

\* No step forgets an observed descendant that runs on.
THEOREM ChildrenKept == Spec => NeverForgotten
<1>1. ASSUME TypeOK, SafetyInv, [Next]_vars
      PROVE  children \cap running' \subseteq children'
  <2> USE <1>1 DEF TypeOK, SafetyInv, tree, stopVars, Threads
  <2>1. ASSUME NEW th \in Threads, StopEnds(th)
        PROVE  children \cap running' \subseteq children'
    <3>1. victims = children /\ running' = running
      BY <2>1 DEF StopEnds, LockInv, SessionAssumption
    <3>2. QED
      BY <2>1, <3>1 DEF StopEnds
  <2>2. ASSUME NEW th \in Threads, NEW c \in Procs,
               StopBegins(th) \/ KillChild(th, c) \/ KillLeader(th)
                 \/ WaitLeader(th)
        PROVE  children \subseteq children'
    BY <2>2, ObserveEffect DEF StopBegins, KillChild, KillLeader, WaitLeader
  <2>3. CASE TaskThread \/ MonitorThread
    BY <2>1, <2>2, <2>3, ObserveEffect, SessionAssumption
    DEF TaskThread, MonitorThread, Stop, Start, WaitRound, WaitEnds, WaitRaises,
        Join, MonitorObserves, MonitorEnds
  <2>4. CASE System \/ Cancel \/ UNCHANGED vars
    BY <2>4 DEF System, Fork, NewSession, Exit, Cancel, vars
  <2>5. QED
    BY <2>3, <2>4 DEF Next, Over
<1>2. QED
  BY <1>1, TypeCorrect, SafetyCorrect, PTL DEF Spec, NeverForgotten

===============================================================================
