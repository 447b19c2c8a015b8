---------------------------- MODULE LeaseProtocol ----------------------------
(***************************************************************************)
(* What tools/batched_test promises about devices: a task takes its units  *)
(* once, all of them at a time and none that another task holds; its       *)
(* processes run only while it holds them; it gives them back once, after  *)
(* its processes have stopped.  A task whose processes cannot be stopped   *)
(* keeps its units for ever.                                               *)
(***************************************************************************)
CONSTANTS Tasks, Units

VARIABLES
  holds,     \* [Tasks -> SUBSET Units]
  active,    \* tasks with a running process
  spent      \* tasks that have had their lease

vars == <<holds, active, spent>>

Init ==
  /\ holds = [t \in Tasks |-> {}]
  /\ active = {}
  /\ spent = {}

Acquire(t) ==
  /\ t \notin spent
  /\ \E S \in (SUBSET Units) \ {{}} :
       /\ \A u \in Tasks : holds[u] \cap S = {}
       /\ holds' = [holds EXCEPT ![t] = S]
  /\ spent' = spent \cup {t}
  /\ UNCHANGED active

Launch(t) ==
  /\ holds[t] # {}
  /\ active' = active \cup {t}
  /\ UNCHANGED <<holds, spent>>

Quiesce(t) ==
  /\ active' = active \ {t}
  /\ UNCHANGED <<holds, spent>>

Release(t) ==
  /\ t \notin active
  /\ holds' = [holds EXCEPT ![t] = {}]
  /\ UNCHANGED <<active, spent>>

Next == \E t \in Tasks : Acquire(t) \/ Launch(t) \/ Quiesce(t) \/ Release(t)

Spec == Init /\ [][Next]_vars

=============================================================================
