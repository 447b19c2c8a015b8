----------------------------- MODULE Rendezvous -----------------------------
(***************************************************************************)
(* What a collective operation of the ranks of a model promises: the ranks *)
(* go through the same rounds, each at its own pace; none leaves a round   *)
(* before all have entered it, and every rank gets through all of them.    *)
(***************************************************************************)
EXTENDS Naturals

CONSTANT Ranks

VARIABLES
  last,      \* the number of rounds
  entered,   \* rounds a rank has entered
  left       \* rounds it has left

vars == <<last, entered, left>>

Init ==
  /\ last \in Nat
  /\ entered = [r \in Ranks |-> 0]
  /\ left = [r \in Ranks |-> 0]

Enter(r) ==
  /\ entered[r] = left[r] /\ entered[r] < last
  /\ entered' = [entered EXCEPT ![r] = @ + 1]
  /\ UNCHANGED <<last, left>>

Leave(r) ==
  /\ left[r] < entered[r]
  /\ \A q \in Ranks : entered[q] >= entered[r]
  /\ left' = [left EXCEPT ![r] = @ + 1]
  /\ UNCHANGED <<last, entered>>

Next == \E r \in Ranks : Enter(r) \/ Leave(r)

Safety == Init /\ [][Next]_vars
Spec == Safety /\ \A r \in Ranks : WF_vars(Enter(r) \/ Leave(r))
=============================================================================
