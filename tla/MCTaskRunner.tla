---------------------------- MODULE MCTaskRunner ----------------------------
(* Instances of TaskRunner for TLC. *)
EXTENDS TaskRunner, TLC

CONSTANTS t1, t2

\* The first task wants the whole machine.
NeedWide == t1 :> 2 @@ t2 :> 1

\* Each task wants one unit.
NeedOne == t1 :> 1 @@ t2 :> 1

\* Rank 0 and two remote ranks; the other task asks for more than there is.
NeedRanks == t1 :> 3 @@ t2 :> 4
=============================================================================
