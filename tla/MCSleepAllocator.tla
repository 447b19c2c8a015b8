-------------------------- MODULE MCSleepAllocator --------------------------
(***************************************************************************)
(* Symmetric instances of SleepAllocator.                                  *)
(***************************************************************************)
EXTENDS SleepAllocator, TLC

Symmetry == Permutations(Addrs) \cup Permutations(Values)

=============================================================================
