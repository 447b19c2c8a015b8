--------------------------- MODULE MCLamportReduce --------------------------
(* Instances of LamportReduce for TLC. *)
EXTENDS LamportReduce

\* Four rounds bring the slots once round; they grow and shrink.
Varying == {<<1, 3, 1, 2>>, <<3, 1, 1, 2>>}
=============================================================================
