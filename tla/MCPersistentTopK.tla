-------------------------- MODULE MCPersistentTopK --------------------------
(* Instances of PersistentTopK for TLC: keys of four binary digits. *)
EXTENDS PersistentTopK, SequencesExt

Short == <<9>>

\* Rows that need every digit, with ties at the pivot, and of every length
\* above the threshold.
LargeSamples == {<<3, 12, 5, 10>>, <<6, 7, 6, 6>>, <<15, 0, 14>>}

Mixtures == UNION {[1 .. n -> {Short} \cup LargeSamples] : n \in 1 .. 2}
              \cup {<<Short, Short, row>> : row \in LargeSamples}

WithGap == {<<row, Short, <<6, 7, 6, 6>>>> : row \in LargeSamples}

AllBatches == Mixtures \cup WithGap
=============================================================================
