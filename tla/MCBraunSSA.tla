----------------------------- MODULE MCBraunSSA -----------------------------
EXTENDS BraunSSA, TLC

(* The blocks without a label, other than the entry, are interchangeable.  *)
Interchangeable == Permutations(Block \ ({Entry} \cup Labelled))
=============================================================================
