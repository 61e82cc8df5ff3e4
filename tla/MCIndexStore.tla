----------------------------- MODULE MCIndexStore -----------------------------
(* Model values for TLC.                                                   *)
EXTENDS IndexStore, TLC

Symmetry == Permutations(Elements) \cup Permutations(Threads)
===============================================================================
