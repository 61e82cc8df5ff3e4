--------------------------- MODULE MCGraphOperations ---------------------------
(* Small instances of GraphOperations for TLC.                             *)
EXTENDS GraphOperations, TLC

\* Threads and elements are interchangeable.
Symmetry == Permutations(Threads) \cup Permutations(Elements)
===============================================================================
