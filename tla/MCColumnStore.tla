----------------------------- MODULE MCColumnStore -----------------------------
(* Small instances of ColumnStore for TLC.                                 *)
EXTENDS ColumnStore, TLC

\* Threads, pages, transactions and values are interchangeable.
Symmetry ==
  Permutations(Threads) \cup Permutations(Pages) \cup Permutations(Trx)
    \cup Permutations(Data)
===============================================================================
