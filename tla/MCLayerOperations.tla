--------------------------- MODULE MCLayerOperations ---------------------------
(* Four points on a line, for TLC.                                         *)
EXTENDS LayerOperations

\* In a row, on both sides of the query vector, and with equal distances.
MCLayouts == {<<1, 2, 3, 4>>, <<-1, 2, -3, 5>>, <<1, -1, 2, -2>>}

MCEntries == {{1}, {4}, {3, 4}}
===============================================================================
