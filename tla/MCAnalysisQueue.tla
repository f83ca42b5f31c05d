--------------------------- MODULE MCAnalysisQueue ---------------------------
(* Small instances of AnalysisQueue.                                       *)
EXTENDS AnalysisQueue, TLC

CONSTANTS c1, c2

Symmetry == Permutations({c1, c2})
=============================================================================
