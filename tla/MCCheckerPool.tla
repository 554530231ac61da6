--------------------------- MODULE MCCheckerPool ---------------------------
(* Values of the model-checking run of CheckerPool. *)
EXTENDS CheckerPool, TLC

CONSTANTS w1, w2

TwoWorkers == {w1, w2}
Alike == Permutations(TwoWorkers)
=============================================================================
