------------------------- MODULE MCSemanticVectors -------------------------
(* An annotating agent, the watcher's embedding passes and the command       *)
(* line's, over documents that repeat.                                       *)
EXTENDS SemanticVectors

CONSTANTS agent, watch, cli, d1, d2
=============================================================================
