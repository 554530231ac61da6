-------------------------- MODULE MCCheckerSidecar --------------------------
(* The model-checking runs of CheckerSidecar; their constants are in the    *)
(* configurations.                                                          *)
EXTENDS CheckerSidecar
=============================================================================
