--------------------------- MODULE MCCodeVectors ---------------------------
(* Two files, two contents, two profiles that share a table: the watcher's   *)
(* and the command line's, the second limited to one file.                   *)
EXTENDS CodeVectors, TLC

CONSTANTS watch, cli, h1, h2

Configured == watch :> 1 @@ cli :> 2
Limited == watch :> {Files} @@ cli :> {Files, {1}}
=============================================================================
