---------------------------- MODULE VectorPlane ----------------------------
(***************************************************************************)
(* What the code and the semantic vector plane of src/src/embed.rs have in *)
(* common: the row ids of their occurrences, and a bound on what fails.    *)
(***************************************************************************)
EXTENDS Naturals, FiniteSets, Functions

CONSTANTS
    MaxFaults,    \* bounds the failed and canceled passes
    None

(* SQLite picks the largest id plus one for an INTEGER PRIMARY KEY, so an id *)
(* is used again when the row that had it was the last.                      *)
Fresh(ids) == IF ids = {} THEN 1 ELSE 1 + CHOOSE i \in ids : \A j \in ids : j <= i
=============================================================================
