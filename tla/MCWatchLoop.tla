---------------------------- MODULE MCWatchLoop ----------------------------
(* Constants of the model-checking runs of WatchLoop. *)
EXTENDS WatchLoop

CONSTANTS js, rs

MCPaths == {js, rs}
MCEligible == {js}
MCSnapshots == (0 .. MaxEdits) \X (0 .. MaxEdits)

=============================================================================
