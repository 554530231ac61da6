-------------------------- MODULE ConsoleInterrupt --------------------------
(***************************************************************************)
(* What Ctrl-C promises the user of a command that calls a model: the      *)
(* first one stops the requests in flight, and no other is dispatched      *)
(* before they have ended; one more, or one while nothing is in flight,    *)
(* ends the process.                                                       *)
(***************************************************************************)
EXTENDS FiniteSets

CONSTANT Slots   \* the workers of the pool

VARIABLES
    busy,       \* the workers with a request in flight
    stopping,   \* whether a Ctrl-C is being obeyed
    leaving     \* whether the process has been told to exit

console == <<busy, stopping, leaving>>

ConsoleInit == busy = {} /\ ~stopping /\ ~leaving

Dispatched(s) ==
    /\ ~stopping
    /\ busy' = busy \cup {s}
    /\ UNCHANGED <<stopping, leaving>>

Ended(s) ==
    /\ s \in busy
    /\ busy' = busy \ {s}
    /\ stopping' = (stopping /\ busy' # {})
    /\ UNCHANGED leaving

CtrlC ==
    /\ ~leaving
    /\ stopping' = TRUE
    /\ leaving' = (stopping \/ busy = {})
    /\ UNCHANGED busy

(* The command is over; it forgets an interrupt that found it idle.        *)
Closed ==
    /\ busy = {}
    /\ stopping' = FALSE
    /\ UNCHANGED <<busy, leaving>>

Exited == leaving /\ busy' = {} /\ ~stopping' /\ leaving'

ConsoleNext == CtrlC \/ Closed \/ Exited \/ \E s \in Slots : Dispatched(s) \/ Ended(s)

ConsoleSpec == ConsoleInit /\ [][ConsoleNext]_console
=============================================================================
