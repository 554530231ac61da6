---------------------------- MODULE CheckerCall ----------------------------
(***************************************************************************)
(* What a checker promises its caller, whatever happens between the two     *)
(* processes: one request at a time, every request ends at most once and in *)
(* one of the ways below, it is canceled only if somebody asked for the     *)
(* cancellation of that very request, and a checker whose request failed    *)
(* is never called again.                                                   *)
(***************************************************************************)
EXTENDS Naturals, Sequences

CONSTANT Requests   \* bound on the requests of the caller

VARIABLES
    calling,    \* the request in hand, or 0
    asked,      \* the requests whose cancellation was asked for
    outcome,    \* how each request ended
    open        \* whether the checker may be called

vars == <<calling, asked, outcome, open>>

Init ==
    /\ calling = 0
    /\ asked = {}
    /\ outcome = <<>>
    /\ open = TRUE

Begin ==
    /\ open
    /\ calling = 0
    /\ Len(outcome) < Requests
    /\ calling' = Len(outcome) + 1
    /\ UNCHANGED <<asked, outcome, open>>

Ask ==
    /\ calling # 0
    /\ asked' = asked \cup {calling}
    /\ UNCHANGED <<calling, outcome, open>>

(* An answer, an error the checker reports, or the cancellation asked for. *)
Finish ==
    /\ calling # 0
    /\ \E how \in {"result", "error", "canceled"} :
         /\ how = "canceled" => calling \in asked
         /\ outcome' = Append(outcome, how)
    /\ calling' = 0
    /\ UNCHANGED <<asked, open>>

(* The checker is lost: with the request in hand, or before it took one.   *)
Fail ==
    /\ open
    /\ Len(outcome) < Requests
    /\ \E how \in {"timeout", "failed"} : outcome' = Append(outcome, how)
    /\ calling' = 0
    /\ open' = FALSE
    /\ UNCHANGED asked

Close ==
    /\ calling = 0
    /\ open' = FALSE
    /\ UNCHANGED <<calling, asked, outcome>>

Next == Begin \/ Ask \/ Finish \/ Fail \/ Close

Spec == Init /\ [][Next]_vars
=============================================================================
