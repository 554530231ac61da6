--------------------------- MODULE ScoutRegister ---------------------------
(***************************************************************************)
(* What scouting promises the readers of semantic memory: for every card   *)
(* anchor, summary scope and concept term a register that is empty or      *)
(* holds one artifact, and that only ever moves on to a newer artifact.    *)
(***************************************************************************)
EXTENDS Naturals

CONSTANT Entries
VARIABLE register

RegisterInit == register = [e \in Entries |-> {}]

Newest(id) == \A e \in Entries : \A i \in register[e] : i < id

Write(e, id) ==
    /\ Newest(id)
    /\ register' = [register EXCEPT ![e] = {id}]

(* The new artifact is the newest; its number is in the register it entered. *)
RegisterNext == \E e \in Entries : \E id \in register'[e] : Write(e, id)

RegisterSpec ==
    RegisterInit /\ [][RegisterNext]_register
=============================================================================
