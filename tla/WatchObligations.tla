-------------------------- MODULE WatchObligations --------------------------
(***************************************************************************)
(* What `jscout watch` promises (docs/advanced.md, "Watcher lifecycle"),   *)
(* with no generation, phase, retry or clock.  A change puts the watcher   *)
(* under obligations:                                                      *)
(*   "index"   an index publication that started after the change;         *)
(*   "full"    that publication must be a full refresh;                    *)
(*   "checker" a checker publication after that index publication.         *)
(* An obligation ends only with the publication it asks for.  The checker  *)
(* may be parked; then, and only then, the watcher may settle while a      *)
(* checker publication is owed.                                            *)
(***************************************************************************)
CONSTANT CheckerOn

Obligations == {"index", "full", "checker"}

VARIABLES
    owed,       \* the obligations not discharged yet
    parked,     \* the checker is parked
    settled,    \* the watcher waits with nothing left to do
    published   \* scope of the last index publication

obligationVars == <<owed, parked, settled, published>>

MaySettle(o, p) == o \subseteq (IF p THEN {"checker"} ELSE {})

Settling == settled' \in BOOLEAN /\ (settled' => MaySettle(owed', parked'))

ObligationsInit ==
    /\ owed = {"index", "full"} \cup (IF CheckerOn THEN {"checker"} ELSE {})
    /\ parked = FALSE
    /\ settled = FALSE
    /\ published = "none"

(* A change, or a timer, adds obligations; it may release the checker. *)
Oblige ==
    /\ \E more \in SUBSET Obligations : owed' = owed \cup {"index"} \cup more
    /\ parked' \in {parked, FALSE}
    /\ settled' = FALSE
    /\ published' = published

(* An index publication; a changed code digest releases a parked checker. *)
PublishIndex ==
    /\ "index" \in owed
    /\ published' \in {"incremental", "full"}
    /\ "full" \in owed => published' = "full"
    /\ \E released \in BOOLEAN :
          /\ released => parked
          /\ parked' = (parked /\ ~released)
          /\ owed' = (owed \ {"index", "full"})
                        \cup (IF released THEN {"checker"} ELSE {})
    /\ Settling

(* A checker publication needs the index publication first. *)
PublishChecker ==
    /\ "index" \notin owed
    /\ ~parked
    /\ owed' = owed \ {"checker"}
    /\ parked' = FALSE
    /\ published' = published
    /\ Settling

ParkChecker ==
    /\ CheckerOn
    /\ "index" \notin owed
    /\ ~parked
    /\ parked' = TRUE
    /\ owed' = owed
    /\ published' = published
    /\ Settling

Settle ==
    /\ ~settled
    /\ settled' = TRUE
    /\ MaySettle(owed, parked)
    /\ UNCHANGED <<owed, parked, published>>

ObligationsNext ==
    Oblige \/ PublishIndex \/ PublishChecker \/ ParkChecker \/ Settle

ObligationsSpec == ObligationsInit /\ [][ObligationsNext]_obligationVars

=============================================================================
