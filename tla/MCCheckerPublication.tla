----------------------- MODULE MCCheckerPublication -----------------------
(***************************************************************************)
(* CheckerPublication with two files and two projects.  Project A owns f,  *)
(* project B owns f and g: f has two owners, B may be partly answered, and *)
(* both files call a declaration of g.                                     *)
(***************************************************************************)
EXTENDS CheckerPublication

CONSTANTS f, g, A, B, e1, e2

MCMembers == [p \in Projects |-> IF p = A THEN {f} ELSE {f, g}]
MCTarget  == [x \in Files |-> g]

(* The projects resolve nothing under the second version of their config. *)
AUnanswered    == {<<A, 1>>}
AllUnanswered  == Projects \X {1}

Carry == [e \in Enrichers |-> "carry"]
CarryAndPlain == [e \in Enrichers |-> IF e = e1 THEN "carry" ELSE "plain"]

=============================================================================
