----------------------------- MODULE MCScouting -----------------------------
(* Instances of Scouting: which subjects there are and what they rest on. *)
EXTENDS Scouting, TLC

CONSTANTS p1, p2, f1, v1, v2, c1, c2, b1, seed, anchor, filescope, module, term

MCFileOf == [x \in {anchor, filescope} |-> f1]

(* One anchor is enough for a support to lose its source, its context or     *)
(* both.  The evidence shows the same of both contexts: they differ in       *)
(* provenance, in the files at the far ends or in edges left out.            *)
MCAnchorsOf == [s \in Subjects |-> IF s \in {seed, anchor} THEN {anchor} ELSE {}]
MCShows == [c \in {c1, c2} |-> "edges"]

MCModuleOf == [f \in {f1} |-> IF module \in Subjects THEN module ELSE None]

MCKindOf == [s \in Subjects |->
    CASE s = seed -> "workflow" [] s = anchor -> "card" [] s = filescope -> "file"
      [] s = module -> "module" [] OTHER -> "concept"]
MCTermsOf == [b \in {b1} |-> {term} \cap Subjects]

Scout(st)   == [mode |-> "scout", stages |-> st]
Rebuild(st) == [mode |-> "rebuild", stages |-> st]
Refresh     == [mode |-> "refresh", stages |-> Ranks]

CardJobs == {Scout(ScoutCards), Rebuild(ScoutCards), Scout(ScoutSummaries), Refresh}
AllJobs == CardJobs \cup {Scout(ScoutWorkflows), Scout(ScoutConcepts)}

(* Processes, file versions and contexts are interchangeable. *)
Interchangeable ==
    Permutations({p1, p2}) \cup Permutations({v1, v2}) \cup Permutations({c1, c2})
=============================================================================
