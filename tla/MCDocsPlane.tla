---------------------------- MODULE MCDocsPlane ----------------------------
(* Two heads: the first has never committed document 2, the second commits   *)
(* document 1 anew.                                                          *)
EXTENDS DocsPlane, TLC

CONSTANTS watch, embed, h1, h2, k1, k2, c1, c2

Tips == h1 :> (1 :> k1 @@ 2 :> None) @@ h2 :> (1 :> k2 @@ 2 :> k2)
Start == {[head |-> h1, worktree |-> (1 :> c1 @@ 2 :> c2)]}
=============================================================================
